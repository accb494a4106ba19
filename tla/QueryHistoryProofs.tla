-------------------------- MODULE QueryHistoryProofs --------------------------
(* Proofs about the slow query history, for every value of its constants.  *)
EXTENDS QueryHistory, FiniteSetTheorems, TLAPS

USE DEF lineVars

\* The part that says where the records are.
IInv == TypeOK /\ FilesOK /\ ClearOK

LEMMA HistoryInit == Init => IInv
<1> SUFFICES ASSUME Init PROVE IInv
  OBVIOUS
<1>1. TypeOK
  <2>1. written \in 0..MaxRecords
    BY ConstantsAssumption DEF Init
  <2>2. content \in [Paths -> SUBSET Records] /\ exists \in SUBSET Paths
    BY DEF Init
  <2>3. /\ pc \in [Workers -> {"idle"} \cup Appending \cup Clearing]
        /\ fd \in [Workers -> Paths \cup {"unlinked", "none"}]
        /\ seen \in [Workers -> SUBSET Records]
    BY DEF Init
  <2>4. torn \in SUBSET Paths /\ skipped \in SUBSET Records /\ cut \in SUBSET Records
    BY DEF Init
  <2> QED
    BY <2>1, <2>2, <2>3, <2>4 DEF Init, TypeOK
<1>2. FilesOK
  <2>1. \A w \in Workers : fd[w] = "none" /\ pc[w] = "idle"
    BY DEF Init
  <2> QED
    BY <2>1 DEF Init, FilesOK, Held, Paths
<1>3. ClearOK
  BY DEF Init, ClearOK, ClearIsFinal, Held, Paths
<1> QED
  BY <1>1, <1>2, <1>3 DEF IInv

----------------------------------------------------------------------------
(* The file system.                                                        *)

TornOK == \A p \in torn : content[p] # {}
FdOK == \A w \in Workers : fd[w] \in Paths => fd[w] \in exists

\* Removing a file keeps the types of the files, and takes records away only.
LEMMA UnlinkTypes ==
    ASSUME TypeOK, NEW p \in Paths, Unlink(p)
    PROVE  /\ exists' \in SUBSET Paths
           /\ content' \in [Paths -> SUBSET Records]
           /\ fd' \in [Workers -> Paths \cup {"unlinked", "none"}]
           /\ content'[p] = {}
           /\ \A q \in Paths : q # p => content'[q] = content[q]
           /\ \A w \in Workers : fd'[w] # "none" <=> fd[w] # "none"
           /\ FdOK => FdOK'
           /\ torn' = torn \ {p} /\ torn' \in SUBSET Paths
           /\ TornOK => TornOK'
BY DEF TypeOK, Unlink, Paths, FdOK, TornOK

\* Renaming the main file leaves what it held in the rotated one only.
LEMMA RenameTypes ==
    ASSUME TypeOK, NEW w \in Workers, Rename(w)
    PROVE  /\ exists' \in SUBSET Paths
           /\ content' \in [Paths -> SUBSET Records]
           /\ fd' \in [Workers -> Paths \cup {"unlinked", "none"}]
           /\ \A v \in Workers : fd'[v] # "none" <=> fd[v] # "none"
           /\ FdOK => FdOK'
           /\ torn' \in SUBSET Paths
           /\ TornOK => TornOK'
           /\ \/ content'["main"] = {} /\ content'["rotated"] = content["main"]
                 /\ exists' = {"rotated"} /\ "main" \notin torn'
              \/ content' = content /\ exists' = exists /\ torn' = torn
<1>1. CASE UNCHANGED <<exists, content, torn, fd>>
  BY <1>1 DEF TypeOK, FdOK, TornOK
<1>2. CASE ~UNCHANGED <<exists, content, torn, fd>>
  <2>1. /\ exists' = {"rotated"}
        /\ content' = [main |-> {}, rotated |-> content["main"]]
        /\ fd' = [v \in Workers |-> IF fd[v] = "main" THEN "rotated"
                                    ELSE IF fd[v] = "rotated" THEN "unlinked"
                                    ELSE fd[v]]
        /\ torn' = IF "main" \in torn THEN {"rotated"} ELSE {}
    BY <1>2 DEF Rename
  <2>2. content["main"] \in SUBSET Records
    BY DEF TypeOK, Paths
  <2>3. content' \in [Paths -> SUBSET Records]
    BY <2>1, <2>2 DEF Paths
  <2>4. fd' \in [Workers -> Paths \cup {"unlinked", "none"}]
    BY <2>1 DEF TypeOK, Paths
  <2>5. \A v \in Workers : fd'[v] # "none" <=> fd[v] # "none"
    BY <2>1
  <2>6. FdOK'
    BY <2>1 DEF FdOK, Paths
  <2>7. torn' \in SUBSET Paths /\ "main" \notin torn'
    BY <2>1 DEF Paths
  <2>8. TornOK => TornOK'
    BY <2>1 DEF TornOK
  <2> QED
    BY <2>1, <2>3, <2>4, <2>5, <2>6, <2>7, <2>8 DEF Paths
<1> QED
  BY <1>1, <1>2

\* A write puts one new record in the file that is open.
LEMMA AppendFacts ==
    ASSUME TypeOK, NEW w \in Workers, Append(w)
    PROVE  /\ written' \in 0..MaxRecords /\ written + 1 \in Records
           /\ content' \in [Paths -> SUBSET Records]
           /\ fd' \in [Workers -> Paths \cup {"unlinked", "none"}]
           /\ Joined(w) \in SUBSET Records
           /\ \A p \in Paths : content'[p] = IF fd[w] = p THEN content[p] \cup {written + 1}
                                              ELSE content[p]
<1>1. written' \in 0..MaxRecords /\ written + 1 \in Records
  BY ConstantsAssumption DEF Append, Records, TypeOK
<1>2. content' \in [Paths -> SUBSET Records]
  BY <1>1 DEF Append, TypeOK
<1>3. fd' \in [Workers -> Paths \cup {"unlinked", "none"}]
  BY DEF Append, TypeOK
<1>4. \A p \in Paths : LastOf(p) \in SUBSET Records
  BY DEF LastOf, TypeOK
<1>5. Joined(w) \in SUBSET Records
  BY <1>1, <1>4 DEF Joined, TypeOK
<1> QED
  BY <1>1, <1>2, <1>3, <1>5 DEF Append

LEMMA WriteTypes ==
    ASSUME TypeOK, NEW w \in Workers, Write(w) \/ WriteShort(w)
    PROVE  /\ torn' \in SUBSET Paths
           /\ skipped' \in SUBSET Records
           /\ cut' \in SUBSET Records
           /\ TornOK => TornOK'
<1>1. Append(w)
  BY DEF Write, WriteShort
<1>2. written + 1 \in Records /\ Joined(w) \in SUBSET Records
  BY <1>1, AppendFacts
<1>3. \A p \in Paths : content[p] \subseteq content'[p] /\ (fd[w] = p => content'[p] # {})
  BY <1>1, AppendFacts
<1>4. torn' \in SUBSET Paths /\ \A p \in torn' : p \in torn \/ p = fd[w]
  BY DEF Write, WriteShort, TypeOK
<1>5. TornOK => TornOK'
  BY <1>3, <1>4 DEF TornOK
<1>6. skipped' \in SUBSET Records /\ cut' \in SUBSET Records
  BY <1>2 DEF Write, WriteShort, TypeOK
<1> QED
  BY <1>4, <1>5, <1>6

----------------------------------------------------------------------------
(* The types.                                                              *)

LEMMA TypeStep ==
    ASSUME TypeOK, NEW w \in Workers,
           \/ StartAppend(w) \/ Stat(w) \/ RemoveRotated(w) \/ Rename(w)
           \/ Open(w) \/ Write(w) \/ WriteShort(w) \/ GiveUp(w)
           \/ StartClear(w) \/ ClearFirst(w) \/ ClearSecond(w) \/ ClearFails(w)
    PROVE  TypeOK'
<1> USE DEF TypeOK, Goto, Appending, Clearing
<1>s. Held \in SUBSET Records
  BY DEF Held, Paths
<1>1. CASE StartAppend(w)
  BY <1>1 DEF StartAppend, Begin
<1>2. CASE Stat(w)
  BY <1>2 DEF Stat
<1>3. CASE RemoveRotated(w)
  <2>1. /\ exists' \in SUBSET Paths
        /\ content' \in [Paths -> SUBSET Records]
        /\ fd' \in [Workers -> Paths \cup {"unlinked", "none"}]
        /\ torn' \in SUBSET Paths
    BY <1>3, UnlinkTypes DEF RemoveRotated, Paths
  <2> QED
    BY <1>3, <2>1 DEF RemoveRotated
<1>4. CASE Rename(w)
  BY <1>4, RenameTypes DEF Rename
<1>5. CASE Open(w)
  BY <1>5 DEF Open, Paths
<1>6. CASE Write(w) \/ WriteShort(w)
  <2>1. Append(w)
    BY <1>6 DEF Write, WriteShort
  <2> QED
    BY <1>6, <2>1, AppendFacts, WriteTypes DEF Append
<1>7. CASE GiveUp(w)
  BY <1>7 DEF GiveUp
<1>8. CASE StartClear(w)
  BY <1>8, <1>s DEF StartClear, Begin
<1>9. CASE ClearFirst(w)
  <2>1. Unlink("main")
    BY <1>9 DEF ClearFirst, ClearOrder
  <2>2. /\ exists' \in SUBSET Paths
        /\ content' \in [Paths -> SUBSET Records]
        /\ fd' \in [Workers -> Paths \cup {"unlinked", "none"}]
        /\ torn' \in SUBSET Paths
    BY <2>1, UnlinkTypes DEF Paths
  <2> QED
    BY <1>9, <2>2 DEF ClearFirst
<1>10. CASE ClearSecond(w)
  <2>1. Unlink("rotated")
    BY <1>10 DEF ClearSecond, ClearOrder
  <2>2. /\ exists' \in SUBSET Paths
        /\ content' \in [Paths -> SUBSET Records]
        /\ fd' \in [Workers -> Paths \cup {"unlinked", "none"}]
        /\ torn' \in SUBSET Paths
    BY <2>1, UnlinkTypes DEF Paths
  <2> QED
    BY <1>10, <2>2 DEF ClearSecond
<1>11. CASE ClearFails(w)
  BY <1>11 DEF ClearFails
<1> QED
  BY <1>1, <1>2, <1>3, <1>4, <1>5, <1>6, <1>7, <1>8, <1>9, <1>10, <1>11

----------------------------------------------------------------------------
(* The files and the clears.                                               *)

\* A step that writes nothing and finishes no clear: every record stays where
\* it is, or disappears.
LEMMA Removing ==
    ASSUME IInv, TypeOK', NEW p \in Paths, content'[p] = {},
           \A q \in Paths : q # p => content'[q] = content[q],
           exists' = exists \ {p},
           \A w \in Workers : fd'[w] # "none" <=> pc'[w] = "write",
           FdOK', TornOK',
           written' = written
    PROVE  FilesOK' /\ Held' \subseteq Held /\ content'["main"] \subseteq content["main"]
BY DEF IInv, FilesOK, Held, Paths, FdOK, TornOK

\* A step that leaves the files alone.
LEMMA Resting ==
    ASSUME IInv, TypeOK', UNCHANGED <<exists, content, torn, written, cleared>>,
           \A w \in Workers : fd'[w] # "none" <=> pc'[w] = "write",
           \A w \in Workers : fd'[w] \in {fd[w], "none"},
           \A w \in Workers : seen'[w] \in {seen[w], Held, {}},
           \A w \in Workers : pc'[w] = "clearSecond" =>
               pc[w] = "clearSecond" /\ seen'[w] = seen[w]
    PROVE  IInv'
<1>1. FilesOK'
  BY DEF IInv, FilesOK, Held, Paths
<1>2. Held' = Held /\ Held \subseteq 1..written
  BY DEF Held, IInv, FilesOK
<1>3. ClearOK'
  BY <1>2 DEF IInv, ClearOK, ClearIsFinal
<1> QED
  BY <1>1, <1>3 DEF IInv

LEMMA FilesStep ==
    ASSUME IInv, TypeOK', NEW w \in Workers,
           \/ StartAppend(w) \/ Stat(w) \/ RemoveRotated(w) \/ Rename(w)
           \/ Open(w) \/ Write(w) \/ WriteShort(w) \/ GiveUp(w)
           \/ StartClear(w) \/ ClearFirst(w) \/ ClearSecond(w) \/ ClearFails(w)
    PROVE  IInv'
<1>t. TypeOK /\ FilesOK /\ ClearOK
  BY DEF IInv
<1>p. /\ pc \in [Workers -> {"idle"} \cup Appending \cup Clearing]
      /\ seen \in [Workers -> SUBSET Records]
      /\ fd \in [Workers -> Paths \cup {"unlinked", "none"}]
      /\ \A v \in Workers : fd[v] # "none" <=> pc[v] = "write"
      /\ FdOK /\ TornOK
  BY <1>t DEF TypeOK, FilesOK, FdOK, TornOK
<1>1. CASE StartAppend(w) \/ Stat(w) \/ GiveUp(w) \/ StartClear(w) \/ ClearFails(w)
  <2>1. UNCHANGED <<exists, content, torn, written, cleared>>
    BY <1>1 DEF StartAppend, Stat, GiveUp, StartClear, ClearFails
  <2>2. \A v \in Workers : fd'[v] # "none" <=> pc'[v] = "write"
    BY <1>1, <1>p DEF StartAppend, Stat, GiveUp, StartClear, ClearFails, Begin,
       Goto, Idle, Appending, Clearing
  <2>5. \A v \in Workers : fd'[v] \in {fd[v], "none"}
    BY <1>1, <1>p DEF StartAppend, Stat, GiveUp, StartClear, ClearFails
  <2>3. \A v \in Workers : seen'[v] \in {seen[v], Held, {}}
    BY <1>1, <1>p DEF StartAppend, Stat, GiveUp, StartClear, ClearFails
  <2>4. \A v \in Workers : pc'[v] = "clearSecond" =>
               pc[v] = "clearSecond" /\ seen'[v] = seen[v]
    BY <1>1, <1>p DEF StartAppend, Stat, GiveUp, StartClear, ClearFails, Begin,
       Goto
  <2> QED
    BY <2>1, <2>2, <2>3, <2>4, <2>5, Resting
<1>2. CASE RemoveRotated(w)
  <2>1. /\ \A v \in Workers : fd'[v] # "none" <=> pc'[v] = "write"
        /\ \A v \in Workers : pc'[v] = "clearSecond" => pc[v] = "clearSecond"
        /\ UNCHANGED <<written, seen, cleared>>
    BY <1>2, <1>p, <1>t, UnlinkTypes DEF RemoveRotated, Goto, Paths
  <2>2. CASE Unlink("rotated")
    <3>1. FilesOK' /\ Held' \subseteq Held /\ content'["main"] \subseteq content["main"]
      BY <2>1, <2>2, <1>p, <1>t, UnlinkTypes, Removing DEF Paths, Unlink
    <3>2. ClearOK'
      BY <2>1, <3>1, <1>t DEF ClearOK, ClearIsFinal
    <3> QED
      BY <3>1, <3>2 DEF IInv
  <2>3. CASE UNCHANGED <<exists, content, torn, fd>>
    BY <2>1, <2>3, Resting
  <2> QED
    BY <1>2, <2>2, <2>3 DEF RemoveRotated
<1>3. CASE Rename(w)
  <2>1. /\ \A v \in Workers : fd'[v] # "none" <=> pc'[v] = "write"
        /\ \A v \in Workers : pc'[v] = "clearSecond" => pc[v] = "clearSecond"
        /\ UNCHANGED <<written, seen, cleared>>
    BY <1>3, <1>p, <1>t, RenameTypes DEF Rename, Goto
  <2>2. /\ Held' \subseteq Held
        /\ content'["main"] \subseteq content["main"]
        /\ content'["main"] \cap content'["rotated"] = {}
        /\ \A p \in Paths : content'[p] # {} => p \in exists'
    BY <1>3, <1>t, RenameTypes DEF FilesOK, Held, Paths
  <2>5. FdOK' /\ TornOK'
    BY <1>3, <1>p, <1>t, RenameTypes
  <2>3. FilesOK'
    BY <2>1, <2>2, <2>5, <1>t DEF FilesOK, FdOK, TornOK
  <2>4. ClearOK'
    BY <2>1, <2>2, <1>t DEF ClearOK, ClearIsFinal
  <2> QED
    BY <2>3, <2>4 DEF IInv
<1>4. CASE Open(w)
  <2>1. /\ \A v \in Workers : fd'[v] # "none" <=> pc'[v] = "write"
        /\ \A v \in Workers : pc'[v] = "clearSecond" => pc[v] = "clearSecond"
        /\ UNCHANGED <<content, torn, written, seen, cleared>>
        /\ exists \subseteq exists'
        /\ FdOK'
    BY <1>4, <1>p DEF Open, Goto, FdOK, Paths
  <2>2. FilesOK' /\ Held' = Held
    BY <2>1, <1>t DEF FilesOK, Held, FdOK
  <2>3. ClearOK'
    BY <2>1, <2>2, <1>t DEF ClearOK, ClearIsFinal
  <2> QED
    BY <2>2, <2>3 DEF IInv
<1>5. CASE Write(w) \/ WriteShort(w)
  <2>a. Append(w)
    BY <1>5 DEF Write, WriteShort
  <2>1. /\ written \in Nat /\ written' = written + 1
        /\ content \in [Paths -> SUBSET Records]
        /\ 1..written' = (1..written) \cup {written'} /\ written' \notin 1..written
        /\ UNCHANGED <<exists, seen, cleared>>
    BY <2>a, <1>t, ConstantsAssumption DEF Append, TypeOK
  <2>2. /\ \A v \in Workers : fd'[v] # "none" <=> pc'[v] = "write"
        /\ \A v \in Workers : pc'[v] = "clearSecond" => pc[v] = "clearSecond"
        /\ FdOK'
    BY <2>a, <1>p DEF Append, Goto, FdOK, Paths
  <2>9. TornOK'
    BY <1>5, <1>p, <1>t, WriteTypes
  <2>3. /\ content'["main"] = IF fd[w] = "main" THEN content["main"] \cup {written'}
                              ELSE content["main"]
        /\ content'["rotated"] = IF fd[w] = "rotated" THEN content["rotated"] \cup {written'}
                                 ELSE content["rotated"]
    BY <2>a, <2>1, <1>t, AppendFacts DEF Paths
  <2>4. written' \notin content["main"] /\ written' \notin content["rotated"]
    BY <2>1, <1>t DEF FilesOK, Held
  <2>5. \A p \in Paths : fd[w] = p => p \in exists
    BY <1>p DEF FdOK
  <2>6. \A p \in Paths : content'[p] # {} => p \in exists'
    BY <2>1, <2>3, <2>5, <1>t DEF FilesOK, Paths
  <2>7. FilesOK'
    BY <2>1, <2>2, <2>3, <2>4, <2>6, <2>9, <1>t DEF FilesOK, Held, FdOK, TornOK
  <2>8. ClearOK'
    BY <2>1, <2>2, <2>3, <1>t DEF ClearOK, ClearIsFinal, Held
  <2> QED
    BY <2>7, <2>8 DEF IInv
<1>6. CASE ClearFirst(w)
  <2>1. /\ Unlink("main")
        /\ UNCHANGED <<written, seen, cleared>>
    BY <1>6 DEF ClearFirst, ClearOrder
  <2>2. \A v \in Workers : fd'[v] # "none" <=> pc'[v] = "write"
    BY <1>6, <2>1, <1>p, <1>t, UnlinkTypes DEF ClearFirst, Goto, Paths
  <2>3. FilesOK' /\ Held' \subseteq Held /\ content'["main"] = {}
    BY <2>1, <2>2, <1>p, <1>t, UnlinkTypes, Removing DEF Paths, Unlink
  <2>4. ClearOK'
    BY <2>1, <2>3, <1>t DEF ClearOK, ClearIsFinal
  <2> QED
    BY <2>3, <2>4 DEF IInv
<1>7. CASE ClearSecond(w)
  <2>1. /\ Unlink("rotated")
        /\ pc[w] = "clearSecond" /\ pc' = [pc EXCEPT ![w] = "idle"]
        /\ cleared' = cleared \cup seen[w]
        /\ seen' = [seen EXCEPT ![w] = {}]
        /\ written' = written
    BY <1>7 DEF ClearSecond, ClearOrder, Goto
  <2>2. \A v \in Workers : fd'[v] # "none" <=> pc'[v] = "write"
    BY <2>1, <1>p, <1>t, UnlinkTypes DEF Paths
  <2>3. FilesOK' /\ Held' \subseteq Held /\ content'["main"] \subseteq content["main"]
    BY <2>1, <2>2, <1>p, <1>t, UnlinkTypes, Removing DEF Paths, Unlink
  <2>4. Held' \subseteq content["main"]
    BY <2>1, <2>3, <1>t, UnlinkTypes DEF Held, Paths
  <2>5. Held' \cap cleared' = {}
    BY <2>1, <2>3, <2>4, <1>t DEF ClearOK, ClearIsFinal
  <2>6. ClearOK'
    BY <2>1, <2>3, <2>5, <1>p, <1>t DEF ClearOK, ClearIsFinal
  <2> QED
    BY <2>3, <2>6 DEF IInv
<1> QED
  BY <1>1, <1>2, <1>3, <1>4, <1>5, <1>6, <1>7

LEMMA HistoryStep ==
    ASSUME IInv, [Next]_vars
    PROVE  IInv'
<1>1. ASSUME NEW w \in Workers,
             \/ StartAppend(w) \/ Stat(w) \/ RemoveRotated(w) \/ Rename(w)
             \/ Open(w) \/ Write(w) \/ WriteShort(w) \/ GiveUp(w)
             \/ StartClear(w) \/ ClearFirst(w) \/ ClearSecond(w) \/ ClearFails(w)
      PROVE  IInv'
  <2>1. TypeOK'
    BY <1>1, TypeStep DEF IInv
  <2> QED
    BY <1>1, <2>1, FilesStep
<1>2. CASE UNCHANGED vars
  BY <1>2 DEF vars, IInv, TypeOK, FilesOK, ClearOK, ClearIsFinal, Held
<1> QED
  BY <1>1, <1>2 DEF Next

----------------------------------------------------------------------------
(* What operations that run one by one keep.                               *)

\* The number of records newer than one of them grows with the records.
LEMMA NewerGrow ==
    ASSUME IInv, NEW S \in SUBSET Records, NEW T \in SUBSET Records, S \subseteq T,
           NEW r \in Records
    PROVE  /\ Cardinality({n \in S : n > r}) <= Cardinality({n \in T : n > r})
           /\ Cardinality({n \in T : n > r}) \in Nat
           /\ (\A n \in S : r < n) => Cardinality(S) <= Cardinality({n \in T : n > r})
           /\ Cardinality(S) \in Nat
<1> DEFINE newer == {n \in T : n > r}
           fewer == {n \in S : n > r}
<1>1. IsFiniteSet(1..MaxRecords)
  BY ConstantsAssumption, FS_Interval
<1>2. newer \in SUBSET (1..MaxRecords) /\ S \in SUBSET (1..MaxRecords)
  BY DEF Records
<1>3. IsFiniteSet(newer) /\ IsFiniteSet(S)
  BY <1>1, <1>2, FS_Subset
<1>4. fewer \in SUBSET newer
  OBVIOUS
<1>5. (\A n \in S : r < n) => S \in SUBSET newer
  BY DEF Records
<1>6. IsFiniteSet(fewer) /\ Cardinality(fewer) <= Cardinality(newer)
  BY <1>3, <1>4, FS_Subset
<1>7. Cardinality(newer) \in Nat /\ Cardinality(S) \in Nat
  BY <1>3, FS_CardinalityType
<1> HIDE DEF newer, fewer
<1>8. (\A n \in S : r < n) => Cardinality(S) <= Cardinality(newer)
  BY <1>3, <1>5, FS_Subset
<1> QED
  BY <1>6, <1>7, <1>8 DEF newer, fewer

\* A step that loses no record, it may write one or remove what clears were
\* asked for.
LEMMA KeepsAFile ==
    ASSUME IInv, IInv',
           Held \cup asked \subseteq Held' \cup asked',
           (1..written') \ (Held' \cup asked') \subseteq 1..written,
           RotationKeepsAFile
    PROVE  RotationKeepsAFile'
<1> DEFINE S == Held \cup asked
<1>1. S \in SUBSET Records /\ S' \in SUBSET Records
  BY DEF IInv, TypeOK, Held, Paths
<1>2. SUFFICES ASSUME NEW r \in (1..written') \ S'
               PROVE  Cardinality({n \in S' : n > r}) >= MaxBytes
  BY DEF RotationKeepsAFile
<1>3. r \in (1..written) \ S /\ r \in Records
  BY ConstantsAssumption DEF IInv, TypeOK, Records
<1>4. Cardinality({n \in S : n > r}) >= MaxBytes
  BY <1>3 DEF RotationKeepsAFile
<1>5. Cardinality({n \in S : n > r}) <= Cardinality({n \in S' : n > r})
  BY <1>1, <1>3, NewerGrow
<1>6. Cardinality({n \in S : n > r}) \in Nat /\ Cardinality({n \in S' : n > r}) \in Nat
  BY <1>1, <1>3, NewerGrow
<1> HIDE DEF S
<1> QED
  BY <1>4, <1>5, <1>6, ConstantsAssumption

\* A rotation loses the rotated file behind a full main file.
LEMMA FullMainIsKept ==
    ASSUME IInv, IInv', MainIsNewest,
           Cardinality(content["main"]) >= MaxBytes,
           UNCHANGED <<written, asked>>, Held' = content["main"]
    PROVE  RotationKeepsAFile'
<1> DEFINE S == content["main"]
           T == Held' \cup asked'
<1>1. S \in SUBSET Records /\ T \in SUBSET Records /\ S \subseteq T
  BY DEF IInv, TypeOK, Held, Paths
<1>2. SUFFICES ASSUME NEW r \in (1..written') \ T
               PROVE  Cardinality({n \in T : n > r}) >= MaxBytes
  BY DEF RotationKeepsAFile
<1>3. r \in Records /\ \A n \in S : r < n
  BY ConstantsAssumption DEF IInv, TypeOK, Records, MainIsNewest
<1>4. /\ Cardinality(S) <= Cardinality({n \in T : n > r})
      /\ Cardinality(S) \in Nat /\ Cardinality({n \in T : n > r}) \in Nat
  BY <1>1, <1>3, NewerGrow
<1> HIDE DEF S, T
<1> QED
  BY <1>4, ConstantsAssumption DEF S

\* While no two operations run at one time, the others wait for the one that
\* steps.
LEMMA OthersIdle ==
    ASSUME IInv, KeepOK, ~overlapped', NEW w \in Workers,
           \/ StartAppend(w) \/ Stat(w) \/ RemoveRotated(w) \/ Rename(w)
           \/ Open(w) \/ Write(w) \/ WriteShort(w) \/ GiveUp(w)
           \/ StartClear(w) \/ ClearFirst(w) \/ ClearSecond(w) \/ ClearFails(w)
    PROVE  /\ ~overlapped
           /\ \A v \in Workers \ {w} : Idle(v) /\ Idle(v)'
           /\ ~Idle(w) => RunsAlone(w)
           /\ MainIsNewest /\ RotationKeepsAFile /\ TornLinesTakeOne
<1> USE DEF IInv, TypeOK, Idle, Goto
<1>1. CASE StartAppend(w) \/ StartClear(w)
  <2>1. PICK place : Begin(w, place)
    BY <1>1 DEF StartAppend, StartClear
  <2>2. ~overlapped /\ pc[w] = "idle" /\ \A v \in Workers \ {w} : pc[v] = "idle"
    BY <2>1 DEF Begin
  <2>3. \A v \in Workers \ {w} : pc'[v] = pc[v]
    BY <2>1 DEF Begin
  <2> QED
    BY <2>2, <2>3 DEF KeepOK
<1>2. CASE \/ Stat(w) \/ RemoveRotated(w) \/ Rename(w) \/ Open(w) \/ Write(w)
           \/ WriteShort(w) \/ GiveUp(w) \/ ClearFirst(w) \/ ClearSecond(w) \/ ClearFails(w)
  <2>1. /\ overlapped' = overlapped /\ pc[w] # "idle"
        /\ \A v \in Workers \ {w} : pc'[v] = pc[v]
    BY <1>2 DEF Stat, RemoveRotated, Rename, Open, Write, WriteShort, Append, GiveUp, ClearFirst,
                ClearSecond, ClearFails, Appending, Clearing
  <2> QED
    BY <2>1 DEF KeepOK, RunsAlone
<1> QED
  BY <1>1, <1>2

LEMMA KeepStep ==
    ASSUME IInv, IInv', KeepOK, NEW w \in Workers,
           \/ StartAppend(w) \/ Stat(w) \/ RemoveRotated(w) \/ Rename(w)
           \/ Open(w) \/ Write(w) \/ WriteShort(w) \/ GiveUp(w)
           \/ StartClear(w) \/ ClearFirst(w) \/ ClearSecond(w) \/ ClearFails(w)
    PROVE  KeepOK'
<1> DEFINE AloneAt(place) ==
             /\ place = "write" => fd'[w] = "main"
             /\ place \in Clearing => Held' \subseteq asked'
             /\ place \in {"remove", "rename"}
                  => Cardinality(content'["main"]) >= MaxBytes
<1>s. SUFFICES ASSUME ~overlapped' PROVE KeepOK'
  BY DEF KeepOK
<1>t. /\ pc \in [Workers -> {"idle"} \cup Appending \cup Clearing]
      /\ fd \in [Workers -> Paths \cup {"unlinked", "none"}]
      /\ content \in [Paths -> SUBSET Records]
      /\ FilesOK /\ FilesOK' /\ TypeOK
  BY DEF IInv, TypeOK
<1>o. /\ \A v \in Workers \ {w} : Idle(v) /\ Idle(v)'
      /\ ~Idle(w) => RunsAlone(w)
      /\ MainIsNewest /\ RotationKeepsAFile /\ TornLinesTakeOne
  BY <1>s, OthersIdle
\* It is enough to follow the worker that steps.
<1>k. ASSUME NEW place, pc'[w] = place, place # "idle" => AloneAt(place),
             MainIsNewest', RotationKeepsAFile', TornLinesTakeOne'
      PROVE  KeepOK'
  <2>1. Idle(w)' \/ RunsAlone(w)'
    BY <1>k, <1>o DEF RunsAlone, Idle
  <2>2. \A v \in Workers : Idle(v)' \/ RunsAlone(v)'
    BY <1>o, <2>1
  <2> QED
    BY <1>k, <2>2 DEF KeepOK
\* Lines are spoilt by writes only.
<1>z. ASSUME UNCHANGED lineVars
      PROVE  TornLinesTakeOne'
  BY <1>z, <1>o DEF TornLinesTakeOne
\* A step that leaves the files alone, and what clears were asked for too.
<1>f. ASSUME UNCHANGED <<content, torn, lineVars>>, asked \subseteq asked'
      PROVE  MainIsNewest' /\ RotationKeepsAFile' /\ TornLinesTakeOne' /\ Held' = Held
  <2>1. Held' = Held
    BY <1>f DEF Held
  <2>2. MainIsNewest'
    BY <1>f, <1>o DEF MainIsNewest
  <2>3. RotationKeepsAFile'
    BY <1>f, <1>o, <2>1, KeepsAFile
  <2>4. TornLinesTakeOne'
    BY <1>f, <1>z
  <2> QED
    BY <2>1, <2>2, <2>3, <2>4
\* A removal that takes away what is asked for.
<1>r. ASSUME UNCHANGED <<written, asked, cut>>, Held \subseteq asked,
             content'["main"] \subseteq content["main"], Held' \subseteq Held,
             "main" \in torn' => "main" \in torn /\ content'["main"] = content["main"]
      PROVE  MainIsNewest' /\ RotationKeepsAFile'
  <2>1. MainIsNewest'
    BY <1>r, <1>o DEF MainIsNewest, Held
  <2>2. RotationKeepsAFile'
    BY <1>r, <1>o, KeepsAFile
  <2> QED
    BY <2>1, <2>2
<1> USE DEF Goto, Idle
<1>1. CASE StartAppend(w)
  <2>1. pc'[w] = "stat" /\ UNCHANGED <<content, torn, asked, lineVars>>
    BY <1>1, <1>t DEF StartAppend, Begin
  <2> QED
    BY <1>f, <1>k, <2>1 DEF Clearing
<1>2. CASE Stat(w)
  <2>1. /\ UNCHANGED <<content, torn, asked, lineVars>>
        /\ \/ pc'[w] = "open"
           \/ pc'[w] = "remove" /\ Cardinality(content["main"]) >= MaxBytes
    BY <1>2, <1>t DEF Stat
  <2> QED
    BY <1>f, <1>k, <2>1 DEF Clearing
<1>3. CASE RemoveRotated(w)
  <2>1. /\ pc[w] = "remove" /\ pc'[w] = "rename" /\ UNCHANGED <<asked, lineVars>>
        /\ Cardinality(content["main"]) >= MaxBytes
    BY <1>3, <1>t, <1>o DEF RemoveRotated, RunsAlone
  <2>2. CASE Unlink("rotated")
    <3>1. /\ content'["main"] = content["main"] /\ content'["rotated"] = {}
          /\ torn' = torn \ {"rotated"}
      BY <2>2, <1>t, UnlinkTypes DEF Paths
    <3>2. MainIsNewest'
      BY <1>o, <2>1, <3>1 DEF MainIsNewest
    <3>3. Held' = content["main"]
      BY <3>1 DEF Held
    <3>4. RotationKeepsAFile'
      BY <1>o, <2>1, <3>3, FullMainIsKept
    <3> QED
      BY <1>k, <1>z, <2>1, <3>1, <3>2, <3>4 DEF Clearing
  <2>3. CASE UNCHANGED <<exists, content, torn, fd>>
    BY <1>f, <1>k, <2>1, <2>3 DEF Clearing
  <2> QED
    BY <1>3, <2>2, <2>3 DEF RemoveRotated
<1>4. CASE Rename(w)
  <2>1. /\ pc[w] = "rename" /\ pc'[w] = "open" /\ UNCHANGED <<asked, lineVars>>
        /\ Cardinality(content["main"]) >= MaxBytes
    BY <1>4, <1>t, <1>o DEF Rename, RunsAlone
  <2>2. CASE /\ content'["main"] = {} /\ content'["rotated"] = content["main"]
             /\ "main" \notin torn'
    <3>1. MainIsNewest'
      BY <2>2 DEF MainIsNewest
    <3>2. Held' = content["main"]
      BY <2>2 DEF Held
    <3>3. RotationKeepsAFile'
      BY <1>o, <2>1, <3>2, FullMainIsKept
    <3> QED
      BY <1>k, <1>z, <2>1, <3>1, <3>3 DEF Clearing
  <2>3. CASE content' = content /\ torn' = torn
    BY <1>f, <1>k, <2>1, <2>3 DEF Clearing
  <2> QED
    BY <1>4, <1>t, <2>2, <2>3, RenameTypes
<1>5. CASE Open(w)
  <2>1. pc'[w] = "write" /\ fd'[w] = "main" /\ UNCHANGED <<content, torn, asked, lineVars>>
    BY <1>5, <1>t DEF Open
  <2> QED
    BY <1>f, <1>k, <2>1 DEF Clearing
<1>6. CASE Write(w) \/ WriteShort(w)
  <2>a. Append(w)
    BY <1>6 DEF Write, WriteShort
  <2>1. /\ pc'[w] = "idle" /\ fd[w] = "main" /\ asked' = asked
        /\ written \in Nat /\ written' = written + 1
        /\ Held \subseteq 1..written
    BY <2>a, <1>t, <1>o, ConstantsAssumption DEF Append, RunsAlone, FilesOK, TypeOK
  <2>2. /\ content'["main"] = content["main"] \cup {written'}
        /\ content'["rotated"] = content["rotated"]
    BY <2>a, <1>t, <2>1, AppendFacts DEF Paths
  <2>3. Held' = Held \cup {written'}
    BY <2>2 DEF Held
  <2>4. MainIsNewest'
    <3>1. ASSUME NEW r \in (1..written') \ (content'["main"] \cup asked),
                 NEW n \in content'["main"]
          PROVE  r < n
      <4>1. r \in (1..written) \ (content["main"] \cup asked)
        BY <2>1, <2>2, <3>1
      <4>2. n \in content["main"] => r < n
        BY <1>o, <4>1 DEF MainIsNewest
      <4> QED
        BY <2>1, <2>2, <3>1, <4>1, <4>2
    <3>2. "main" \in torn' => written' \in cut'
      BY <1>6, <2>1 DEF Write, WriteShort
    <3> QED
      BY <2>1, <2>2, <3>1, <3>2 DEF MainIsNewest
  <2>5. RotationKeepsAFile'
    <3>1. 1..written' = (1..written) \cup {written'}
      BY <2>1
    <3>2. Held \cup asked \subseteq Held' \cup asked'
      BY <2>1, <2>3
    <3>3. (1..written') \ (Held' \cup asked') \subseteq 1..written
      BY <2>3, <3>1
    <3> QED
      BY <1>o, <3>2, <3>3, KeepsAFile
  <2>6. \A r \in Joined(w) : r \in cut \/ r - 1 \in cut
    <3>1. SUFFICES ASSUME "main" \in torn
                   PROVE  \A r \in LastOf("main") \cup {written + 1} :
                             r \in cut \/ r - 1 \in cut
      BY <2>1 DEF Joined
    <3>2. written \in content["main"] /\ written \in cut
      BY <1>o, <3>1 DEF MainIsNewest
    <3>3. content["main"] \subseteq 1..written
      BY <2>1 DEF Held
    <3>4. \A r \in LastOf("main") : r = written
      BY <2>1, <3>2, <3>3 DEF LastOf
    <3> QED
      BY <2>1, <3>2, <3>4
  <2>7. TornLinesTakeOne'
    <3>1. cut \subseteq cut'
      BY <1>6 DEF Write, WriteShort
    <3>2. \A r \in skipped' : r \in skipped \/ r \in Joined(w) \/ r \in cut'
      BY <1>6 DEF Write, WriteShort
    <3> QED
      BY <1>o, <2>6, <3>1, <3>2 DEF TornLinesTakeOne
  <2> QED
    BY <1>k, <2>1, <2>4, <2>5, <2>7
<1>7. CASE GiveUp(w)
  <2>1. pc'[w] = "idle" /\ UNCHANGED <<content, torn, asked, lineVars>>
    BY <1>7, <1>t DEF GiveUp
  <2> QED
    BY <1>f, <1>k, <2>1
<1>8. CASE StartClear(w)
  <2>1. /\ pc'[w] = "clearFirst" /\ asked' = asked \cup Held
        /\ UNCHANGED <<content, torn, lineVars>>
    BY <1>8, <1>t DEF StartClear, Begin
  <2> QED
    BY <1>f, <1>k, <2>1 DEF Clearing
<1>9. CASE ClearFirst(w)
  <2>1. /\ pc[w] = "clearFirst" /\ pc'[w] = "clearSecond"
        /\ UNCHANGED <<asked, lineVars>> /\ Unlink("main")
    BY <1>9, <1>t DEF ClearFirst, ClearOrder
  <2>2. Held \subseteq asked
    BY <1>o, <2>1 DEF RunsAlone, Clearing
  <2>3. /\ content'["main"] \subseteq content["main"] /\ Held' \subseteq Held
        /\ "main" \in torn' => "main" \in torn /\ content'["main"] = content["main"]
    BY <1>t, <2>1, UnlinkTypes DEF Paths, Held
  <2> QED
    BY <1>k, <1>r, <1>z, <2>1, <2>2, <2>3
<1>10. CASE ClearSecond(w)
  <2>1. /\ pc[w] = "clearSecond" /\ pc'[w] = "idle"
        /\ UNCHANGED <<asked, lineVars>> /\ Unlink("rotated")
    BY <1>10, <1>t DEF ClearSecond, ClearOrder
  <2>2. Held \subseteq asked
    BY <1>o, <2>1 DEF RunsAlone, Clearing
  <2>3. /\ content'["main"] \subseteq content["main"] /\ Held' \subseteq Held
        /\ "main" \in torn' => "main" \in torn /\ content'["main"] = content["main"]
    BY <1>t, <2>1, UnlinkTypes DEF Paths, Held
  <2> QED
    BY <1>k, <1>r, <1>z, <2>1, <2>2, <2>3
<1>11. CASE ClearFails(w)
  <2>1. pc'[w] = "idle" /\ UNCHANGED <<content, torn, asked, lineVars>>
    BY <1>11, <1>t DEF ClearFails
  <2> QED
    BY <1>f, <1>k, <2>1
<1> QED
  BY <1>1, <1>2, <1>3, <1>4, <1>5, <1>6, <1>7, <1>8, <1>9, <1>10, <1>11

LEMMA HistoryKeeps ==
    ASSUME IInv, KeepOK, [Next]_vars
    PROVE  KeepOK'
<1>1. IInv'
  BY HistoryStep
<1>2. CASE UNCHANGED vars
  BY <1>2 DEF vars, KeepOK, RunsAlone, MainIsNewest, RotationKeepsAFile,
            TornLinesTakeOne, Held, Idle
<1> QED
  BY <1>1, <1>2, KeepStep DEF Next

LEMMA KeepInit == Init => KeepOK
<1> SUFFICES ASSUME Init PROVE KeepOK
  OBVIOUS
<1>1. MainIsNewest /\ RotationKeepsAFile /\ TornLinesTakeOne
  BY DEF Init, MainIsNewest, RotationKeepsAFile, TornLinesTakeOne
<1> QED
  BY <1>1 DEF Init, KeepOK, Idle

----------------------------------------------------------------------------
\* No record is in two files, an append holds a descriptor exactly while it is
\* about to write, clears are final, and as long as no two operations ran at
\* one time rotations keep a full file and a write cut short takes at most the
\* next with it, for any number of goroutines, any size and any number of
\* records and of writes cut short.
THEOREM HistoryInvariance == Spec => []Inv
<1>1. Init => IInv /\ KeepOK
  BY HistoryInit, KeepInit
<1>2. IInv /\ KeepOK /\ [Next]_vars => (IInv /\ KeepOK)'
  BY HistoryStep, HistoryKeeps
<1>3. IInv /\ KeepOK => Inv
  BY DEF IInv, Inv
<1> QED
  BY <1>1, <1>2, <1>3, PTL DEF Spec

\* A clear that reported success has removed for good what it found, whatever
\* rotations, appends and other clears ran between its two removals.
THEOREM ClearedIsGone == Spec => []ClearIsFinal
<1>1. Inv => ClearIsFinal
  BY DEF Inv, ClearOK
<1> QED
  BY <1>1, HistoryInvariance, PTL

\* As long as no two operations ran at one time, a record nobody asked to clear
\* that is not found any more is older than what filled a file since, or was
\* cut short itself or right before it was written, also when the rotation
\* fails half-way or an append or a clear gives up.
THEOREM RotationsKeepNewest == Spec => []NewestAreKept
<1>1. Inv => NewestAreKept
  <2> SUFFICES ASSUME Inv, ~overlapped, NEW r \in (1..written) \ (Stored \cup asked)
               PROVE  \/ r \in cut \/ r - 1 \in cut
                      \/ Cardinality({n \in Held \cup asked : n > r}) >= MaxBytes
    BY DEF NewestAreKept
  <2>1. RotationKeepsAFile /\ TornLinesTakeOne
    BY DEF Inv, KeepOK
  <2>2. r \notin Held \/ r \in skipped
    BY DEF Stored
  <2> QED
    BY <2>1, <2>2 DEF RotationKeepsAFile, TornLinesTakeOne
<1> QED
  BY <1>1, HistoryInvariance, PTL
=============================================================================
