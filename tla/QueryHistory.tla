---------------------------- MODULE QueryHistory ----------------------------
(***************************************************************************)
(* The slow query history of one connection: a JSONL file that is renamed  *)
(* to <file>.1 when it is full, appended to by one goroutine per slow      *)
(* query and cleared by the user (internal/app/query_history_store.go).    *)
(*                                                                         *)
(* Every append and every clear makes a queryHistoryStore of its own, so   *)
(* the mutex in it is held against nobody and is not modelled.  A step is  *)
(* one system call; a record is the number of its write, which may be cut  *)
(* short and then leaves a line without its newline.                       *)
(***************************************************************************)
EXTENDS Naturals, FiniteSets

CONSTANTS
    Workers,      \* goroutines of recordQueryExecutionAsync
    Clearers,     \* those of the workers that serve ClearSlowQueries as well
    MaxBytes,     \* queryHistoryFileMaxBytes, counted in writes
    MaxRecords,   \* bound on how many records are written
    MaxCuts       \* bound on how many of the writes are cut short

ASSUME ConstantsAssumption ==
    /\ Clearers \subseteq Workers
    /\ MaxBytes \in Nat \ {0}
    /\ MaxRecords \in Nat
    /\ MaxCuts \in Nat

Paths == {"main", "rotated"}
Records == 1..MaxRecords

Appending == {"stat", "remove", "rename", "open", "write"}
Clearing == {"clearFirst", "clearSecond"}

\* Mutant: the rotated file first.
ClearOrderSwapped == <<"rotated", "main">>

\* Main file first: what a rotation moves away meanwhile is still met later.
ClearOrder == <<"main", "rotated">>

VARIABLES
    exists,      \* SUBSET Paths: s.filePath is "main", its ".1" is "rotated"
    content,     \* [Paths -> SUBSET Records], empty where there is no file: what
                 \* was written to it, whole or in part, and fills it
    torn,        \* SUBSET Paths: the last line of the file has no newline
    skipped,     \* SUBSET Records: their lines are no record of their own
    written,     \* how many writes reached a file
    pc,          \* [Workers -> {"idle"} \cup Appending \cup Clearing]
    fd,          \* [Workers -> ...]: the path of the file an append has open;
                 \* "unlinked" once it has none, "none" when nothing is open
    seen,        \* history, [Workers -> SUBSET Records]: there when a clear began
    asked,       \* history: records that were there when any clear began
    cleared,     \* history: those of the clears that reported success
    cut,         \* history: records whose write was cut short
    overlapped   \* history: two operations ran at one time

vars ==
    <<exists, content, torn, skipped, written, pc, fd, seen, asked, cleared, cut,
      overlapped>>

\* What only a write changes.
lineVars == <<skipped, written, cut>>

TypeOK ==
    /\ exists \in SUBSET Paths
    /\ content \in [Paths -> SUBSET Records]
    /\ torn \in SUBSET Paths
    /\ skipped \in SUBSET Records
    /\ cut \in SUBSET Records
    /\ written \in 0..MaxRecords
    /\ pc \in [Workers -> {"idle"} \cup Appending \cup Clearing]
    /\ fd \in [Workers -> Paths \cup {"unlinked", "none"}]
    /\ seen \in [Workers -> SUBSET Records]
    /\ asked \in SUBSET Records
    /\ cleared \in SUBSET Records
    /\ overlapped \in BOOLEAN

Init ==
    /\ exists = {}
    /\ content = [p \in Paths |-> {}]
    /\ torn = {}
    /\ skipped = {}
    /\ cut = {}
    /\ written = 0
    /\ pc = [w \in Workers |-> "idle"]
    /\ fd = [w \in Workers |-> "none"]
    /\ seen = [w \in Workers |-> {}]
    /\ asked = {}
    /\ cleared = {}
    /\ overlapped = FALSE

----------------------------------------------------------------------------
\* What was written to the files that are there.
Held == content["rotated"] \cup content["main"]

\* What loadAll finds: it passes over lines it cannot parse.
Stored == Held \ skipped

\* What was written to the file of p last.
LastOf(p) == {r \in content[p] : \A n \in content[p] : n <= r}

Goto(w, place) == pc' = [pc EXCEPT ![w] = place]
Idle(w) == pc[w] = "idle"

Begin(w, place) ==
    /\ Idle(w)
    /\ Goto(w, place)
    /\ overlapped' = (overlapped \/ \E v \in Workers \ {w} : ~Idle(v))

\* os.Remove: descriptors keep the file, without a path.
Unlink(p) ==
    /\ exists' = exists \ {p}
    /\ content' = [content EXCEPT ![p] = {}]
    /\ torn' = torn \ {p}
    /\ fd' = [w \in Workers |-> IF fd[w] = p THEN "unlinked" ELSE fd[w]]

\* recordQueryExecutionAsync, for a query over the threshold.
StartAppend(w) ==
    /\ written < MaxRecords
    /\ Begin(w, "stat")
    /\ UNCHANGED <<exists, content, torn, fd, seen, asked, cleared, lineVars>>

\* Mutant: the size of both files is compared with the limit.
StatOfBoth(w) ==
    /\ pc[w] = "stat"
    /\ Goto(w, IF Cardinality(Held) >= MaxBytes THEN "remove" ELSE "open")
    /\ UNCHANGED <<exists, content, torn, fd, seen, asked, cleared, overlapped, lineVars>>

Stat(w) ==
    /\ pc[w] = "stat"
    /\ Goto(w, IF Cardinality(content["main"]) >= MaxBytes THEN "remove" ELSE "open")
    /\ UNCHANGED <<exists, content, torn, fd, seen, asked, cleared, overlapped, lineVars>>

\* Its error is ignored.
RemoveRotated(w) ==
    /\ pc[w] = "remove"
    /\ Goto(w, "rename")
    /\ \/ Unlink("rotated")
       \/ UNCHANGED <<exists, content, torn, fd>>
    /\ UNCHANGED <<seen, asked, cleared, overlapped, lineVars>>

\* os.Rename replaces its target.  A failure does not stop the append.
Rename(w) ==
    /\ pc[w] = "rename"
    /\ Goto(w, "open")
    /\ \/ /\ "main" \in exists
          /\ exists' = {"rotated"}
          /\ content' = [main |-> {}, rotated |-> content["main"]]
          /\ torn' = IF "main" \in torn THEN {"rotated"} ELSE {}
          /\ fd' = [v \in Workers |-> IF fd[v] = "main" THEN "rotated"
                                      ELSE IF fd[v] = "rotated" THEN "unlinked"
                                      ELSE fd[v]]
       \/ UNCHANGED <<exists, content, torn, fd>>
    /\ UNCHANGED <<seen, asked, cleared, overlapped, lineVars>>

\* Mutant: without O_CREATE.
OpenExisting(w) ==
    /\ pc[w] = "open"
    /\ Goto(w, "write")
    /\ fd' = [fd EXCEPT ![w] = "main"]
    /\ UNCHANGED <<exists, content, torn, seen, asked, cleared, overlapped, lineVars>>

\* O_APPEND and O_CREATE.
Open(w) ==
    /\ pc[w] = "open"
    /\ Goto(w, "write")
    /\ exists' = exists \cup {"main"}
    /\ fd' = [fd EXCEPT ![w] = "main"]
    /\ UNCHANGED <<content, torn, seen, asked, cleared, overlapped, lineVars>>

\* Appended to the file that is open, and closed.  After a line without its
\* newline the two are one line, which is no record.
Append(w) ==
    /\ pc[w] = "write"
    /\ written < MaxRecords
    /\ written' = written + 1
    /\ content' = [p \in Paths |-> IF fd[w] = p THEN content[p] \cup {written + 1}
                                               ELSE content[p]]
    /\ fd' = [fd EXCEPT ![w] = "none"]
    /\ Goto(w, "idle")
    /\ UNCHANGED <<exists, seen, asked, cleared, overlapped>>

Joined(w) == IF fd[w] \in torn THEN LastOf(fd[w]) \cup {written + 1} ELSE {}

Write(w) ==
    /\ Append(w)
    /\ skipped' = skipped \cup Joined(w)
    /\ torn' = torn \ {fd[w]}
    /\ cut' = cut

\* The disk fills up.  A line that lacks nothing but its newline can be parsed.
WriteShort(w) ==
    /\ Cardinality(cut) < MaxCuts
    /\ Append(w)
    /\ \E part \in {{}, {written + 1}} : skipped' = skipped \cup Joined(w) \cup part
    /\ torn' = torn \cup ({fd[w]} \cap Paths)
    /\ cut' = cut \cup {written + 1}

\* MkdirAll or OpenFile fails, the write fails at its first byte, or the
\* application ends: the goroutine is gone and its descriptor with it.
GiveUp(w) ==
    /\ pc[w] \in Appending
    /\ fd' = [fd EXCEPT ![w] = "none"]
    /\ Goto(w, "idle")
    /\ UNCHANGED <<exists, content, torn, seen, asked, cleared, overlapped, lineVars>>

----------------------------------------------------------------------------
\* ClearSlowQueries.
StartClear(w) ==
    /\ w \in Clearers
    /\ Begin(w, "clearFirst")
    /\ seen' = [seen EXCEPT ![w] = Held]
    /\ asked' = asked \cup Held
    /\ UNCHANGED <<exists, content, torn, fd, cleared, lineVars>>

ClearFirst(w) ==
    /\ pc[w] = "clearFirst"
    /\ Goto(w, "clearSecond")
    /\ Unlink(ClearOrder[1])
    /\ UNCHANGED <<seen, asked, cleared, overlapped, lineVars>>

\* The last file is gone and success is reported.
ClearSecond(w) ==
    /\ pc[w] = "clearSecond"
    /\ Goto(w, "idle")
    /\ Unlink(ClearOrder[2])
    /\ cleared' = cleared \cup seen[w]
    /\ seen' = [seen EXCEPT ![w] = {}]
    /\ UNCHANGED <<asked, overlapped, lineVars>>

\* A file that cannot be removed ends the clear with an error.
ClearFails(w) ==
    /\ pc[w] \in Clearing
    /\ Goto(w, "idle")
    /\ seen' = [seen EXCEPT ![w] = {}]
    /\ UNCHANGED <<exists, content, torn, fd, asked, cleared, overlapped, lineVars>>

----------------------------------------------------------------------------
Next ==
    \E w \in Workers :
        \/ StartAppend(w) \/ Stat(w) \/ RemoveRotated(w) \/ Rename(w)
        \/ Open(w) \/ Write(w) \/ WriteShort(w) \/ GiveUp(w)
        \/ StartClear(w) \/ ClearFirst(w) \/ ClearSecond(w) \/ ClearFails(w)

Spec == Init /\ [][Next]_vars

----------------------------------------------------------------------------
(* Properties. *)

\* A record is in one file only, was written, and its file is there; an append
\* has a file open exactly when it is about to write, and what is open under a
\* path is the file of that path; a line without its newline is in a file.
FilesOK ==
    /\ content["main"] \cap content["rotated"] = {}
    /\ \A p \in Paths : content[p] # {} => p \in exists
    /\ \A w \in Workers : fd[w] # "none" <=> pc[w] = "write"
    /\ \A w \in Workers : fd[w] \in Paths => fd[w] \in exists
    /\ \A p \in torn : content[p] # {}
    /\ Held \subseteq 1..written

\* What was there when a clear began is gone for good once the clear has
\* succeeded, whatever rotations ran meanwhile.
ClearIsFinal == Held \cap cleared = {}

\* What a clear has seen and removed was written before, and a clear that has
\* removed the main file never finds there what it has seen.
ClearOK ==
    /\ \A w \in Workers : seen[w] \subseteq 1..written
    /\ cleared \subseteq 1..written
    /\ \A w \in Workers :
          pc[w] = "clearSecond" => seen[w] \cap content["main"] = {}
    /\ ClearIsFinal

\* A record no clear was asked to remove leaves the files only behind newer
\* writes that filled a file.
RotationKeepsAFile ==
    \A r \in (1..written) \ (Held \cup asked) :
        Cardinality({n \in Held \cup asked : n > r}) >= MaxBytes

\* A write cut short takes at most the next one with it: its line has no
\* newline, and loadAll skips what the two became.
TornLinesTakeOne == \A r \in skipped : r \in cut \/ r - 1 \in cut

\* As long as no two operations ran at one time, a record that was written, that
\* no clear was asked to remove and that is not found any more was written, or
\* was written next to what was written, only in part, or is older than what
\* filled a file since.
NewestAreKept ==
    ~overlapped =>
        \A r \in (1..written) \ (Stored \cup asked) :
            \/ r \in cut \/ r - 1 \in cut
            \/ Cardinality({n \in Held \cup asked : n > r}) >= MaxBytes

\* The main file holds the newest of what no clear was asked to remove, and the
\* line without its newline, if it ends in one, is the newest of all.
MainIsNewest ==
    /\ \A r \in (1..written) \ (content["main"] \cup asked) :
          \A n \in content["main"] : r < n
    /\ "main" \in torn => written \in content["main"] \cap cut

\* An operation that runs alone: the file it writes to is the main one, a clear
\* was asked for all there is, and what is rotated is full.
RunsAlone(w) ==
    /\ \A v \in Workers \ {w} : Idle(v)
    /\ pc[w] = "write" => fd[w] = "main"
    /\ pc[w] \in Clearing => Held \subseteq asked
    /\ pc[w] \in {"remove", "rename"} => Cardinality(content["main"]) >= MaxBytes

KeepOK ==
    ~overlapped =>
        /\ \A w \in Workers : Idle(w) \/ RunsAlone(w)
        /\ MainIsNewest
        /\ RotationKeepsAFile
        /\ TornLinesTakeOne

\* The invariant of the history: no record is in two files, a clear that has
\* reported success is final, and operations that run one by one keep at least
\* one full file of the newest writes and lose to a line cut short at most the
\* next.
Inv == TypeOK /\ FilesOK /\ ClearOK /\ KeepOK

=============================================================================
