----------------------------- MODULE LogArchive -----------------------------
(***************************************************************************)
(* LogArchiveService (log-archive/log-archive.service.ts): batches of old  *)
(* info entries are copied from the collection logs to logs_archive and    *)
(* then deleted.  The two calls are not a transaction: a call may fail     *)
(* half done, and the process may restart between them.                    *)
(***************************************************************************)
EXTENDS Naturals, FiniteSets

CONSTANTS
    Logs,       \* identities of log entries
    Movable,    \* those of level info whose timestamp converts to a date
    Runs,       \* invocations: at startup and by the 12-hourly schedule
    BatchSize

ASSUME MovableAssumption == Movable \subseteq Logs
ASSUME BatchSizeAssumption == BatchSize \in Nat \ {0}

VARIABLES
    logs,       \* the collection logs
    copies,     \* the number of documents in logs_archive for each entry
    written,    \* ghost: every entry ever written
    old,        \* the entries older than seven days
    isRunning,
    pc,         \* where each invocation awaits
    cutoff,     \* the entries at or below the invocation's cutoffDate
    batch       \* the entries it has read

vars == <<logs, copies, written, old, isRunning, pc, cutoff, batch>>

TypeOK ==
    /\ logs \subseteq Logs
    /\ copies \in [Logs -> Nat]
    /\ written \subseteq Logs
    /\ old \subseteq Logs
    /\ isRunning \in BOOLEAN
    /\ pc \in [Runs -> {"idle", "find", "bulkWrite", "deleteMany"}]
    /\ cutoff \in [Runs -> SUBSET Logs]
    /\ batch \in [Runs -> SUBSET Logs]
    /\ \A r \in Runs : Cardinality(batch[r]) <= BatchSize

Init ==
    /\ logs = {}
    /\ copies = [l \in Logs |-> 0]
    /\ written = {}
    /\ old = {}
    /\ isRunning = FALSE
    /\ pc = [r \in Runs |-> "idle"]
    /\ cutoff = [r \in Runs |-> {}]
    /\ batch = [r \in Runs |-> {}]

-----------------------------------------------------------------------------
\* updateOne with upsert and $setOnInsert, for every entry of a set: the unique
\* index on originalLogId makes it a no-op for an entry that has its copy.
Upserted(entries) ==
    [l \in Logs |-> IF l \in entries /\ copies[l] = 0 THEN 1 ELSE copies[l]]

\* The finally block: whatever happened, the next invocation may run.
EndRun(r) ==
    /\ isRunning' = FALSE
    /\ pc' = [pc EXCEPT ![r] = "idle"]
    /\ cutoff' = [cutoff EXCEPT ![r] = {}]
    /\ batch' = [batch EXCEPT ![r] = {}]

Candidates(r) == logs \cap Movable \cap cutoff[r]

\* Mutant: find without its limit.
WithoutLimit(r) == {Candidates(r)}

\* What limit(batchSize) may return.
Batches(r) ==
    IF Cardinality(Candidates(r)) <= BatchSize THEN {Candidates(r)}
    ELSE {found \in SUBSET Candidates(r) : Cardinality(found) = BatchSize}

\* Mutants: plausible slips in the actions below.
BeginUnguarded(r) ==
    /\ pc[r] = "idle"
    /\ isRunning' = TRUE
    /\ pc' = [pc EXCEPT ![r] = "find"]
    /\ cutoff' = [cutoff EXCEPT ![r] = old]
    /\ UNCHANGED <<logs, copies, written, old, batch>>

InsertBatch(r) ==
    /\ pc[r] = "bulkWrite"
    /\ copies' = [l \in Logs |-> copies[l] + IF l \in batch[r] THEN 1 ELSE 0]
    /\ pc' = [pc EXCEPT ![r] = "deleteMany"]
    /\ UNCHANGED <<logs, written, old, isRunning, cutoff, batch>>

FailIgnored(r) ==
    /\ pc[r] = "bulkWrite"
    /\ \E done \in SUBSET batch[r] : copies' = Upserted(done)
    /\ pc' = [pc EXCEPT ![r] = "deleteMany"]
    /\ UNCHANGED <<logs, written, old, isRunning, cutoff, batch>>

FailLeavesRunning(r) ==
    /\ pc[r] \in {"find", "bulkWrite", "deleteMany"}
    /\ pc' = [pc EXCEPT ![r] = "idle"]
    /\ cutoff' = [cutoff EXCEPT ![r] = {}]
    /\ batch' = [batch EXCEPT ![r] = {}]
    /\ UNCHANGED <<logs, copies, written, old, isRunning>>

FindWithoutCutoff(r) ==
    /\ pc[r] = "find"
    /\ \E found \in SUBSET logs :
        /\ found # {} /\ Cardinality(found) <= BatchSize
        /\ batch' = [batch EXCEPT ![r] = found]
    /\ pc' = [pc EXCEPT ![r] = "bulkWrite"]
    /\ UNCHANGED <<logs, copies, written, old, isRunning, cutoff>>

-----------------------------------------------------------------------------
\* The application's logger adds an entry, and entries grow old.
Write(l) ==
    /\ l \notin written
    /\ written' = written \cup {l}
    /\ logs' = logs \cup {l}
    /\ UNCHANGED <<copies, old, isRunning, pc, cutoff, batch>>

Age(l) ==
    /\ l \in written \ old
    /\ old' = old \cup {l}
    /\ UNCHANGED <<logs, copies, written, isRunning, pc, cutoff, batch>>

(* An invocation that finds isRunning set returns at once; otherwise the   *)
(* cutoff date is fixed for the whole invocation.                          *)
Begin(r) ==
    /\ pc[r] = "idle"
    /\ ~isRunning
    /\ isRunning' = TRUE
    /\ pc' = [pc EXCEPT ![r] = "find"]
    /\ cutoff' = [cutoff EXCEPT ![r] = old]
    /\ UNCHANGED <<logs, copies, written, old, batch>>

(* find().limit(batchSize): an empty batch ends the loop. *)
Find(r) ==
    /\ pc[r] = "find"
    /\ \/ /\ Candidates(r) = {}
          /\ EndRun(r)
       \/ /\ Candidates(r) # {}
          /\ \E found \in Batches(r) : batch' = [batch EXCEPT ![r] = found]
          /\ pc' = [pc EXCEPT ![r] = "bulkWrite"]
          /\ UNCHANGED <<isRunning, cutoff>>
    /\ UNCHANGED <<logs, copies, written, old>>

BulkWrite(r) ==
    /\ pc[r] = "bulkWrite"
    /\ copies' = Upserted(batch[r])
    /\ pc' = [pc EXCEPT ![r] = "deleteMany"]
    /\ UNCHANGED <<logs, written, old, isRunning, cutoff, batch>>

DeleteMany(r) ==
    /\ pc[r] = "deleteMany"
    /\ logs' = logs \ batch[r]
    /\ pc' = [pc EXCEPT ![r] = "find"]
    /\ batch' = [batch EXCEPT ![r] = {}]
    /\ UNCHANGED <<copies, written, old, isRunning, cutoff>>

(* A call rejects: an unordered bulkWrite and a deleteMany may have done   *)
(* any part of their work.  The catch block logs, the finally block ends.  *)
Fail(r) ==
    /\ \/ pc[r] = "find" /\ UNCHANGED <<logs, copies>>
       \/ /\ pc[r] = "bulkWrite"
          /\ \E done \in SUBSET batch[r] : copies' = Upserted(done)
          /\ UNCHANGED logs
       \/ /\ pc[r] = "deleteMany"
          /\ \E done \in SUBSET batch[r] : logs' = logs \ done
          /\ UNCHANGED copies
    /\ EndRun(r)
    /\ UNCHANGED <<written, old>>

(* The process restarts: the flag and the invocations are in memory only.  *)
Restart ==
    /\ isRunning' = FALSE
    /\ pc' = [r \in Runs |-> "idle"]
    /\ cutoff' = [r \in Runs |-> {}]
    /\ batch' = [r \in Runs |-> {}]
    /\ UNCHANGED <<logs, copies, written, old>>

Next ==
    \/ \E l \in Logs : Write(l) \/ Age(l)
    \/ \E r \in Runs : Begin(r) \/ Find(r) \/ BulkWrite(r) \/ DeleteMany(r) \/ Fail(r)
    \/ Restart

Spec == Init /\ [][Next]_vars

(* The schedule triggers an invocation again and again, and a call that is *)
(* tried again and again succeeds at last.                                 *)
Fairness ==
    /\ WF_vars(\E r \in Runs : Begin(r))
    /\ SF_vars(\E r \in Runs : Find(r))
    /\ SF_vars(\E r \in Runs : BulkWrite(r))
    /\ SF_vars(\E r \in Runs : DeleteMany(r))

FairSpec == Spec /\ Fairness

-----------------------------------------------------------------------------
(* No entry is ever lost: at every moment it is in the logs or has a copy  *)
(* in the archive, through failures half way and restarts between the copy *)
(* and the deletion (log-archive.service.ts:103-108).                      *)
NoLogLost == \A l \in written : l \in logs \/ copies[l] > 0

(* An entry is archived at most once, although a batch interrupted before  *)
(* its deletion is read and written again (log-archive.service.ts:94-100). *)
ArchivedOnce == \A l \in Logs : copies[l] <= 1

(* The startup and the scheduled invocation never run at the same time.    *)
OneRunAtATime ==
    \A r1, r2 \in Runs : pc[r1] # "idle" /\ pc[r2] # "idle" => r1 = r2

\* What an invocation knows of its batch at each await.
BatchKnown == \A r \in Runs :
    /\ batch[r] \subseteq Movable \cap old \cap written
    /\ cutoff[r] \subseteq old
    /\ pc[r] = "deleteMany" => \A l \in batch[r] : copies[l] > 0

CopiesWritten ==
    /\ logs \subseteq written
    /\ \A l \in Logs : copies[l] > 0 => l \in written

RunningWhileActive == \A r \in Runs : pc[r] # "idle" => isRunning

IInv ==
    /\ TypeOK
    /\ NoLogLost
    /\ ArchivedOnce
    /\ OneRunAtATime
    /\ BatchKnown
    /\ CopiesWritten
    /\ RunningWhileActive

\* An entry has moved when its original is gone.
PlaceOf(l) ==
    IF l \notin written THEN "unwritten"
    ELSE IF l \in logs THEN "logs" ELSE "archive"

Move == INSTANCE LogMove WITH place <- [l \in Logs |-> PlaceOf(l)]

(* The archive implements the atomic move of LogMove: only old info        *)
(* entries ever leave the logs, and none comes back.                       *)
ImplementsMove == Move!MoveSpec

(* An info entry that has grown old leaves the logs in the end: a failed   *)
(* invocation neither blocks the next one nor hides its batch from it.     *)
OldLogsArchived == \A l \in Movable :
    l \in logs \cap old ~> l \notin logs /\ copies[l] > 0
=============================================================================
