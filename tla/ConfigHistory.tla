--------------------------- MODULE ConfigHistory ---------------------------
(***************************************************************************)
(* The stored configurations of one device.  Two kinds of task add rows:   *)
(* a backup run (execute_backup, ConfigurationPersistenceService.persist), *)
(* which normalizes the text and skips it when the newest row has the same *)
(* hash, and a synchronization (SyncService._record_config), which always  *)
(* stores the text as read and commits its row only with the rest of the   *)
(* synchronization.  Rows are never updated, and both kinds link a new row *)
(* to the newest one they saw, without a lock.                             *)
(*                                                                         *)
(* A row is identified by its collected_at, one tick of a common clock.    *)
(***************************************************************************)
EXTENDS Naturals

CONSTANTS
    Configs,        \* what the device can be configured to
    Volatile,       \* those whose text has lines that normalize removes
    NoText,         \* the empty text of a failed collection
    Backups, Syncs, \* Celery worker processes by the task they run
    MaxRows,        \* bound: rows inserted, rolled back ones included
    MaxFaults       \* bound: statements that raise, workers that are killed

ASSUME ConfigsAssumption == Volatile \subseteq Configs /\ NoText \notin Configs
ASSUME CollectorsAssumption == Backups \cap Syncs = {}
ASSUME BoundsAssumption == MaxRows \in Nat /\ MaxFaults \in Nat

VARIABLES
    running,    \* the device's running configuration
    rows,       \* committed DeviceConfiguration rows
    clock,      \* collected_at of the row inserted last
    task,       \* task[c]: the collection process c is in
    faults,
    alone,      \* history: the process whose collection no other one overlaps
    settled     \* history: what the last collection read, if it was alone

vars == <<running, rows, clock, task, faults, alone, settled>>

Collectors == Backups \cup Syncs
\* config_hash: that of the normalized text, or of a text with volatile lines.
Hash(c, text) == [text |-> text, raw |-> c \in Syncs /\ text \in Volatile]
NoHash == [text |-> NoText, raw |-> FALSE]
\* previous is the collected_at of a row, 0 for null; alone is history: no
\* other collection overlapped the one that made the row.
RowType == [at : 1..MaxRows, hash : [text : Configs \cup {NoText}, raw : BOOLEAN],
            ok : BOOLEAN, previous : 0..MaxRows, alone : BOOLEAN]
TaskType == [at : {"idle", "read", "create", "failed", "commit"},
             read : Configs \cup {NoText}, latest : 0..MaxRows,
             row : 0..MaxRows]
Task(at, read, latest, row) == [at |-> at, read |-> read, latest |-> latest, row |-> row]
Idle == Task("idle", NoText, 0, 0)

TypeOK ==
    /\ running \in Configs
    /\ rows \subseteq RowType
    /\ \A r \in rows : r.ok <=> r.hash # NoHash
    /\ clock \in 0..MaxRows
    /\ task \in [Collectors -> TaskType]
    /\ faults \in 0..MaxFaults
    /\ alone \subseteq Collectors
    /\ settled \in Configs \cup {NoText}

Init ==
    /\ running \in Configs
    /\ rows = {} /\ clock = 0
    /\ task = [c \in Collectors |-> Idle]
    /\ faults = 0
    /\ alone = {}
    /\ settled = NoText

\* collected_at of .order_by("-collected_at").first(), 0 if there is none.
Newest(S) == IF S = {} THEN 0
             ELSE CHOOSE t \in {r.at : r \in S} : \A r \in S : r.at <= t
Successes == {r \in rows : r.ok}
Raises == faults < MaxFaults /\ faults' = faults + 1

-----------------------------------------------------------------------------
Reconfigure ==
    /\ running' \in Configs \ {running}
    /\ UNCHANGED <<rows, clock, task, faults, alone, settled>>

\* The SSH session reads the running configuration, or fails.
Collect(c) ==
    /\ task[c].at = "idle"
    /\ \/ task' = [task EXCEPT ![c] = Task("read", running, 0, 0)]
       \/ task' = [task EXCEPT ![c] = Task("failed", NoText, 0, 0)]
    /\ alone' = IF \A d \in Collectors : task[d].at = "idle" THEN {c} ELSE {}
    /\ UNCHANGED <<running, rows, clock, faults, settled>>

\* The process goes on with what it has read.
Continues(c, at, latest, row) ==
    task' = [task EXCEPT ![c] = Task(at, task[c].read, latest, row)]

\* History: once a collection has stored what it read, the newest success is
\* known to be that text, if nobody else was collecting.
Ends(c) ==
    /\ task' = [task EXCEPT ![c] = Idle]
    /\ alone' = {}
    /\ settled' = IF task[c].read = NoText THEN settled
                  ELSE IF c \in alone THEN task[c].read ELSE NoText

Row(c, at, hash, previous) ==
    [at |-> at, hash |-> hash, ok |-> hash # NoHash, previous |-> previous,
     alone |-> c \in alone]
Tick == clock < MaxRows /\ clock' = clock + 1

-----------------------------------------------------------------------------
(* execute_backup and persist: each statement commits by itself             *)

\* Regression: any row of the same hash counts as unchanged.
CompareAny(c) ==
    LET hash == Hash(c, task[c].read) IN
    /\ c \in Backups /\ task[c].at = "read"
    /\ IF \E r \in rows : r.hash = hash
       THEN Ends(c)
       ELSE Continues(c, "create", Newest(rows), 0) /\ UNCHANGED <<alone, settled>>
    /\ UNCHANGED <<running, rows, clock, faults>>

\* Regression: only successful rows are looked at.
CompareSuccess(c) ==
    LET hash == Hash(c, task[c].read)
        latest == Newest(Successes) IN
    /\ c \in Backups /\ task[c].at = "read"
    /\ IF \E r \in rows : r.at = latest /\ r.hash = hash
       THEN Ends(c)
       ELSE Continues(c, "create", latest, 0) /\ UNCHANGED <<alone, settled>>
    /\ UNCHANGED <<running, rows, clock, faults>>

\* The newest row, of whatever source and success, decides.
Compare(c) ==
    LET hash == Hash(c, task[c].read)
        latest == Newest(rows) IN
    /\ c \in Backups /\ task[c].at = "read"
    /\ IF \E r \in rows : r.at = latest /\ r.hash = hash
       THEN Ends(c)
       ELSE Continues(c, "create", latest, 0) /\ UNCHANGED <<alone, settled>>
    /\ UNCHANGED <<running, rows, clock, faults>>

Create(c) ==
    /\ c \in Backups /\ task[c].at = "create" /\ Tick
    /\ rows' = rows \cup {Row(c, clock', Hash(c, task[c].read), task[c].latest)}
    /\ Ends(c)
    /\ UNCHANGED <<running, faults>>

\* What persist raises ends in the same handler as a failed SSH session.
PersistRaises(c) ==
    /\ c \in Backups /\ task[c].at \in {"read", "create"} /\ Raises
    /\ task' = [task EXCEPT ![c] = Task("failed", NoText, 0, 0)]
    /\ UNCHANGED <<running, rows, clock, alone, settled>>

\* Regression: the failure is stored like any other configuration.
CreateFailureAsSuccess(c) ==
    /\ c \in Backups /\ task[c].at = "failed" /\ Tick
    /\ rows' = rows \cup {[Row(c, clock', NoHash, 0) EXCEPT !.ok = TRUE]}
    /\ Ends(c)
    /\ UNCHANGED <<running, faults>>

\* A failure is a row too, without hash and without previous.
CreateFailure(c) ==
    /\ c \in Backups /\ task[c].at = "failed" /\ Tick
    /\ rows' = rows \cup {Row(c, clock', NoHash, 0)}
    /\ Ends(c)
    /\ UNCHANGED <<running, faults>>

-----------------------------------------------------------------------------
(* sync_device: one transaction from before the SSH session to the end      *)

\* _record_config reads the newest row, and inserts; read and insert are two
\* statements, with the clock in between.
FindPrevious(c) ==
    /\ c \in Syncs /\ task[c].at \in {"read", "failed"}
    /\ Continues(c, "create", Newest(rows), 0)
    /\ UNCHANGED <<running, rows, clock, faults, alone, settled>>

Insert(c) ==
    /\ c \in Syncs /\ task[c].at = "create" /\ Tick
    /\ Continues(c, "commit", task[c].latest, clock')
    /\ UNCHANGED <<running, rows, faults, alone, settled>>

SyncHash(c) == IF task[c].read = NoText THEN NoHash ELSE Hash(c, task[c].read)

\* Regression: previous is looked up when the transaction ends.
CommitLinksLast(c) ==
    /\ c \in Syncs /\ task[c].at = "commit"
    /\ rows' = rows \cup {Row(c, task[c].row, SyncHash(c), Newest(rows))}
    /\ Ends(c)
    /\ UNCHANGED <<running, clock, faults>>

\* The row inserted earlier becomes visible.
Commit(c) ==
    /\ c \in Syncs /\ task[c].at = "commit"
    /\ rows' = rows \cup {Row(c, task[c].row, SyncHash(c), task[c].latest)}
    /\ Ends(c)
    /\ UNCHANGED <<running, clock, faults>>

\* Anything a synchronization applies may raise, and its rows are undone; a
\* backup worker may be killed, or the failure row itself may not be stored.
Stops(c) ==
    /\ task[c].at # "idle" /\ Raises
    /\ task' = [task EXCEPT ![c] = Idle]
    /\ alone' = {}
    /\ UNCHANGED <<running, rows, clock, settled>>

Next ==
    \/ Reconfigure
    \/ \E c \in Collectors :
         \/ Collect(c) \/ Compare(c) \/ Create(c) \/ PersistRaises(c) \/ CreateFailure(c)
         \/ FindPrevious(c) \/ Insert(c) \/ Commit(c) \/ Stops(c)

Spec == Init /\ [][Next]_vars

-----------------------------------------------------------------------------
(* The lineage has no cycle and no dangling link: previous is a row that    *)
(* was collected earlier, although rows of a synchronization appear after   *)
(* rows that were collected later.                                          *)
PreviousIsOlder ==
    \A r \in rows : r.previous # 0 =>
        r.previous < r.at /\ \E p \in rows : p.at = r.previous

(* Two rows have the same previous only if both were collected while some   *)
(* other collection of the device was under way: alone, a task always       *)
(* extends the lineage at its end.                                          *)
ForksMeanOverlap ==
    \A r, q \in rows : r # q /\ r.previous = q.previous /\ r.previous # 0
        => ~r.alone /\ ~q.alone

(* After a collection nobody disturbed, the newest success is the text it   *)
(* read, whether it was stored or found unchanged.  The diff page and a     *)
(* device replacement take that row for the device's configuration.         *)
NewestIsLastRead ==
    settled # NoText =>
        \E r \in rows : r.at = Newest(Successes) /\ r.hash.text = settled

(* "Persist a configuration only if it has changed" (configuration_         *)
(* persistence_service.py): two successes in a row, stored by backups that  *)
(* nobody disturbed, differ.                                                *)
OnlyChangesStored ==
    \A r, q \in Successes :
        r.alone /\ q.alone /\ q.at < r.at /\ ~(\E m \in Successes : q.at < m.at /\ m.at < r.at)
        => r.hash # q.hash
=============================================================================
