--------------------------- MODULE ScheduleMirror ---------------------------
(***************************************************************************)
(* The settings row, the schedules, and the periodic tasks that celery     *)
(* beat runs.  The settings page, the page of a task and the bootstrap     *)
(* command write a schedule and then its periodic task; the API and the    *)
(* admin write schedules, settings or periodic tasks and stop there.       *)
(*                                                                         *)
(* PostgreSQL at READ COMMITTED without a transaction around a request:    *)
(* every statement commits by itself, and a request may be overtaken       *)
(* between any two.  Saving a model writes the whole row as it was loaded, *)
(* and inserts the row again if it has been deleted meanwhile.             *)
(*                                                                         *)
(* Crontab expressions are one value, and intervals are in minutes.        *)
(***************************************************************************)
EXTENDS Naturals

CONSTANTS
    Tasks, Reach, Backup, Cleanup,  \* task paths; those that code schedules
    Title,          \* name of each task's definition, a number: its rank in the order
    Rows,           \* primary keys of schedules and of periodic tasks
    Intervals,      \* reachability_interval_minutes; 0 stands for a crontab elsewhere
    None,
    Procs,          \* web processes, and a shell for the bootstrap command
    MaxWrites,      \* bound: requests and commands
    MaxDirect       \* bound: writes by the API, the admin and beat's admin

Assumptions ==
    /\ {Reach, Backup, Cleanup} \subseteq Tasks
    /\ Reach # Backup /\ Cleanup \notin {Reach, Backup}
    /\ Title \in [Tasks -> Nat]
    /\ \A t, u \in Tasks : Title[t] = Title[u] => t = u
    /\ Intervals \subseteq Nat /\ Rows \subseteq Nat /\ None \notin Rows
    /\ MaxWrites \in Nat /\ MaxDirect \in Nat

VARIABLES
    schedules,  \* committed AutomationSchedule rows
    periodic,   \* committed PeriodicTask rows
    setting,    \* the SystemSettings row: the interval, and the other sections as one
    proc,       \* proc[p]: the request or command that p is in
    writes, directs,
    alone,      \* history: the process that no other one overlaps
    exact,      \* history: schedules last written by a page or command, alone
    sent        \* history: what was last saved in each section

vars == <<schedules, periodic, setting, proc, writes, directs, alone, exact, sent>>

Titles == {Title[t] : t \in Tasks}
Timings == [cron : BOOLEAN, every : Intervals]
Schedules == [name : Titles, task : Tasks, timing : Timings, enabled : BOOLEAN,
              link : Rows \cup {None}]
\* A periodic task keeps the interval only if it is not on a crontab.
Periodics == [name : Titles, task : Tasks, every : Intervals \cup {0}, enabled : BOOLEAN]
Settings == [interval : Intervals, other : {0, 1}]
Put(f, k, v) == [x \in {k} \cup DOMAIN f |-> IF x = k THEN v ELSE f[x]]
Without(f, K) == [k \in DOMAIN f \ K |-> f[k]]
\* The key of a new row.
Free(f) == {k \in Rows \ DOMAIN f : \A r \in Rows \ DOMAIN f : k <= r}

(* task: the one whose schedule the command writes; new: the row as it is   *)
(* going to be saved under key, or inserted.                                *)
Idle == [at |-> "idle", kind |-> "page", task |-> None, key |-> None, new |-> None,
         set |-> None]
Go(p, e) == proc' = [proc EXCEPT ![p] = e]
End(p) == proc' = [proc EXCEPT ![p] = Idle]
\* The exception ends the request; what was committed stays.
Raise(p) == End(p) /\ UNCHANGED <<schedules, periodic, setting, writes, directs, alone, exact, sent>>

TypeOK ==
    /\ DOMAIN schedules \cup DOMAIN periodic \subseteq Rows
    /\ \A r \in DOMAIN schedules : schedules[r] \in Schedules
    /\ \A r \in DOMAIN schedules :
         schedules[r].link # None => schedules[r].link \in DOMAIN periodic
    /\ \A r \in DOMAIN periodic : periodic[r] \in Periodics
    /\ setting \in Settings /\ sent \in Settings
    /\ \A p \in Procs :
         /\ proc[p].at \in {"idle", "section", "get", "save", "sync", "link"}
         /\ proc[p].kind \in {"page", "settings", "bootstrap", "direct"}
         /\ proc[p].at \in {"save", "sync", "link"} =>
              proc[p].key \in Rows \cup {None} /\ proc[p].new \in Schedules
    /\ writes \in 0..MaxWrites /\ directs \in 0..MaxDirect
    /\ alone \subseteq Procs /\ exact \subseteq DOMAIN schedules

Init ==
    /\ schedules = <<>> /\ periodic = <<>>
    /\ \E i \in Intervals \ {0} : setting = [interval |-> i, other |-> 0]
    /\ proc = [p \in Procs |-> Idle]
    /\ writes = 0 /\ directs = 0
    /\ alone = {} /\ exact = {} /\ sent = setting

Starts(p, e) ==
    /\ writes < MaxWrites /\ writes' = writes + 1
    /\ Go(p, e)
    /\ alone' = IF \A q \in Procs : proc[q].at = "idle" THEN {p} ELSE {}
    /\ UNCHANGED <<schedules, periodic, setting, directs, exact, sent>>

-----------------------------------------------------------------------------
(* The settings: each form loads the row and saves the fields it shows      *)

SaveWholeRow(p, section) == proc[p].set     \* regression: save() without update_fields
SaveSection(p, section) == [setting EXCEPT ![section] = proc[p].set[section]]

OpenSettings(p) ==
    \/ \E i \in Intervals :
         Starts(p, [Idle EXCEPT !.at = "section", !.kind = "settings", !.key = "interval",
                                !.set = [setting EXCEPT !.interval = i]])
    \* Another form, or a reachability run, which loads them when it starts.
    \/ Starts(p, [Idle EXCEPT !.at = "section", !.kind = "settings", !.key = "other",
                              !.set = [setting EXCEPT !.other = 1]])

Section(p) ==
    /\ proc[p].at = "section"
    /\ setting' = SaveSection(p, proc[p].key)
    /\ sent' = [sent EXCEPT ![proc[p].key] = proc[p].set[proc[p].key]]
    /\ IF proc[p].key = "interval" THEN Go(p, [proc[p] EXCEPT !.at = "get", !.task = Reach])
                                   ELSE End(p)
    /\ UNCHANGED <<schedules, periodic, writes, directs, alone, exact>>

Bootstrap(p) == Starts(p, [Idle EXCEPT !.at = "get", !.kind = "bootstrap", !.set = setting,
                                       !.task = Reach])

-----------------------------------------------------------------------------
(* Saving schedules and periodic tasks, with what PostgreSQL refuses        *)

AnyRow(r, row) == TRUE                  \* regression: no unique_together
Unique(r, row) == \A s \in DOMAIN schedules \ {r} :
                     ~(schedules[s].name = row.name /\ schedules[s].task = row.task)
OneToOne(r, row) == row.link # None =>
                       /\ row.link \in DOMAIN periodic
                       /\ \A s \in DOMAIN schedules \ {r} : schedules[s].link # row.link
CanSave(r, row) == Unique(r, row) /\ OneToOne(r, row)
FreeName(q, name) == \A s \in DOMAIN periodic \ {q} : periodic[s].name # name

OfTask(t) == {r \in DOMAIN schedules : schedules[r].task = t}
Titled(R, t) == {r \in R : schedules[r].name = Title[t]}
First(R) == {r \in R : \A s \in R : schedules[r].name <= schedules[s].name}
\* The schedule that the page of a task edits, and the one the list shows, if any.
Edited(t) == IF Titled(OfTask(t), t) # {} THEN Titled(OfTask(t), t) ELSE First(OfTask(t))
Listed(t) == {r \in OfTask(t) : \A s \in OfTask(t) : schedules[r].name >= schedules[s].name}

\* What the form of a schedule accepts: an interval must be positive.
FormTimings == {f \in Timings : f.every > 0}
Fresh(t, timing, enabled) == [name |-> Title[t], task |-> t, timing |-> timing,
                              enabled |-> enabled, link |-> None]

OpenPage(p) ==
    \E t \in Tasks, timing \in FormTimings, enabled \in BOOLEAN :
      \/ /\ OfTask(t) = {}
         /\ Starts(p, [Idle EXCEPT !.at = "save", !.new = Fresh(t, timing, enabled)])
      \/ \E r \in Edited(t) :
           Starts(p, [Idle EXCEPT !.at = "save", !.key = r,
                        !.new = [schedules[r] EXCEPT !.name = Title[t], !.timing = timing,
                                                     !.enabled = enabled]])

\* get_or_create by the task for reachability, by the name for the others.
Found(t) == IF t = Reach THEN OfTask(t)
            ELSE {r \in DOMAIN schedules : schedules[r].name = Title[t]}
AnyInterval == CHOOSE i \in Intervals : TRUE
Default(p, t) ==
    Fresh(t, [cron |-> t # Reach,
              every |-> IF t = Reach THEN proc[p].set.interval
                        ELSE AnyInterval], TRUE)
\* What the code enforces on a schedule that it found.
Enforced(p, t, row) ==
    IF t = Reach
    THEN [row EXCEPT !.timing.every = proc[p].set.interval, !.enabled = TRUE]
    ELSE IF t = Backup
    THEN [row EXCEPT !.task = Backup, !.timing.cron = TRUE, !.enabled = TRUE]
    ELSE row

\* A racing insert of the same schedule makes get_or_create find that one.
Inserts(p, t, k, row) ==
    /\ Unique(k, row)
    /\ schedules' = Put(schedules, k, row)
    /\ Go(p, [proc[p] EXCEPT !.at = IF t = Reach THEN "sync" ELSE "save", !.key = k, !.new = row])
    /\ UNCHANGED <<periodic, setting, writes, directs, alone, exact, sent>>
Finds(p, t, r, row) ==
    /\ Go(p, [proc[p] EXCEPT !.at = IF t = Reach /\ row = schedules[r] THEN "sync" ELSE "save",
                             !.key = r, !.new = row])
    /\ UNCHANGED <<schedules, periodic, setting, writes, directs, alone, exact, sent>>
GetTask(p, t) ==
    \/ Found(t) = {} /\ \E k \in Free(schedules) : Inserts(p, t, k, Default(p, t))
    \/ \E r \in Found(t) : Found(t) = {r} /\ Finds(p, t, r, Enforced(p, t, schedules[r]))
    \/ (\E q, r \in Found(t) : q # r) /\ Raise(p)     \* MultipleObjectsReturned
Get(p) == proc[p].at = "get" /\ GetTask(p, proc[p].task)

SaveSchedule(p) ==
    /\ proc[p].at = "save"
    /\ IF CanSave(proc[p].key, proc[p].new)
       THEN /\ \E k \in IF proc[p].key = None THEN Free(schedules) ELSE {proc[p].key} :
                 /\ schedules' = Put(schedules, k, proc[p].new)
                 /\ exact' = exact \ {k}
                 /\ IF proc[p].kind = "direct" THEN End(p)
                    ELSE Go(p, [proc[p] EXCEPT !.at = "sync", !.key = k])
            /\ UNCHANGED <<periodic, setting, writes, directs, alone, sent>>
       ELSE Raise(p)

Mirror(row) == [name |-> row.name, task |-> row.task, enabled |-> row.enabled,
                every |-> IF row.timing.cron THEN 0 ELSE row.timing.every]
NotEnabled(q, row) == IF q \in DOMAIN periodic
                      THEN [Mirror(row) EXCEPT !.enabled = periodic[q].enabled]
                      ELSE Mirror(row)      \* regression: enabled is forgotten

\* The fields of a linked task that sync_schedule assigns.
Assigned(q, row) == Mirror(row)
Linked(q) == {r \in DOMAIN schedules : schedules[r].link = q}
\* Only the API and the admin give one name to schedules of two tasks.
Stolen(q) == IF directs = 0 THEN {} ELSE Linked(q)
\* The schedule is in order; the command goes on with the next one.
Done(p, stolen) ==
    /\ exact' = (exact \ stolen) \cup (IF p \in alone THEN {proc[p].key} ELSE {})
    /\ IF proc[p].kind = "bootstrap" /\ proc[p].task # Cleanup
       THEN Go(p, [proc[p] EXCEPT !.at = "get", !.task = IF @ = Reach THEN Backup ELSE Cleanup])
       ELSE End(p)
    /\ UNCHANGED <<setting, writes, directs, alone, sent>>

\* Saving a linked task fails if another one has the name.
SaveLinked(p, row) ==
    IF FreeName(row.link, row.name)
    THEN /\ periodic' = Put(periodic, row.link, Assigned(row.link, row))
         /\ Done(p, Stolen(row.link)) /\ UNCHANGED schedules
    ELSE Raise(p)
Links(p, row, q, forget) ==
    /\ periodic' = Put(periodic, q, Mirror(row))
    /\ exact' = exact \ forget
    /\ Go(p, [proc[p] EXCEPT !.at = "link", !.new = [row EXCEPT !.link = q]])
    /\ UNCHANGED <<schedules, setting, writes, directs, alone, sent>>
\* The named task is looked up, inserted or overwritten: the race of two
\* inserts ends in the lookup.
LinkNamed(p, row) ==
    LET named == {q \in DOMAIN periodic : periodic[q].name = row.name}
    IN \/ named = {} /\ \E k \in Free(periodic) : Links(p, row, k, {})
       \/ \E q \in named : Links(p, row, q, Stolen(q))
SyncRow(p, row) ==
    IF ~row.timing.cron /\ row.timing.every = 0 THEN Raise(p)       \* ValueError
    ELSE IF row.link # None THEN SaveLinked(p, row) ELSE LinkNamed(p, row)
Sync(p) == proc[p].at = "sync" /\ SyncRow(p, proc[p].new)

LinkSchedule(p) ==
    /\ proc[p].at = "link"
    /\ IF proc[p].key \in DOMAIN schedules /\ OneToOne(proc[p].key, proc[p].new)
       THEN /\ schedules' = [schedules EXCEPT ![proc[p].key].link = proc[p].new.link]
            /\ Done(p, {}) /\ UNCHANGED periodic
       ELSE Raise(p)

-----------------------------------------------------------------------------
(* The API and the admin, which do not synchronize                          *)

Direct == /\ writes < MaxWrites /\ writes' = writes + 1
          /\ directs < MaxDirect /\ directs' = directs + 1
          /\ alone' = {}
DirectStep == Direct /\ UNCHANGED <<setting, proc, sent>>

EditSchedule(p) ==
    /\ Direct
    /\ \/ \E t \in Tasks, name \in Titles :
            Go(p, [Idle EXCEPT !.at = "save", !.kind = "direct",
                     !.new = [Fresh(t, [cron |-> TRUE, every |-> AnyInterval], TRUE)
                                EXCEPT !.name = name]])
       \/ \E r \in DOMAIN schedules :
            \E new \in {[schedules[r] EXCEPT !.name = name] : name \in Titles}
                         \cup {[schedules[r] EXCEPT !.enabled = FALSE]} :
              Go(p, [Idle EXCEPT !.at = "save", !.kind = "direct", !.key = r, !.new = new])
    /\ UNCHANGED <<schedules, periodic, setting, exact, sent>>

\* The admin saves the whole settings row.
EditSettings ==
    /\ Direct
    /\ \E i \in Intervals : setting' = [setting EXCEPT !.interval = i]
    /\ UNCHANGED <<schedules, periodic, proc, exact, sent>>

DeleteSchedule(r) ==
    /\ r \in DOMAIN schedules
    /\ schedules' = Without(schedules, {r}) /\ exact' = exact \ {r}
    /\ DirectStep /\ UNCHANGED periodic

\* Beat's admin; deleting a task deletes the schedule that links it.
EditPeriodic(q) ==
    /\ q \in DOMAIN periodic
    /\ periodic' = [periodic EXCEPT ![q].enabled = ~@]
    /\ exact' = exact \ Linked(q)
    /\ DirectStep /\ UNCHANGED schedules

DeletePeriodic(q) ==
    /\ q \in DOMAIN periodic
    /\ periodic' = Without(periodic, {q})
    /\ schedules' = Without(schedules, Linked(q)) /\ exact' = exact \ Linked(q)
    /\ DirectStep

-----------------------------------------------------------------------------
Open(p) == OpenSettings(p) \/ Bootstrap(p) \/ OpenPage(p) \/ EditSchedule(p)
Next ==
    \/ \E p \in {q \in Procs : proc[q].at = "idle"} : Open(p)
    \/ \E p \in Procs : Section(p) \/ Get(p) \/ SaveSchedule(p) \/ Sync(p) \/ LinkSchedule(p)
    \/ EditSettings
    \/ \E r \in Rows : DeleteSchedule(r) \/ EditPeriodic(r) \/ DeletePeriodic(r)

Spec == Init /\ [][Next]_vars

-----------------------------------------------------------------------------
(* A schedule that a page or the command has written without being          *)
(* overtaken has a periodic task with its name, timing and switch, whatever *)
(* happened before, and other pages leave it so.                            *)
MirrorFollows ==
    \A r \in exact : /\ schedules[r].link # None
                     /\ periodic[schedules[r].link] = Mirror(schedules[r])

(* Pages and commands, in any overlap, leave one schedule and one periodic  *)
(* task for a task, so beat starts nothing twice, and the list shows the    *)
(* schedule that the page edits.  The API and the admin can break this.     *)
OnePerTask ==
    directs = 0 =>
      /\ \A q, r \in DOMAIN schedules : schedules[q].task = schedules[r].task => q = r
      /\ \A q, r \in DOMAIN periodic : periodic[q].task = periodic[r].task => q = r
      /\ \A t \in Tasks : Listed(t) = Edited(t)

(* The forms of the settings page and the end of a reachability run may     *)
(* overlap: each section keeps what was last saved in it.                   *)
SectionsKept == directs = 0 => setting = sent

=============================================================================
