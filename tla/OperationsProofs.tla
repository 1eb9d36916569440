--------------------------- MODULE OperationsProofs ---------------------------
(***************************************************************************)
(* Proofs about Operations.  A behaviour is one of a single component, so  *)
(* each component has an inductive invariant of its own, ScheduleInv,      *)
(* NeighbourInv, RuntimeInv, SpaceInv, SyncInv and SiteInv, from which its *)
(* properties follow; that of the address space is the invariant of its    *)
(* own proof module, instantiated.                                         *)
(***************************************************************************)
EXTENDS Operations, TLAPS

-----------------------------------------------------------------------------
(* Schedules                                                                *)

ScheduleEntries ==
    [at : {"idle", "section", "get", "save", "sync", "link"},
     kind : {"page", "settings", "bootstrap", "direct"}, task : Tasks \cup {None},
     key : Rows \cup {None, "interval", "other"}, new : Schedule!Schedules \cup {None},
     set : Schedule!Settings \cup {None}]

EntryHolds(e) ==
    /\ e \in ScheduleEntries
    /\ e.at = "section" => e.key \in {"interval", "other"}
    /\ e.at \in {"section", "get"} \/ e.kind = "bootstrap" => e.set \in Schedule!Settings
    /\ e.at = "get" => e.task \in Tasks
    /\ e.at \in {"save", "sync", "link"} => e.key \in Rows \cup {None} /\ e.new \in Schedule!Schedules
    /\ e.at \in {"sync", "link"} => e.key \in Rows
    /\ e.at = "link" => e.new.link \in Rows

ScheduleTyped ==
    /\ DOMAIN schedules \subseteq Rows /\ DOMAIN periodic \subseteq Rows
    /\ \A r \in DOMAIN schedules :
         /\ schedules[r] \in Schedule!Schedules
         /\ schedules[r].link # None => schedules[r].link \in DOMAIN periodic
    /\ \A q \in DOMAIN periodic : periodic[q] \in Schedule!Periodics
    /\ setting \in Schedule!Settings /\ sent \in Schedule!Settings
    /\ proc \in [Procs -> ScheduleEntries] /\ \A p \in Procs : EntryHolds(proc[p])
    /\ writes \in 0..MaxWrites /\ directs \in 0..MaxDirect
    /\ alone \subseteq Procs /\ exact \subseteq DOMAIN schedules

Writing(p) == proc[p].at \in {"save", "sync", "link"}

\* Without the API and the admin the name of a row is that of its task.
TitlesKept == directs = 0 =>
    /\ \A r \in DOMAIN schedules : schedules[r].name = Title[schedules[r].task]
    /\ \A q \in DOMAIN periodic : periodic[q].name = Title[periodic[q].task]
    /\ \A p \in Procs : Writing(p) => proc[p].new.name = Title[proc[p].new.task]

\* What the database and the lookup by name enforce.
OneSchedule == \A q, r \in DOMAIN schedules :
    schedules[q].name = schedules[r].name /\ schedules[q].task = schedules[r].task => q = r
OnePeriodic == \A q, r \in DOMAIN periodic : periodic[q].name = periodic[r].name => q = r

\* Without the API and the admin a request saves the row that it loaded, of
\* the same task, and links lead to periodic tasks of the same task.
LeadsTo(row) == row.link # None => /\ row.link \in DOMAIN periodic
                                   /\ periodic[row.link].task = row.task
KeysKept == directs = 0 =>
    \A p \in Procs : Writing(p) /\ proc[p].key # None =>
        proc[p].key \in DOMAIN schedules /\ schedules[proc[p].key].task = proc[p].new.task
LinksKept == directs = 0 =>
    /\ \A r \in DOMAIN schedules : LeadsTo(schedules[r])
    /\ \A p \in Procs : Writing(p) => LeadsTo(proc[p].new)

\* What a request that is alone has done so far.
AloneKept == \A p \in alone :
    /\ \A q \in Procs \ {p} : proc[q].at = "idle"
    /\ proc[p].at = "sync" =>
         proc[p].key \in DOMAIN schedules /\ schedules[proc[p].key] = proc[p].new
    /\ proc[p].at = "link" =>
         /\ proc[p].key \in DOMAIN schedules
         /\ Schedule!Mirror(schedules[proc[p].key]) = Schedule!Mirror(proc[p].new)
         /\ proc[p].new.link \in DOMAIN periodic
         /\ periodic[proc[p].new.link] = Schedule!Mirror(proc[p].new)

\* What anyone may know of an exact schedule.
ExactKept == \A p \in Procs : proc[p].key \in exact =>
    /\ proc[p].at = "sync" => schedules[proc[p].key] = proc[p].new
    /\ proc[p].at # "link"

ScheduleInv ==
    /\ ScheduleTyped /\ TitlesKept /\ OneSchedule /\ OnePeriodic /\ KeysKept /\ LinksKept
    /\ AloneKept /\ ExactKept /\ Schedule!MirrorFollows

\* One request goes on to e and nothing that others read changes.
LEMMA RequestGoesOn ==
    ASSUME ScheduleInv, NEW p \in Procs, NEW e, EntryHolds(e), Schedule!Go(p, e),
           UNCHANGED <<schedules, periodic, exact>>,
           setting' \in Schedule!Settings, sent' \in Schedule!Settings,
           writes' \in 0..MaxWrites, directs' \in 0..MaxDirect, alone' \subseteq Procs,
           directs' = 0 => directs = 0,
           directs' = 0 /\ e.at \in {"save", "sync", "link"} =>
               /\ e.new.name = Title[e.new.task]
               /\ e.key # None => e.key \in DOMAIN schedules
                                  /\ schedules[e.key].task = e.new.task
               /\ LeadsTo(e.new),
           \A a \in alone' : a = p /\ \A q \in Procs \ {p} : proc[q].at = "idle",
           e.at = "sync" => e.key \in DOMAIN schedules /\ schedules[e.key] = e.new,
           e.at # "link"
    PROVE  ScheduleInv'
<1> USE DEF ScheduleInv, Schedule!Go
<1>0. /\ proc' = [proc EXCEPT ![p] = e] /\ e \in ScheduleEntries
      /\ proc \in [Procs -> ScheduleEntries]
      /\ proc'[p] = e /\ \A q \in Procs \ {p} : proc'[q] = proc[q]
    BY DEF EntryHolds, ScheduleTyped
<1>1. ScheduleTyped'
  <2>1. proc' \in [Procs -> ScheduleEntries] /\ \A q \in Procs : EntryHolds(proc'[q])
      BY <1>0 DEF ScheduleTyped
  <2> QED BY <2>1, <1>0 DEF ScheduleTyped
<1>2. TitlesKept' BY <1>0 DEF TitlesKept, Writing
<1>3. OneSchedule' /\ OnePeriodic' BY DEF OneSchedule, OnePeriodic
<1>4. KeysKept' BY <1>0 DEF KeysKept, Writing
<1>5. LinksKept' BY <1>0 DEF LinksKept, LeadsTo, Writing
<1>6. AloneKept' BY <1>0 DEF AloneKept
<1>7. ExactKept' BY <1>0 DEF ExactKept
<1>8. Schedule!MirrorFollows' BY DEF Schedule!MirrorFollows, Schedule!Mirror
<1> QED BY <1>1, <1>2, <1>3, <1>4, <1>5, <1>6, <1>7, <1>8

\* A request under way is the only one that can be alone.
LEMMA OnlyOneAlone ==
    ASSUME ScheduleInv, NEW p \in Procs, proc[p].at # "idle", NEW a \in alone
    PROVE  a = p /\ \A q \in Procs \ {p} : proc[q].at = "idle"
BY DEF ScheduleInv, AloneKept

\* A request that has not begun or has ended.
LEMMA IdleHolds == /\ EntryHolds(Schedule!Idle) /\ Schedule!Idle.at = "idle"
                   /\ Schedule!Idle.key = None
  BY DEF EntryHolds, ScheduleEntries, Schedule!Idle

\* What raises ends the request and nothing else.
LEMMA RaiseStep ==
    ASSUME ScheduleInv, NEW p \in Procs, proc[p].at # "idle", Schedule!Raise(p)
    PROVE  ScheduleInv'
<1>1. \A a \in alone : a = p /\ \A q \in Procs \ {p} : proc[q].at = "idle" BY OnlyOneAlone
<1>2. /\ Schedule!Go(p, Schedule!Idle)
      /\ UNCHANGED <<schedules, periodic, setting, writes, directs, alone, exact, sent>>
    BY DEF Schedule!Raise, Schedule!End, Schedule!Go
<1>3. /\ setting \in Schedule!Settings /\ sent \in Schedule!Settings /\ alone \subseteq Procs
      /\ writes \in 0..MaxWrites /\ directs \in 0..MaxDirect
    BY DEF ScheduleInv, ScheduleTyped
<1>4. ~(Schedule!Idle.at \in {"save", "sync", "link"}) BY IdleHolds
<1> QED BY <1>1, <1>2, <1>3, <1>4, IdleHolds, RequestGoesOn

\* A page, a form or the command begins.
LEMMA StartStep ==
    ASSUME ScheduleInv, NEW p \in Procs, NEW e, Schedule!Starts(p, e), EntryHolds(e),
           e.at \notin {"sync", "link"},
           directs = 0 /\ e.at = "save" =>
               /\ e.new.name = Title[e.new.task]
               /\ e.key # None => e.key \in DOMAIN schedules
                                  /\ schedules[e.key].task = e.new.task
               /\ LeadsTo(e.new)
    PROVE  ScheduleInv'
<1>1. /\ Schedule!Go(p, e) /\ UNCHANGED <<schedules, periodic, setting, directs, exact, sent>>
      /\ writes < MaxWrites /\ writes' = writes + 1
      /\ \A a \in alone' : a = p /\ \A q \in Procs \ {p} : proc[q].at = "idle"
      /\ alone' \subseteq Procs
    BY DEF Schedule!Starts
<1>2. /\ setting \in Schedule!Settings /\ sent \in Schedule!Settings
      /\ writes \in 0..MaxWrites /\ directs \in 0..MaxDirect /\ MaxWrites \in Nat
    BY OperationsAssumption DEF ScheduleInv, ScheduleTyped, Assumptions, Schedule!Assumptions
<1>3. writes' \in 0..MaxWrites BY <1>1, <1>2
<1> QED BY <1>1, <1>2, <1>3, RequestGoesOn

\* The forms of the settings.
LEMMA OpenSettingsStep ==
    ASSUME ScheduleInv, NEW p \in Procs, Schedule!OpenSettings(p)
    PROVE  ScheduleInv'
<1>1. setting \in Schedule!Settings BY DEF ScheduleInv, ScheduleTyped
<1>2. CASE \E i \in Intervals :
             Schedule!Starts(p, [Schedule!Idle EXCEPT !.at = "section", !.kind = "settings",
                                 !.key = "interval", !.set = [setting EXCEPT !.interval = i]])
  <2>1. PICK i \in Intervals :
             Schedule!Starts(p, [Schedule!Idle EXCEPT !.at = "section", !.kind = "settings",
                                 !.key = "interval", !.set = [setting EXCEPT !.interval = i]])
      BY <1>2
  <2> DEFINE e == [Schedule!Idle EXCEPT !.at = "section", !.kind = "settings",
                                 !.key = "interval", !.set = [setting EXCEPT !.interval = i]]
  <2>2. [setting EXCEPT !.interval = i] \in Schedule!Settings BY <1>1 DEF Schedule!Settings
  <2>3. EntryHolds(e) /\ e.at = "section"
      BY <1>1, <2>2 DEF EntryHolds, ScheduleEntries, Schedule!Idle
  <2> HIDE DEF e
  <2> QED BY <2>1, <2>3, StartStep DEF e
<1>3. CASE Schedule!Starts(p, [Schedule!Idle EXCEPT !.at = "section", !.kind = "settings",
                               !.key = "other", !.set = [setting EXCEPT !.other = 1]])
  <2> DEFINE e == [Schedule!Idle EXCEPT !.at = "section", !.kind = "settings",
                                 !.key = "other", !.set = [setting EXCEPT !.other = 1]]
  <2>2. [setting EXCEPT !.other = 1] \in Schedule!Settings BY <1>1 DEF Schedule!Settings
  <2>3. EntryHolds(e) /\ e.at = "section"
      BY <1>1, <2>2 DEF EntryHolds, ScheduleEntries, Schedule!Idle
  <2>4. Schedule!Starts(p, e) BY <1>3
  <2> HIDE DEF e
  <2> QED BY <2>3, <2>4, StartStep
<1> QED BY <1>2, <1>3 DEF Schedule!OpenSettings

\* The bootstrap command.
LEMMA BootstrapStep ==
    ASSUME ScheduleInv, NEW p \in Procs, Schedule!Bootstrap(p)
    PROVE  ScheduleInv'
<1> DEFINE e == [Schedule!Idle EXCEPT !.at = "get", !.kind = "bootstrap", !.set = setting,
                                      !.task = Reach]
<1>1. setting \in Schedule!Settings /\ Reach \in Tasks
    BY OperationsAssumption DEF ScheduleInv, ScheduleTyped, Assumptions, Schedule!Assumptions
<1>2. EntryHolds(e) /\ e.at = "get"
    BY <1>1 DEF EntryHolds, ScheduleEntries, Schedule!Idle
<1>3. Schedule!Starts(p, e) BY DEF Schedule!Bootstrap
<1> HIDE DEF e
<1> QED BY <1>2, <1>3, StartStep

\* The page of a task.
LEMMA OpenPageStep ==
    ASSUME ScheduleInv, NEW p \in Procs, Schedule!OpenPage(p)
    PROVE  ScheduleInv'
<1>1. PICK t \in Tasks, timing \in Schedule!FormTimings, enabled \in BOOLEAN :
        \/ /\ Schedule!OfTask(t) = {}
           /\ Schedule!Starts(p, [Schedule!Idle EXCEPT !.at = "save",
                                    !.new = Schedule!Fresh(t, timing, enabled)])
        \/ \E r \in Schedule!Edited(t) :
             Schedule!Starts(p, [Schedule!Idle EXCEPT !.at = "save", !.key = r,
                        !.new = [schedules[r] EXCEPT !.name = Title[t], !.timing = timing,
                                                     !.enabled = enabled]])
    BY DEF Schedule!OpenPage
<1>2. timing \in Schedule!Timings /\ Title[t] \in Schedule!Titles
    BY DEF Schedule!FormTimings, Schedule!Titles
<1>3. CASE Schedule!Starts(p, [Schedule!Idle EXCEPT !.at = "save",
                                 !.new = Schedule!Fresh(t, timing, enabled)])
  <2> DEFINE new == Schedule!Fresh(t, timing, enabled)
             e == [Schedule!Idle EXCEPT !.at = "save", !.new = new]
  <2>1. new \in Schedule!Schedules /\ new.name = Title[new.task] /\ new.link = None
      BY <1>2 DEF Schedule!Fresh, Schedule!Schedules
  <2>2. Schedule!Starts(p, e) BY <1>3
  <2> HIDE DEF new
  <2>4. EntryHolds(e) /\ e.at = "save" /\ e.new = new /\ e.key = None
      BY <2>1 DEF EntryHolds, ScheduleEntries, Schedule!Idle
  <2>5. LeadsTo(e.new) BY <2>1, <2>4 DEF LeadsTo
  <2> HIDE DEF e
  <2> QED BY <2>1, <2>2, <2>4, <2>5, StartStep
<1>4. CASE \E r \in Schedule!Edited(t) :
             Schedule!Starts(p, [Schedule!Idle EXCEPT !.at = "save", !.key = r,
                        !.new = [schedules[r] EXCEPT !.name = Title[t], !.timing = timing,
                                                     !.enabled = enabled]])
  <2>1. PICK r \in Schedule!Edited(t) :
             Schedule!Starts(p, [Schedule!Idle EXCEPT !.at = "save", !.key = r,
                        !.new = [schedules[r] EXCEPT !.name = Title[t], !.timing = timing,
                                                     !.enabled = enabled]])
      BY <1>4
  <2> DEFINE new == [schedules[r] EXCEPT !.name = Title[t], !.timing = timing,
                                         !.enabled = enabled]
             e == [Schedule!Idle EXCEPT !.at = "save", !.key = r, !.new = new]
  <2>2. r \in DOMAIN schedules /\ schedules[r].task = t
      BY DEF Schedule!Edited, Schedule!Titled, Schedule!First, Schedule!OfTask
  <2>3. schedules[r] \in Schedule!Schedules /\ r \in Rows
      BY <2>2 DEF ScheduleInv, ScheduleTyped
  <2>4. /\ new \in Schedule!Schedules /\ new.name = Title[t] /\ new.task = t
        /\ new.link = schedules[r].link
      BY <1>2, <2>2, <2>3 DEF Schedule!Schedules
  <2>5. Schedule!Starts(p, e) BY <2>1
  <2> HIDE DEF new
  <2>7. EntryHolds(e) /\ e.at = "save" /\ e.new = new /\ e.key = r
      BY <2>3, <2>4 DEF EntryHolds, ScheduleEntries, Schedule!Idle
  <2>8. directs = 0 => LeadsTo(new)
      BY <2>2, <2>4 DEF ScheduleInv, LinksKept, LeadsTo
  <2> HIDE DEF e
  <2> QED BY <2>2, <2>4, <2>5, <2>7, <2>8, StartStep
<1> QED BY <1>1, <1>3, <1>4

\* A form of the settings is saved.
LEMMA SectionStep ==
    ASSUME ScheduleInv, NEW p \in Procs, Schedule!Section(p)
    PROVE  ScheduleInv'
<1> DEFINE key == proc[p].key
           set == proc[p].set
<1>1. proc[p].at = "section" /\ proc[p] \in ScheduleEntries /\ EntryHolds(proc[p])
      /\ UNCHANGED <<schedules, periodic, writes, directs, alone, exact>>
    BY DEF ScheduleInv, ScheduleTyped, Schedule!Section
<1>2. key \in {"interval", "other"} /\ set \in Schedule!Settings
    BY <1>1 DEF EntryHolds
<1>3. setting \in Schedule!Settings /\ sent \in Schedule!Settings
    BY DEF ScheduleInv, ScheduleTyped
<1>4. setting' \in Schedule!Settings /\ sent' \in Schedule!Settings
  <2>1. setting' = [setting EXCEPT ![key] = set[key]] /\ sent' = [sent EXCEPT ![key] = set[key]]
      BY DEF Schedule!Section, Schedule!SaveSection
  <2>2. CASE key = "interval"
      BY <2>1, <2>2, <1>2, <1>3 DEF Schedule!Settings
  <2>3. CASE key = "other"
      BY <2>1, <2>3, <1>2, <1>3 DEF Schedule!Settings
  <2> QED BY <1>2, <2>2, <2>3
<1>5. \A a \in alone : a = p /\ \A q \in Procs \ {p} : proc[q].at = "idle" BY <1>1, OnlyOneAlone
<1>6. writes \in 0..MaxWrites /\ directs \in 0..MaxDirect /\ alone \subseteq Procs
    BY DEF ScheduleInv, ScheduleTyped
<1>7. CASE key = "interval"
  <2> DEFINE e == [proc[p] EXCEPT !.at = "get", !.task = Reach]
  <2>1. Schedule!Go(p, e) BY <1>7 DEF Schedule!Section
  <2>2. Reach \in Tasks
      BY OperationsAssumption DEF Assumptions, Schedule!Assumptions
  <2>3. EntryHolds(e) /\ e.at = "get"
      BY <1>1, <1>2, <2>2 DEF EntryHolds, ScheduleEntries
  <2> HIDE DEF e, key, set
  <2> QED BY <1>1, <1>4, <1>5, <1>6, <2>1, <2>3, RequestGoesOn
<1>8. CASE key # "interval"
  <2>1. Schedule!Go(p, Schedule!Idle) BY <1>8 DEF Schedule!Section, Schedule!End, Schedule!Go
  <2> HIDE DEF key, set
  <2> QED BY <1>1, <1>4, <1>5, <1>6, <2>1, IdleHolds, RequestGoesOn
<1> QED BY <1>7, <1>8

\* A request saves or inserts a schedule and goes on to e.
LEMMA RowIsSaved ==
    ASSUME ScheduleInv, NEW p \in Procs, proc[p].at # "idle", NEW e, EntryHolds(e),
           Schedule!Go(p, e), NEW k \in Rows, NEW row \in Schedule!Schedules,
           schedules' = Schedule!Put(schedules, k, row), exact' = exact \ {k},
           UNCHANGED <<periodic, setting, writes, directs, alone, sent>>,
           Schedule!Unique(k, row), row.link # None => row.link \in DOMAIN periodic,
           directs = 0 => /\ row.name = Title[row.task] /\ LeadsTo(row)
                          /\ k \in DOMAIN schedules => schedules[k].task = row.task,
           e.at # "link", e.at \in {"save", "sync"} => e.key = k /\ e.new = row
    PROVE  ScheduleInv'
<1> USE DEF ScheduleInv, Schedule!Go
<1>0. /\ proc' = [proc EXCEPT ![p] = e] /\ e \in ScheduleEntries
      /\ proc \in [Procs -> ScheduleEntries]
      /\ proc'[p] = e /\ \A q \in Procs \ {p} : proc'[q] = proc[q]
    BY DEF EntryHolds, ScheduleTyped
<1>a. /\ DOMAIN schedules' = {k} \cup DOMAIN schedules
      /\ schedules'[k] = row
      /\ \A r \in DOMAIN schedules : r # k => schedules'[r] = schedules[r]
    BY DEF Schedule!Put
<1>b. exact \subseteq DOMAIN schedules BY DEF ScheduleTyped
<1>c. \A a \in alone : a = p /\ \A q \in Procs \ {p} : proc[q].at = "idle" BY OnlyOneAlone
<1>1. ScheduleTyped'
  <2>1. proc' \in [Procs -> ScheduleEntries] /\ \A q \in Procs : EntryHolds(proc'[q])
      BY <1>0 DEF ScheduleTyped
  <2> QED BY <2>1, <1>0, <1>a DEF ScheduleTyped
<1>2. TitlesKept' BY <1>0, <1>a DEF TitlesKept, Writing
<1>3. OneSchedule' BY <1>a DEF OneSchedule, Schedule!Unique
<1>4. OnePeriodic' BY DEF OnePeriodic
<1>5. KeysKept' BY <1>0, <1>a DEF KeysKept, Writing
<1>6. LinksKept' BY <1>0, <1>a DEF LinksKept, LeadsTo, Writing
<1>7. AloneKept' BY <1>0, <1>a, <1>c DEF AloneKept
<1>8. ExactKept' BY <1>0, <1>a, <1>b DEF ExactKept
<1>9. Schedule!MirrorFollows' BY <1>a, <1>b DEF Schedule!MirrorFollows, Schedule!Mirror
<1> QED BY <1>1, <1>2, <1>3, <1>4, <1>5, <1>6, <1>7, <1>8, <1>9

\* A page or the API saves its row, or is refused.
LEMMA SaveScheduleStep ==
    ASSUME ScheduleInv, NEW p \in Procs, Schedule!SaveSchedule(p)
    PROVE  ScheduleInv'
<1> DEFINE row == proc[p].new
           key == proc[p].key
<1>1. proc[p].at = "save" /\ EntryHolds(proc[p]) /\ proc[p] \in ScheduleEntries
    BY DEF ScheduleInv, ScheduleTyped, Schedule!SaveSchedule
<1>2. row \in Schedule!Schedules /\ key \in Rows \cup {None} BY <1>1 DEF EntryHolds
<1>3. CASE ~Schedule!CanSave(key, row) BY <1>1, <1>3, RaiseStep DEF Schedule!SaveSchedule
<1>4. CASE Schedule!CanSave(key, row)
  <2>1. PICK k \in IF key = None THEN Schedule!Free(schedules) ELSE {key} :
          /\ schedules' = Schedule!Put(schedules, k, row) /\ exact' = exact \ {k}
          /\ IF proc[p].kind = "direct" THEN Schedule!End(p)
             ELSE Schedule!Go(p, [proc[p] EXCEPT !.at = "sync", !.key = k])
      BY <1>4 DEF Schedule!SaveSchedule
  <2>2. UNCHANGED <<periodic, setting, writes, directs, alone, sent>>
      BY <1>4 DEF Schedule!SaveSchedule
  <2>3. k \in Rows /\ Schedule!Unique(k, row) /\ (row.link # None => row.link \in DOMAIN periodic)
    <3>1. CASE key = None
      <4>1. k \in Rows /\ k \notin DOMAIN schedules BY <2>1, <3>1 DEF Schedule!Free
      <4>2. None \notin DOMAIN schedules
          BY OperationsAssumption DEF Assumptions, Schedule!Assumptions, ScheduleInv, ScheduleTyped
      <4> QED BY <1>4, <3>1, <4>1, <4>2 DEF Schedule!CanSave, Schedule!Unique, Schedule!OneToOne
    <3>2. CASE key # None
        BY <1>2, <1>4, <2>1, <3>2 DEF Schedule!CanSave, Schedule!OneToOne
    <3> QED BY <3>1, <3>2
  <2>4. directs = 0 => /\ row.name = Title[row.task] /\ LeadsTo(row)
                       /\ k \in DOMAIN schedules => schedules[k].task = row.task
    <3>1. k = key \/ k \notin DOMAIN schedules BY <2>1 DEF Schedule!Free
    <3>2. k # None BY <2>3, OperationsAssumption DEF Assumptions, Schedule!Assumptions
    <3> QED BY <1>1, <3>1, <3>2 DEF ScheduleInv, TitlesKept, LinksKept, KeysKept, Writing
  <2>5. CASE proc[p].kind = "direct"
    <3>1. Schedule!Go(p, Schedule!Idle) BY <2>1, <2>5 DEF Schedule!End, Schedule!Go
    <3> HIDE DEF row, key
    <3> QED BY <1>1, <1>2, <2>1, <2>2, <2>3, <2>4, <3>1, IdleHolds, RowIsSaved
  <2>6. CASE proc[p].kind # "direct"
    <3> DEFINE e == [proc[p] EXCEPT !.at = "sync", !.key = k]
    <3>1. Schedule!Go(p, e) BY <2>1, <2>6
    <3>2. EntryHolds(e) /\ e.at = "sync" /\ e.key = k /\ e.new = row
        BY <1>1, <1>2, <2>3 DEF EntryHolds, ScheduleEntries
    <3> HIDE DEF e, row, key
    <3> QED BY <1>1, <1>2, <2>1, <2>2, <2>3, <2>4, <3>1, <3>2, RowIsSaved
  <2> QED BY <2>5, <2>6
<1> QED BY <1>3, <1>4

\* The command finds or inserts the schedule of its next task.
LEMMA GetStep ==
    ASSUME ScheduleInv, NEW p \in Procs, Schedule!Get(p)
    PROVE  ScheduleInv'
<1> DEFINE t == proc[p].task
           new0 == Schedule!Default(p, t)
<1>1. /\ proc[p].at = "get" /\ EntryHolds(proc[p]) /\ proc[p] \in ScheduleEntries
      /\ proc[p].set \in Schedule!Settings
    BY DEF ScheduleInv, ScheduleTyped, Schedule!Get, EntryHolds
<1>2. t \in Tasks BY <1>1 DEF EntryHolds
<1>3. CASE Schedule!Raise(p) BY <1>1, <1>3, RaiseStep
<1>4. ASSUME NEW k \in Schedule!Free(schedules), Schedule!Inserts(p, t, k, new0)
      PROVE  ScheduleInv'
  <2> DEFINE e == [proc[p] EXCEPT !.at = IF t = Reach THEN "sync" ELSE "save",
                                  !.key = k, !.new = new0]
  <2>1. Schedule!AnyInterval \in Intervals
      BY <1>1 DEF Schedule!AnyInterval, Schedule!Settings
  <2>2. /\ new0 \in Schedule!Schedules /\ new0.name = Title[new0.task]
        /\ new0.link = None
      BY <1>1, <1>2, <2>1 DEF Schedule!Default, Schedule!Fresh, Schedule!Schedules,
         Schedule!Timings, Schedule!Titles, Schedule!Settings
  <2>3. k \in Rows /\ k \notin DOMAIN schedules BY DEF Schedule!Free
  <2>4. exact \ {k} = exact BY <2>3 DEF ScheduleInv, ScheduleTyped
  <2>5. /\ Schedule!Go(p, e) /\ Schedule!Unique(k, new0)
        /\ schedules' = Schedule!Put(schedules, k, new0)
        /\ UNCHANGED <<periodic, setting, writes, directs, alone, exact, sent>>
      BY <1>4 DEF Schedule!Inserts
  <2> HIDE DEF new0
  <2>6. EntryHolds(e) /\ e.at \in {"sync", "save"} /\ e.key = k /\ e.new = new0
      BY <1>1, <2>2, <2>3 DEF EntryHolds, ScheduleEntries
  <2>7. LeadsTo(new0) BY <2>2 DEF LeadsTo
  <2> HIDE DEF e, t
  <2> QED BY <1>1, <2>2, <2>3, <2>4, <2>5, <2>6, <2>7, RowIsSaved
<1>5. ASSUME NEW r \in Schedule!Found(t),
             Schedule!Finds(p, t, r, Schedule!Enforced(p, t, schedules[r]))
      PROVE  ScheduleInv'
  <2> DEFINE new == Schedule!Enforced(p, t, schedules[r])
             e == [proc[p] EXCEPT !.at = IF t = Reach /\ new = schedules[r]
                                         THEN "sync" ELSE "save",
                                  !.key = r, !.new = new]
  <2>1. r \in DOMAIN schedules BY DEF Schedule!Found, Schedule!OfTask
  <2>2. schedules[r] \in Schedule!Schedules /\ r \in Rows
      BY <2>1 DEF ScheduleInv, ScheduleTyped
  <2>3. {Reach, Backup, Cleanup} \subseteq Tasks /\ Reach # Backup
        /\ \A u, v \in Tasks : Title[u] = Title[v] => u = v
      BY OperationsAssumption DEF Assumptions, Schedule!Assumptions
  <2>4. /\ new \in Schedule!Schedules /\ new.link = schedules[r].link
        /\ new.name = schedules[r].name
        /\ new.task = IF t = Backup THEN Backup ELSE schedules[r].task
    <3>1. CASE t = Reach
      <4>1. proc[p].set.interval \in Intervals BY <1>1 DEF Schedule!Settings
      <4>2. new = [schedules[r] EXCEPT !.timing.every = proc[p].set.interval, !.enabled = TRUE]
          BY <3>1 DEF Schedule!Enforced
      <4> QED BY <2>2, <2>3, <3>1, <4>1, <4>2 DEF Schedule!Schedules, Schedule!Timings
    <3>2. CASE t = Backup
      <4>1. new = [schedules[r] EXCEPT !.task = Backup, !.timing.cron = TRUE, !.enabled = TRUE]
          BY <2>3, <3>2 DEF Schedule!Enforced
      <4>2. /\ DOMAIN new = DOMAIN schedules[r] /\ new.link = schedules[r].link
            /\ new.name = schedules[r].name /\ new.task = Backup /\ new.enabled = TRUE
            /\ new.timing = [schedules[r].timing EXCEPT !.cron = TRUE]
          BY <2>2, <4>1 DEF Schedule!Schedules
      <4> HIDE DEF new
      <4>3. new.timing \in Schedule!Timings
          BY <2>2, <4>2 DEF Schedule!Schedules, Schedule!Timings
      <4>4. new \in Schedule!Schedules
          BY <2>2, <2>3, <4>1, <4>2, <4>3 DEF Schedule!Schedules
      <4> QED BY <3>2, <4>2, <4>4
    <3>3. CASE t # Reach /\ t # Backup
        BY <2>2, <3>3 DEF Schedule!Enforced
    <3> QED BY <3>1, <3>2, <3>3
  <2>7. /\ Schedule!Go(p, e)
        /\ UNCHANGED <<schedules, periodic, setting, writes, directs, alone, exact, sent>>
      BY <1>5 DEF Schedule!Finds
  <2> HIDE DEF new
  <2>5. directs = 0 => /\ new.name = Title[new.task] /\ schedules[r].task = new.task
                       /\ LeadsTo(new)
    <3>1. t = Backup => schedules[r].name = Title[Backup]
        BY <2>3 DEF Schedule!Found
    <3>2. schedules[r].task \in Tasks BY <2>2 DEF Schedule!Schedules
    <3>3. directs = 0 => schedules[r].name = Title[schedules[r].task]
                         /\ LeadsTo(schedules[r])
        BY <2>1 DEF ScheduleInv, TitlesKept, LinksKept
    <3>4. directs = 0 => new.name = Title[new.task] /\ schedules[r].task = new.task
        BY <2>3, <2>4, <3>1, <3>2, <3>3
    <3> QED BY <2>4, <3>3, <3>4 DEF LeadsTo
  <2>6. EntryHolds(e) /\ e.key = r /\ e.new = new
        /\ (e.at = "save" \/ (e.at = "sync" /\ schedules[r] = new))
      BY <1>1, <2>2, <2>4 DEF EntryHolds, ScheduleEntries
  <2>8. /\ setting \in Schedule!Settings /\ sent \in Schedule!Settings /\ alone \subseteq Procs
        /\ writes \in 0..MaxWrites /\ directs \in 0..MaxDirect
      BY DEF ScheduleInv, ScheduleTyped
  <2>9. \A a \in alone : a = p /\ \A q \in Procs \ {p} : proc[q].at = "idle"
      BY <1>1, OnlyOneAlone
  <2> HIDE DEF e, t
  <2> QED BY <2>1, <2>5, <2>6, <2>7, <2>8, <2>9, RequestGoesOn
<1>6. Schedule!GetTask(p, t) BY DEF Schedule!Get
<1> HIDE DEF t, new0
<1> QED BY <1>3, <1>4, <1>5, <1>6 DEF Schedule!GetTask, new0
\* After its schedule is in order a request ends or goes on with the next one.
LEMMA DoneGoesOn ==
    ASSUME ScheduleInv, NEW p \in Procs, proc[p].at \in {"sync", "link"}, NEW stolen,
           Schedule!Done(p, stolen)
    PROVE  \E e : EntryHolds(e) /\ Schedule!Go(p, e) /\ e.at \in {"idle", "get"}
<1>1. proc[p] \in ScheduleEntries /\ EntryHolds(proc[p]) BY DEF ScheduleInv, ScheduleTyped
<1>2. CASE proc[p].kind = "bootstrap" /\ proc[p].task # Cleanup
  <2> DEFINE t == IF proc[p].task = Reach THEN Backup ELSE Cleanup
             e == [proc[p] EXCEPT !.at = "get", !.task = t]
  <2>1. t \in Tasks BY OperationsAssumption DEF Assumptions, Schedule!Assumptions
  <2>2. Schedule!Go(p, e) BY <1>2 DEF Schedule!Done
  <2> HIDE DEF t
  <2>3. EntryHolds(e) /\ e.at = "get" BY <1>1, <1>2, <2>1 DEF EntryHolds, ScheduleEntries
  <2> QED BY <2>2, <2>3
<1>3. CASE ~(proc[p].kind = "bootstrap" /\ proc[p].task # Cleanup)
  <2>1. Schedule!Go(p, Schedule!Idle) BY <1>3 DEF Schedule!Done, Schedule!End, Schedule!Go
  <2> QED BY <2>1, IdleHolds
<1> QED BY <1>2, <1>3

\* A request saves or inserts a periodic task and goes on to e.
LEMMA TaskIsSaved ==
    ASSUME ScheduleInv, NEW p \in Procs, proc[p].at = "sync", NEW row, row = proc[p].new,
           NEW e, EntryHolds(e), Schedule!Go(p, e), NEW q \in Rows,
           periodic' = Schedule!Put(periodic, q, Schedule!Mirror(row)),
           UNCHANGED <<schedules, setting, writes, directs, alone, sent>>,
           Schedule!FreeName(q, row.name),
           directs = 0 /\ q \in DOMAIN periodic => periodic[q].task = row.task,
           exact' \subseteq exact \cup (IF p \in alone THEN {proc[p].key} ELSE {}),
           \A r \in exact' : \/ r \in exact /\ schedules[r].link # q
                             \/ /\ schedules[r].link = q
                                /\ Schedule!Mirror(schedules[r]) = Schedule!Mirror(row),
           \/ e.at \in {"idle", "get"}
           \/ /\ e.at = "link" /\ e.key = proc[p].key /\ e.key \notin exact'
              /\ e.new.link = q /\ e.new.name = row.name /\ e.new.task = row.task
              /\ Schedule!Mirror(e.new) = Schedule!Mirror(row)
    PROVE  ScheduleInv'
<1> USE DEF ScheduleInv, Schedule!Go
<1>0. /\ proc' = [proc EXCEPT ![p] = e] /\ e \in ScheduleEntries
      /\ proc \in [Procs -> ScheduleEntries]
      /\ proc'[p] = e /\ \A o \in Procs \ {p} : proc'[o] = proc[o]
    BY DEF EntryHolds, ScheduleTyped
<1>a. /\ DOMAIN periodic' = {q} \cup DOMAIN periodic
      /\ periodic'[q] = Schedule!Mirror(row)
      /\ \A s \in DOMAIN periodic : s # q => periodic'[s] = periodic[s]
    BY DEF Schedule!Put
<1>b. /\ row \in Schedule!Schedules
      /\ Schedule!Mirror(row).name = row.name /\ Schedule!Mirror(row).task = row.task
    BY DEF ScheduleTyped, EntryHolds, Schedule!Mirror
<1>m. Schedule!Mirror(row) \in Schedule!Periodics
    BY <1>b DEF Schedule!Mirror, Schedule!Schedules, Schedule!Periodics, Schedule!Timings
<1>c. \A a \in alone : a = p /\ \A o \in Procs \ {p} : proc[o].at = "idle" BY OnlyOneAlone
<1>d. exact \subseteq DOMAIN schedules /\ exact' \subseteq DOMAIN schedules
    BY DEF ScheduleTyped, AloneKept
<1>n. \A r \in DOMAIN schedules : schedules[r].link # None => schedules[r].link \in DOMAIN periodic
    BY DEF ScheduleTyped
<1>1. ScheduleTyped'
  <2>1. proc' \in [Procs -> ScheduleEntries] /\ \A o \in Procs : EntryHolds(proc'[o])
      BY <1>0 DEF ScheduleTyped
  <2>2. \A s \in DOMAIN periodic' : periodic'[s] \in Schedule!Periodics
      BY <1>a, <1>m DEF ScheduleTyped
  <2> QED BY <2>1, <2>2, <1>0, <1>a, <1>d DEF ScheduleTyped
<1>2. TitlesKept' BY <1>0, <1>a, <1>b DEF TitlesKept, Writing
<1>3. OneSchedule' BY DEF OneSchedule
<1>4. OnePeriodic' BY <1>a, <1>b DEF OnePeriodic, Schedule!FreeName
<1>5. KeysKept' BY <1>0 DEF KeysKept, Writing
<1>6. LinksKept' BY <1>0, <1>a, <1>b DEF LinksKept, LeadsTo, Writing
<1>7. AloneKept'
  <2>1. e.at = "link" /\ p \in alone => proc[p].key \in DOMAIN schedules
                                        /\ schedules[proc[p].key] = row
      BY DEF AloneKept
  <2> QED BY <1>0, <1>a, <1>c, <2>1 DEF AloneKept
<1>8. ExactKept' BY <1>0, <1>c DEF ExactKept
<1>9. Schedule!MirrorFollows'
  <2>1. ASSUME NEW r \in exact'
        PROVE  schedules[r].link # None
               /\ periodic'[schedules[r].link] = Schedule!Mirror(schedules[r])
    <3>1. q # None BY OperationsAssumption DEF Assumptions, Schedule!Assumptions
    <3>2. CASE r \in exact /\ schedules[r].link # q
        BY <1>a, <1>d, <1>n, <3>2 DEF Schedule!MirrorFollows
    <3> QED BY <1>a, <3>1, <3>2
  <2> QED BY <2>1 DEF Schedule!MirrorFollows, Schedule!Mirror
<1> QED BY <1>1, <1>2, <1>3, <1>4, <1>5, <1>6, <1>7, <1>8, <1>9

\* Whose schedule links the periodic task of a title, when only pages and the
\* command write: the one that the request is saving.
LEMMA LinkedIsMine ==
    ASSUME ScheduleInv, NEW p \in Procs, proc[p].at = "sync", directs = 0,
           NEW q \in DOMAIN periodic, periodic[q].task = proc[p].new.task,
           NEW r \in exact, schedules[r].link = q
    PROVE  r = proc[p].key /\ schedules[r] = proc[p].new
<1> DEFINE row == proc[p].new
           key == proc[p].key
<1>1. r \in DOMAIN schedules /\ q # None /\ key \in Rows /\ key # None
    BY OperationsAssumption
    DEF Assumptions, Schedule!Assumptions, ScheduleInv, ScheduleTyped, EntryHolds
<1>2. schedules[r].task = row.task
    BY <1>1 DEF ScheduleInv, LinksKept, LeadsTo
<1>3. key \in DOMAIN schedules /\ schedules[key].task = row.task
    BY <1>1 DEF ScheduleInv, KeysKept, Writing
<1>4. schedules[r].name = schedules[key].name
    BY <1>1, <1>2, <1>3 DEF ScheduleInv, TitlesKept
<1>5. r = key BY <1>1, <1>2, <1>3, <1>4 DEF ScheduleInv, OneSchedule
<1> QED BY <1>5 DEF ScheduleInv, ExactKept

\* The periodic task is brought in line with the schedule.
LEMMA SyncStep ==
    ASSUME ScheduleInv, NEW p \in Procs, Schedule!Sync(p)
    PROVE  ScheduleInv'
<1> DEFINE row == proc[p].new
           key == proc[p].key
<1>1. proc[p].at = "sync" /\ EntryHolds(proc[p]) /\ proc[p] \in ScheduleEntries
    BY DEF ScheduleInv, ScheduleTyped, Schedule!Sync
<1>2. row \in Schedule!Schedules /\ key \in Rows BY <1>1 DEF EntryHolds
<1>3. CASE Schedule!Raise(p) BY <1>1, <1>3, RaiseStep
<1>4. CASE /\ row.link # None /\ Schedule!FreeName(row.link, row.name)
           /\ periodic' = Schedule!Put(periodic, row.link, Schedule!Mirror(row))
           /\ Schedule!Done(p, Schedule!Stolen(row.link)) /\ UNCHANGED schedules
  <2> DEFINE q == row.link
  <2>1. q \in Rows BY <1>2, <1>4 DEF Schedule!Schedules
  <2>2. PICK e : EntryHolds(e) /\ Schedule!Go(p, e) /\ e.at \in {"idle", "get"}
      BY <1>1, <1>4, DoneGoesOn
  <2>3. /\ exact' = (exact \ Schedule!Stolen(q)) \cup (IF p \in alone THEN {key} ELSE {})
        /\ UNCHANGED <<schedules, setting, writes, directs, alone, sent>>
      BY <1>4 DEF Schedule!Done
  <2>4. directs = 0 => q \in DOMAIN periodic /\ periodic[q].task = row.task
      BY <1>1, <1>4 DEF ScheduleInv, LinksKept, LeadsTo, Writing
  <2>5. ASSUME NEW r \in exact'
        PROVE  \/ r \in exact /\ schedules[r].link # q
               \/ /\ schedules[r].link = q
                  /\ Schedule!Mirror(schedules[r]) = Schedule!Mirror(row)
    <3>1. CASE r \in exact \ Schedule!Stolen(q) /\ directs = 0
        BY <1>1, <2>4, <3>1, LinkedIsMine
    <3>2. CASE r \in exact \ Schedule!Stolen(q) /\ directs # 0
        BY <3>2 DEF Schedule!Stolen, Schedule!Linked, ScheduleInv, ScheduleTyped
    <3>3. CASE p \in alone /\ r = key BY <1>1, <3>3 DEF ScheduleInv, AloneKept
    <3> QED BY <2>3, <3>1, <3>2, <3>3
  <2>6. exact' \subseteq exact \cup (IF p \in alone THEN {key} ELSE {}) BY <2>3
  <2> HIDE DEF q, key
  <2> QED BY <1>1, <1>4, <2>1, <2>2, <2>3, <2>4, <2>5, <2>6, TaskIsSaved DEF q, key
<1>5. ASSUME row.link = None, NEW q \in Rows, NEW forget, Schedule!Links(p, row, q, forget),
             Schedule!FreeName(q, row.name),
             directs = 0 /\ q \in DOMAIN periodic => periodic[q].task = row.task,
             \A r \in exact : schedules[r].link = q => directs = 0 \/ r \in forget,
             \A r \in exact : schedules[r].link = q => q \in DOMAIN periodic
      PROVE  ScheduleInv'
  <2> DEFINE new == [row EXCEPT !.link = q]
             e == [proc[p] EXCEPT !.at = "link", !.new = new]
  <2>1. /\ periodic' = Schedule!Put(periodic, q, Schedule!Mirror(row))
        /\ exact' = exact \ forget /\ Schedule!Go(p, e)
        /\ UNCHANGED <<schedules, setting, writes, directs, alone, sent>>
      BY <1>5 DEF Schedule!Links
  <2>2. /\ new \in Schedule!Schedules /\ new.link = q /\ new.name = row.name
        /\ new.task = row.task /\ new.timing = row.timing /\ new.enabled = row.enabled
      BY <1>2 DEF Schedule!Schedules
  <2>3. Schedule!Mirror(new) = Schedule!Mirror(row) BY <2>2 DEF Schedule!Mirror
  <2> HIDE DEF new
  <2>4. EntryHolds(e) /\ e.at = "link" /\ e.key = key /\ e.new = new
      BY <1>1, <1>2, <2>2 DEF EntryHolds, ScheduleEntries
  <2>5. key \notin exact
      BY <1>1, <1>5 DEF ScheduleInv, ExactKept, Schedule!MirrorFollows
  <2>6. q # None BY OperationsAssumption DEF Assumptions, Schedule!Assumptions
  <2>7. \A r \in exact \ forget : schedules[r].link # q
      BY <1>1, <1>5, <2>5, LinkedIsMine
  <2> HIDE DEF e
  <2> QED BY <1>1, <1>5, <2>1, <2>2, <2>3, <2>4, <2>5, <2>7, TaskIsSaved
<1>6. CASE row.link = None /\ Schedule!LinkNamed(p, row)
  <2> DEFINE named == {q \in DOMAIN periodic : periodic[q].name = row.name}
  <2>1. ASSUME named = {}, NEW k \in Schedule!Free(periodic), Schedule!Links(p, row, k, {})
        PROVE  ScheduleInv'
    <3>1. k \in Rows /\ k \notin DOMAIN periodic BY DEF Schedule!Free
    <3>2. Schedule!FreeName(k, row.name) BY <2>1 DEF Schedule!FreeName
    <3>3. k # None BY <3>1, OperationsAssumption DEF Assumptions, Schedule!Assumptions
    <3>4. \A r \in exact : schedules[r].link # k
        BY <3>1, <3>3 DEF ScheduleInv, ScheduleTyped
    <3> QED BY <1>5, <1>6, <2>1, <3>1, <3>2, <3>4
  <2>2. ASSUME NEW q \in named, Schedule!Links(p, row, q, Schedule!Stolen(q))
        PROVE  ScheduleInv'
    <3>1. q \in DOMAIN periodic /\ periodic[q].name = row.name /\ q \in Rows
        BY DEF ScheduleInv, ScheduleTyped
    <3>2. Schedule!FreeName(q, row.name)
        BY <3>1 DEF Schedule!FreeName, ScheduleInv, OnePeriodic
    <3>3. directs = 0 => periodic[q].task = row.task
      <4>1. directs = 0 => /\ periodic[q].name = Title[periodic[q].task]
                           /\ row.name = Title[row.task]
          BY <1>1, <3>1 DEF ScheduleInv, TitlesKept, Writing
      <4>2. periodic[q].task \in Tasks /\ row.task \in Tasks
          BY <1>2, <3>1
          DEF ScheduleInv, ScheduleTyped, Schedule!Schedules, Schedule!Periodics
      <4> QED BY <3>1, <4>1, <4>2, OperationsAssumption DEF Assumptions, Schedule!Assumptions
    <3>4. \A r \in exact : schedules[r].link = q => directs = 0 \/ r \in Schedule!Stolen(q)
        BY DEF Schedule!Stolen, Schedule!Linked, ScheduleInv, ScheduleTyped
    <3> QED BY <1>5, <1>6, <2>2, <3>1, <3>2, <3>3, <3>4
  <2>3. \/ named = {} /\ \E k \in Schedule!Free(periodic) : Schedule!Links(p, row, k, {})
        \/ \E q \in named : Schedule!Links(p, row, q, Schedule!Stolen(q))
      BY <1>6 DEF Schedule!LinkNamed
  <2> HIDE DEF named, row
  <2> QED BY <2>1, <2>2, <2>3
<1>7. \/ Schedule!Raise(p)
      \/ row.link # None /\ Schedule!SaveLinked(p, row)
      \/ row.link = None /\ Schedule!LinkNamed(p, row)
    BY DEF Schedule!Sync, Schedule!SyncRow
<1> HIDE DEF row
<1> QED BY <1>3, <1>4, <1>6, <1>7 DEF Schedule!SaveLinked, Schedule!Assigned

\* The schedule is linked to the periodic task.
LEMMA LinkScheduleStep ==
    ASSUME ScheduleInv, NEW p \in Procs, Schedule!LinkSchedule(p)
    PROVE  ScheduleInv'
<1> DEFINE row == proc[p].new
           key == proc[p].key
<1>1. /\ proc[p].at = "link" /\ EntryHolds(proc[p]) /\ proc[p] \in ScheduleEntries
      /\ proc \in [Procs -> ScheduleEntries]
    BY DEF ScheduleInv, ScheduleTyped, Schedule!LinkSchedule
<1>2. row \in Schedule!Schedules /\ key \in Rows /\ row.link \in Rows BY <1>1 DEF EntryHolds
<1>3. CASE Schedule!Raise(p) BY <1>1, <1>3, RaiseStep
<1>4. CASE /\ key \in DOMAIN schedules /\ Schedule!OneToOne(key, row)
           /\ schedules' = [schedules EXCEPT ![key].link = row.link]
           /\ Schedule!Done(p, {}) /\ UNCHANGED periodic
  <2>1. PICK e : EntryHolds(e) /\ Schedule!Go(p, e) /\ e.at \in {"idle", "get"}
      BY <1>1, <1>4, DoneGoesOn
  <2>2. /\ exact' = exact \cup (IF p \in alone THEN {key} ELSE {})
        /\ UNCHANGED <<periodic, setting, writes, directs, alone, sent>>
      BY <1>4 DEF Schedule!Done
  <2>3. row.link # None /\ row.link \in DOMAIN periodic
      BY <1>2, <1>4, OperationsAssumption
      DEF Assumptions, Schedule!Assumptions, Schedule!OneToOne
  <2>4. /\ proc' = [proc EXCEPT ![p] = e] /\ e \in ScheduleEntries
        /\ proc'[p] = e /\ \A o \in Procs \ {p} : proc'[o] = proc[o]
      BY <1>1, <2>1 DEF EntryHolds, Schedule!Go
  <2>5. schedules[key] \in Schedule!Schedules BY <1>4 DEF ScheduleInv, ScheduleTyped
  <2>6. /\ DOMAIN schedules' = DOMAIN schedules
        /\ \A r \in DOMAIN schedules : r # key => schedules'[r] = schedules[r]
      BY <1>4
  <2>7. /\ schedules'[key] \in Schedule!Schedules /\ schedules'[key].link = row.link
        /\ schedules'[key].name = schedules[key].name
        /\ schedules'[key].task = schedules[key].task
        /\ schedules'[key].timing = schedules[key].timing
        /\ schedules'[key].enabled = schedules[key].enabled
    <3>1. schedules'[key] = [schedules[key] EXCEPT !.link = row.link] BY <1>4
    <3> QED BY <1>2, <2>5, <3>1 DEF Schedule!Schedules
  <2>8. \A a \in alone : a = p /\ \A o \in Procs \ {p} : proc[o].at = "idle" BY <1>1, OnlyOneAlone
  <2>9. key \notin exact BY <1>1 DEF ScheduleInv, ExactKept
  <2>10. ScheduleTyped'
    <3>1. proc' \in [Procs -> ScheduleEntries] /\ \A o \in Procs : EntryHolds(proc'[o])
        BY <1>1, <2>1, <2>4 DEF ScheduleInv, ScheduleTyped
    <3>2. \A r \in DOMAIN schedules' :
            /\ schedules'[r] \in Schedule!Schedules
            /\ schedules'[r].link # None => schedules'[r].link \in DOMAIN periodic
        BY <2>3, <2>6, <2>7 DEF ScheduleInv, ScheduleTyped
    <3> HIDE DEF row, key
    <3> QED BY <1>4, <2>2, <2>6, <3>1, <3>2 DEF ScheduleInv, ScheduleTyped
  <2>11. TitlesKept' BY <2>1, <2>2, <2>4, <2>6, <2>7 DEF ScheduleInv, TitlesKept, Writing
  <2>12. OneSchedule' BY <2>6, <2>7 DEF ScheduleInv, OneSchedule
  <2>13. OnePeriodic' BY <2>2 DEF ScheduleInv, OnePeriodic
  <2>14. KeysKept' BY <2>1, <2>2, <2>4, <2>6, <2>7 DEF ScheduleInv, KeysKept, Writing
  <2>15. LinksKept'
    <3>1. directs = 0 => periodic[row.link].task = schedules[key].task
      <4>1. key # None
          BY <1>2, OperationsAssumption DEF Assumptions, Schedule!Assumptions
      <4> QED BY <1>1, <2>3, <4>1 DEF ScheduleInv, LinksKept, LeadsTo, KeysKept, Writing
    <3> HIDE DEF row, key
    <3> QED BY <2>1, <2>2, <2>3, <2>4, <2>6, <2>7, <3>1 DEF ScheduleInv, LinksKept, LeadsTo, Writing
  <2>16. AloneKept' BY <2>1, <2>2, <2>4, <2>8 DEF AloneKept
  <2>17. ExactKept'
    <3>1. exact \subseteq DOMAIN schedules BY DEF ScheduleInv, ScheduleTyped
    <3> QED BY <2>1, <2>2, <2>4, <2>6, <2>8, <2>9, <3>1 DEF ScheduleInv, ExactKept
  <2>18. Schedule!MirrorFollows'
    <3>1. p \in alone => /\ Schedule!Mirror(schedules[key]) = Schedule!Mirror(row)
                         /\ periodic[row.link] = Schedule!Mirror(row)
        BY <1>1 DEF ScheduleInv, AloneKept
    <3>2. Schedule!Mirror(schedules'[key]) = Schedule!Mirror(schedules[key])
        BY <2>7 DEF Schedule!Mirror
    <3>3. ASSUME NEW r \in exact'
          PROVE  schedules'[r].link # None
                 /\ periodic'[schedules'[r].link] = Schedule!Mirror(schedules'[r])
      <4>1. CASE r = key BY <2>2, <2>3, <2>7, <2>9, <3>1, <3>2, <4>1
      <4>2. CASE r # key
        <5>1. r \in exact /\ r \in DOMAIN schedules
            BY <2>2, <4>2 DEF ScheduleInv, ScheduleTyped
        <5> QED BY <2>2, <2>6, <4>2, <5>1 DEF ScheduleInv, Schedule!MirrorFollows
      <4> QED BY <4>1, <4>2
    <3> QED BY <3>3 DEF Schedule!MirrorFollows, Schedule!Mirror
  <2> QED BY <2>10, <2>11, <2>12, <2>13, <2>14, <2>15, <2>16, <2>17, <2>18 DEF ScheduleInv
<1> QED BY <1>3, <1>4 DEF Schedule!LinkSchedule

\* A write by the API, the admin or beat's admin ends what was known of
\* requests that are alone, and of pages that are the only ones to write.
LEMMA DirectEnds ==
    ASSUME ScheduleInv, Schedule!Direct
    PROVE  /\ alone' = {} /\ directs' # 0 /\ directs' \in 0..MaxDirect /\ writes' \in 0..MaxWrites
           /\ TitlesKept' /\ KeysKept' /\ LinksKept' /\ AloneKept'
<1>1. /\ directs \in 0..MaxDirect /\ writes \in 0..MaxWrites /\ MaxWrites \in Nat
      /\ MaxDirect \in Nat
    BY OperationsAssumption DEF Assumptions, Schedule!Assumptions, ScheduleInv, ScheduleTyped
<1>2. alone' = {} /\ directs' # 0 /\ directs' \in 0..MaxDirect /\ writes' \in 0..MaxWrites
    BY <1>1 DEF Schedule!Direct
<1> QED BY <1>2 DEF TitlesKept, KeysKept, LinksKept, AloneKept

\* The API and the admin save a schedule, which is a request of its own.
LEMMA EditScheduleStep ==
    ASSUME ScheduleInv, NEW p \in Procs, Schedule!EditSchedule(p)
    PROVE  ScheduleInv'
<1>1. PICK e : /\ Schedule!Go(p, e) /\ EntryHolds(e) /\ e.at = "save"
  <2>1. CASE \E t \in Tasks, name \in Schedule!Titles :
                Schedule!Go(p, [Schedule!Idle EXCEPT !.at = "save", !.kind = "direct",
                     !.new = [Schedule!Fresh(t, [cron |-> TRUE, every |-> Schedule!AnyInterval], TRUE)
                                EXCEPT !.name = name]])
    <3>1. PICK t \in Tasks, name \in Schedule!Titles :
                Schedule!Go(p, [Schedule!Idle EXCEPT !.at = "save", !.kind = "direct",
                     !.new = [Schedule!Fresh(t, [cron |-> TRUE, every |-> Schedule!AnyInterval], TRUE)
                                EXCEPT !.name = name]])
        BY <2>1
    <3> DEFINE new == [Schedule!Fresh(t, [cron |-> TRUE, every |-> Schedule!AnyInterval], TRUE)
                         EXCEPT !.name = name]
               e == [Schedule!Idle EXCEPT !.at = "save", !.kind = "direct", !.new = new]
    <3>2. Schedule!AnyInterval \in Intervals
        BY DEF Schedule!AnyInterval, Schedule!Settings, ScheduleInv, ScheduleTyped
    <3>3. new \in Schedule!Schedules
        BY <3>2 DEF Schedule!Schedules, Schedule!Fresh, Schedule!Timings, Schedule!Titles
    <3>4. Schedule!Go(p, e) BY <3>1
    <3> HIDE DEF new
    <3>5. EntryHolds(e) /\ e.at = "save"
        BY <3>3 DEF EntryHolds, ScheduleEntries, Schedule!Idle
    <3> QED BY <3>4, <3>5
  <2>2. CASE \E r \in DOMAIN schedules :
            \E new \in {[schedules[r] EXCEPT !.name = name] : name \in Schedule!Titles}
                         \cup {[schedules[r] EXCEPT !.enabled = FALSE]} :
              Schedule!Go(p, [Schedule!Idle EXCEPT !.at = "save", !.kind = "direct",
                                                   !.key = r, !.new = new])
    <3>0. PICK r \in DOMAIN schedules :
            \E new \in {[schedules[r] EXCEPT !.name = name] : name \in Schedule!Titles}
                         \cup {[schedules[r] EXCEPT !.enabled = FALSE]} :
              Schedule!Go(p, [Schedule!Idle EXCEPT !.at = "save", !.kind = "direct",
                                                   !.key = r, !.new = new])
        BY <2>2
    <3>1. PICK new \in {[schedules[r] EXCEPT !.name = name] : name \in Schedule!Titles}
                         \cup {[schedules[r] EXCEPT !.enabled = FALSE]} :
              Schedule!Go(p, [Schedule!Idle EXCEPT !.at = "save", !.kind = "direct",
                                                   !.key = r, !.new = new])
        BY <3>0
    <3> DEFINE e == [Schedule!Idle EXCEPT !.at = "save", !.kind = "direct",
                                          !.key = r, !.new = new]
    <3>2. schedules[r] \in Schedule!Schedules /\ r \in Rows BY DEF ScheduleInv, ScheduleTyped
    <3>3. new \in Schedule!Schedules BY <3>2 DEF Schedule!Schedules
    <3>4. Schedule!Go(p, e) BY <3>1
    <3>5. EntryHolds(e) /\ e.at = "save"
        BY <3>2, <3>3 DEF EntryHolds, ScheduleEntries, Schedule!Idle
    <3> QED BY <3>4, <3>5
  <2> QED BY <2>1, <2>2 DEF Schedule!EditSchedule
<1>2. Schedule!Direct /\ UNCHANGED <<schedules, periodic, setting, exact, sent>>
    BY DEF Schedule!EditSchedule
<1>3. setting \in Schedule!Settings /\ sent \in Schedule!Settings
    BY DEF ScheduleInv, ScheduleTyped
<1> QED BY <1>1, <1>2, <1>3, DirectEnds, RequestGoesOn

\* The admin saves the row of the settings.
LEMMA EditSettingsStep ==
    ASSUME ScheduleInv, Schedule!EditSettings
    PROVE  ScheduleInv'
<1>1. Schedule!Direct /\ UNCHANGED <<schedules, periodic, proc, exact, sent>>
    BY DEF Schedule!EditSettings
<1>2. setting' \in Schedule!Settings
    BY DEF Schedule!EditSettings, ScheduleInv, ScheduleTyped, Schedule!Settings
<1>3. ScheduleTyped' BY <1>1, <1>2, DirectEnds DEF ScheduleInv, ScheduleTyped
<1>4. OneSchedule' /\ OnePeriodic' /\ ExactKept'
    BY <1>1 DEF ScheduleInv, OneSchedule, OnePeriodic, ExactKept
<1>5. Schedule!MirrorFollows'
    BY <1>1 DEF ScheduleInv, Schedule!MirrorFollows, Schedule!Mirror
<1> QED BY <1>1, <1>3, <1>4, <1>5, DirectEnds DEF ScheduleInv

\* The API, the admin or beat's admin deletes rows or switches a task: the
\* schedules that were in order and are touched leave exact.
LEMMA RowsAreTouched ==
    ASSUME ScheduleInv, Schedule!Direct, UNCHANGED <<setting, proc, sent>>,
           DOMAIN schedules' \subseteq DOMAIN schedules,
           \A r \in DOMAIN schedules' : schedules'[r] = schedules[r]
                                        /\ (schedules[r].link # None =>
                                              schedules[r].link \in DOMAIN periodic'),
           DOMAIN periodic' \subseteq DOMAIN periodic,
           \A q \in DOMAIN periodic' : /\ periodic'[q] \in Schedule!Periodics
                                       /\ periodic'[q].name = periodic[q].name,
           exact' \subseteq exact \cap DOMAIN schedules',
           \A r \in exact' : periodic'[schedules[r].link] = periodic[schedules[r].link]
    PROVE  ScheduleInv'
<1>1. ScheduleTyped' BY DirectEnds DEF ScheduleInv, ScheduleTyped
<1>2. OneSchedule' /\ OnePeriodic' BY DEF ScheduleInv, OneSchedule, OnePeriodic
<1>3. ExactKept' BY DEF ScheduleInv, ExactKept
<1>4. Schedule!MirrorFollows'
  <2>1. \A r \in exact' : /\ schedules[r].link # None
                          /\ periodic[schedules[r].link] = Schedule!Mirror(schedules[r])
      BY DEF ScheduleInv, Schedule!MirrorFollows
  <2>2. \A r \in exact' : /\ schedules'[r].link # None
                          /\ periodic'[schedules'[r].link] = Schedule!Mirror(schedules'[r])
      BY <2>1
  <2> QED BY <2>2 DEF Schedule!MirrorFollows, Schedule!Mirror
<1> QED BY <1>1, <1>2, <1>3, <1>4, DirectEnds DEF ScheduleInv

\* Schedules and periodic tasks are deleted, or a task is switched.
LEMMA DirectSteps ==
    ASSUME ScheduleInv, NEW r \in Rows,
           Schedule!DeleteSchedule(r) \/ Schedule!EditPeriodic(r) \/ Schedule!DeletePeriodic(r)
    PROVE  ScheduleInv'
<1>1. Schedule!Direct /\ UNCHANGED <<setting, proc, sent>>
    BY DEF Schedule!DeleteSchedule, Schedule!EditPeriodic, Schedule!DeletePeriodic,
           Schedule!DirectStep
<1>2. /\ exact \subseteq DOMAIN schedules
      /\ \A q \in DOMAIN periodic : periodic[q] \in Schedule!Periodics
      /\ \A s \in DOMAIN schedules :
           schedules[s].link # None => schedules[s].link \in DOMAIN periodic
    BY DEF ScheduleInv, ScheduleTyped
<1>3. CASE Schedule!DeleteSchedule(r)
  <2>1. /\ DOMAIN schedules' = DOMAIN schedules \ {r} /\ exact' = exact \ {r}
        /\ \A s \in DOMAIN schedules' : schedules'[s] = schedules[s]
        /\ periodic' = periodic
      BY <1>3 DEF Schedule!DeleteSchedule, Schedule!Without
  <2> QED BY <1>1, <1>2, <2>1, RowsAreTouched
<1>4. CASE Schedule!EditPeriodic(r)
  <2>1. /\ schedules' = schedules /\ exact' = exact \ Schedule!Linked(r) /\ r \in DOMAIN periodic
        /\ periodic' = [periodic EXCEPT ![r].enabled = ~@]
      BY <1>4 DEF Schedule!EditPeriodic, Schedule!DirectStep
  <2>2. /\ DOMAIN periodic' = DOMAIN periodic
        /\ \A q \in DOMAIN periodic : q # r => periodic'[q] = periodic[q]
      BY <2>1
  <2>3. periodic'[r] \in Schedule!Periodics /\ periodic'[r].name = periodic[r].name
    <3>1. periodic'[r] = [periodic[r] EXCEPT !.enabled = ~@] BY <2>1
    <3> QED BY <1>2, <2>1, <3>1 DEF Schedule!Periodics
  <2>4. \A s \in exact' : schedules[s].link # None /\ schedules[s].link # r
                          /\ schedules[s].link \in DOMAIN periodic
      BY <1>2, <2>1 DEF Schedule!Linked, ScheduleInv, Schedule!MirrorFollows
  <2>5. \A s \in exact' : periodic'[schedules[s].link] = periodic[schedules[s].link]
      BY <2>2, <2>4
  <2>6. /\ \A q \in DOMAIN periodic' : /\ periodic'[q] \in Schedule!Periodics
                                       /\ periodic'[q].name = periodic[q].name
        /\ exact' \subseteq exact \cap DOMAIN schedules
      BY <1>2, <2>1, <2>2, <2>3
  <2>7. DOMAIN schedules' = DOMAIN schedules
        /\ \A s \in DOMAIN schedules' : schedules'[s] = schedules[s]
      BY <2>1
  <2> QED BY <1>1, <1>2, <2>2, <2>5, <2>6, <2>7, RowsAreTouched
<1>5. CASE Schedule!DeletePeriodic(r)
  <2>1. /\ DOMAIN schedules' = DOMAIN schedules \ Schedule!Linked(r)
        /\ DOMAIN periodic' = DOMAIN periodic \ {r}
        /\ exact' = exact \ Schedule!Linked(r)
        /\ \A s \in DOMAIN schedules' : schedules'[s] = schedules[s]
        /\ \A q \in DOMAIN periodic' : periodic'[q] = periodic[q]
      BY <1>5 DEF Schedule!DeletePeriodic, Schedule!Without
  <2>2. \A s \in DOMAIN schedules' : schedules[s].link # r
      BY <2>1 DEF Schedule!Linked
  <2>3. \A s \in exact' : schedules[s].link \in DOMAIN periodic'
      BY <1>2, <2>1, <2>2 DEF ScheduleInv, Schedule!MirrorFollows
  <2> QED BY <1>1, <1>2, <2>1, <2>2, <2>3, RowsAreTouched
<1> QED BY <1>3, <1>4, <1>5

\* The first states, in which there is no row.
LEMMA ScheduleInit ==
    ASSUME Schedule!Init PROVE ScheduleInv
<1>1. /\ DOMAIN schedules = {} /\ DOMAIN periodic = {} /\ exact = {} /\ alone = {}
      /\ writes = 0 /\ directs = 0 /\ sent = setting /\ proc = [p \in Procs |-> Schedule!Idle]
    BY DEF Schedule!Init
<1>2. MaxWrites \in Nat /\ MaxDirect \in Nat
    BY OperationsAssumption DEF Assumptions, Schedule!Assumptions
<1>3. setting \in Schedule!Settings BY DEF Schedule!Init, Schedule!Settings
<1>4. \A p \in Procs : ~Writing(p) BY <1>1, IdleHolds DEF Writing
<1>5. ScheduleTyped BY <1>1, <1>2, <1>3, IdleHolds DEF ScheduleTyped, EntryHolds
<1>6. TitlesKept /\ OneSchedule /\ OnePeriodic /\ KeysKept /\ LinksKept
    BY <1>1, <1>4 DEF TitlesKept, OneSchedule, OnePeriodic, KeysKept, LinksKept
<1>7. AloneKept /\ ExactKept /\ Schedule!MirrorFollows
    BY <1>1 DEF AloneKept, ExactKept, Schedule!MirrorFollows
<1> QED BY <1>5, <1>6, <1>7 DEF ScheduleInv

\* Every step.
LEMMA ScheduleNext ==
    ASSUME ScheduleInv, Schedule!Next PROVE ScheduleInv'
<1>1. CASE \E p \in {q \in Procs : proc[q].at = "idle"} : Schedule!Open(p)
  <2> PICK p \in Procs : Schedule!Open(p) BY <1>1
  <2> QED BY OpenSettingsStep, BootstrapStep, OpenPageStep, EditScheduleStep DEF Schedule!Open
<1>2. CASE \E p \in Procs : \/ Schedule!Section(p) \/ Schedule!Get(p) \/ Schedule!SaveSchedule(p)
                            \/ Schedule!Sync(p) \/ Schedule!LinkSchedule(p)
    BY <1>2, SectionStep, GetStep, SaveScheduleStep, SyncStep, LinkScheduleStep
<1>3. CASE Schedule!EditSettings BY <1>3, EditSettingsStep
<1>4. CASE \E r \in Rows : \/ Schedule!DeleteSchedule(r) \/ Schedule!EditPeriodic(r)
                           \/ Schedule!DeletePeriodic(r)
    BY <1>4, DirectSteps
<1> QED BY <1>1, <1>2, <1>3, <1>4 DEF Schedule!Next

\* No step, or one of another component.
LEMMA ScheduleStutter ==
    ASSUME ScheduleInv, UNCHANGED Schedule!vars PROVE ScheduleInv'
BY DEF ScheduleInv, ScheduleTyped, TitlesKept, OneSchedule, OnePeriodic, KeysKept, LinksKept,
       LeadsTo, Writing, AloneKept, ExactKept, Schedule!MirrorFollows, Schedule!Mirror,
       Schedule!vars

\* Together: what holds of the schedules in every state.
LEMMA ScheduleAlways == Spec => [](part = "schedule" => ScheduleInv)
<1>1. Init => (part = "schedule" => ScheduleInv) BY ScheduleInit DEF Init
<1>2. (part = "schedule" => ScheduleInv) /\ [Next]_vars => (part = "schedule" => ScheduleInv)'
  <2> SUFFICES ASSUME part = "schedule" => ScheduleInv, [Next]_vars, part' = "schedule"
               PROVE  ScheduleInv'
      OBVIOUS
  <2>1. CASE Next /\ part = "schedule" BY <2>1, ScheduleNext DEF Next
  <2>2. CASE Next /\ part # "schedule" BY <2>2 DEF Next
  <2>3. CASE UNCHANGED vars BY <2>3, ScheduleStutter DEF vars, scheduleVars, Schedule!vars
  <2> QED BY <2>1, <2>2, <2>3
<1> QED BY <1>1, <1>2, PTL DEF Spec

\* A schedule that a page or the bootstrap command has written alone has a
\* periodic task that says the same, until something writes either again.
THEOREM MirrorAlwaysFollows == Spec => []MirrorFollows
<1>1. (part = "schedule" => ScheduleInv) => MirrorFollows BY DEF MirrorFollows, ScheduleInv
<1> QED BY <1>1, ScheduleAlways, PTL

\* Pages and commands never leave two schedules or two periodic tasks for one
\* task, and the list shows what the page edits.
THEOREM OneForEachTask == Spec => []OnePerTask
<1>1. ASSUME ScheduleInv PROVE Schedule!OnePerTask
  <2> SUFFICES ASSUME directs = 0
               PROVE  /\ \A q, r \in DOMAIN schedules :
                           schedules[q].task = schedules[r].task => q = r
                      /\ \A q, r \in DOMAIN periodic :
                           periodic[q].task = periodic[r].task => q = r
                      /\ \A t \in Tasks : Schedule!Listed(t) = Schedule!Edited(t)
      BY DEF Schedule!OnePerTask
  <2>1. \A q, r \in DOMAIN schedules : schedules[q].task = schedules[r].task => q = r
      BY <1>1 DEF ScheduleInv, TitlesKept, OneSchedule
  <2>2. \A q, r \in DOMAIN periodic : periodic[q].task = periodic[r].task => q = r
      BY <1>1 DEF ScheduleInv, TitlesKept, OnePeriodic
  <2>3. ASSUME NEW t \in Tasks PROVE Schedule!Listed(t) = Schedule!Edited(t)
    <3>1. \A r, s \in Schedule!OfTask(t) : r = s BY <2>1 DEF Schedule!OfTask
    <3>2. \A r \in Schedule!OfTask(t) : schedules[r].name = Title[t] /\ schedules[r].name \in Nat
        BY <1>1, OperationsAssumption
        DEF Schedule!OfTask, ScheduleInv, TitlesKept, ScheduleTyped, Schedule!Schedules,
            Schedule!Titles, Assumptions, Schedule!Assumptions
    <3>3. Schedule!Listed(t) = Schedule!OfTask(t) BY <3>1, <3>2 DEF Schedule!Listed
    <3>4. Schedule!Titled(Schedule!OfTask(t), t) = Schedule!OfTask(t)
        BY <3>2 DEF Schedule!Titled
    <3>5. Schedule!Edited(t) = Schedule!OfTask(t)
        BY <3>4 DEF Schedule!Edited, Schedule!First
    <3> QED BY <3>3, <3>5
  <2> QED BY <2>1, <2>2, <2>3
<1>2. (part = "schedule" => ScheduleInv) => OnePerTask BY <1>1 DEF OnePerTask
<1> QED BY <1>2, ScheduleAlways, PTL

\* The forms of the settings page and the end of a reachability run may overlap:
\* each section of the settings keeps what was last saved in it.
THEOREM SectionsAlwaysKept == Spec => []SectionsKept
<1> DEFINE Kept == part = "schedule" => ScheduleInv /\ Schedule!SectionsKept
<1>1. Init => Kept
  <2>1. Schedule!Init => Schedule!SectionsKept BY DEF Schedule!Init, Schedule!SectionsKept
  <2> QED BY <2>1, ScheduleInit DEF Init
<1>2. Kept /\ [Next]_vars => Kept'
  <2> SUFFICES ASSUME Kept, [Next]_vars, part' = "schedule" PROVE (ScheduleInv /\ Schedule!SectionsKept)'
      OBVIOUS
  <2>0. part = "schedule" /\ (Schedule!Next \/ UNCHANGED Schedule!vars)
      BY DEF Next, vars, scheduleVars, Schedule!vars
  <2>1. ScheduleInv' BY <2>0, ScheduleNext, ScheduleStutter
  <2>2. directs \in Nat /\ Schedule!SectionsKept BY <2>0 DEF ScheduleInv, ScheduleTyped
  <2>3. Schedule!SectionsKept'
    <3>1. CASE UNCHANGED <<setting, sent, directs>> BY <2>2, <3>1 DEF Schedule!SectionsKept
    <3>2. CASE Schedule!Direct BY <2>2, <3>2 DEF Schedule!Direct, Schedule!SectionsKept
    <3>3. ASSUME NEW p \in Procs, Schedule!Section(p) PROVE Schedule!SectionsKept'
        BY <2>2, <3>3 DEF Schedule!Section, Schedule!SaveSection, Schedule!SectionsKept
    <3>4. ASSUME NEW p \in Procs, Schedule!Open(p)
          PROVE  UNCHANGED <<setting, sent, directs>> \/ Schedule!Direct
        BY <3>4 DEF Schedule!Open, Schedule!OpenSettings, Schedule!Bootstrap, Schedule!OpenPage,
           Schedule!EditSchedule, Schedule!Starts
    <3>5. ASSUME NEW p \in Procs,
                 Schedule!Get(p) \/ Schedule!SaveSchedule(p) \/ Schedule!Sync(p) \/ Schedule!LinkSchedule(p)
          PROVE  UNCHANGED <<setting, sent, directs>>
      <4>1. Schedule!Get(p) => UNCHANGED <<setting, sent, directs>>
          BY DEF Schedule!Get, Schedule!GetTask, Schedule!Inserts, Schedule!Finds, Schedule!Raise
      <4>2. Schedule!SaveSchedule(p) => UNCHANGED <<setting, sent, directs>>
          BY DEF Schedule!SaveSchedule, Schedule!Raise
      <4>3. Schedule!Sync(p) => UNCHANGED <<setting, sent, directs>>
          BY DEF Schedule!Sync, Schedule!SyncRow, Schedule!SaveLinked, Schedule!LinkNamed,
             Schedule!Links, Schedule!Done, Schedule!Raise
      <4>4. Schedule!LinkSchedule(p) => UNCHANGED <<setting, sent, directs>>
          BY DEF Schedule!LinkSchedule, Schedule!Done, Schedule!Raise
      <4> QED BY <3>5, <4>1, <4>2, <4>3, <4>4
    <3>6. Schedule!EditSettings => Schedule!Direct BY DEF Schedule!EditSettings
    <3>7. ASSUME NEW r \in Rows, \/ Schedule!DeleteSchedule(r) \/ Schedule!EditPeriodic(r)
                                 \/ Schedule!DeletePeriodic(r)
          PROVE  Schedule!Direct
        BY <3>7 DEF Schedule!DeleteSchedule, Schedule!EditPeriodic, Schedule!DeletePeriodic,
           Schedule!DirectStep
    <3>8. CASE UNCHANGED Schedule!vars BY <3>1, <3>8 DEF Schedule!vars
    <3>9. CASE Schedule!Next BY <3>1, <3>2, <3>3, <3>4, <3>5, <3>6, <3>7, <3>9 DEF Schedule!Next
    <3> QED BY <2>0, <3>8, <3>9
  <2> QED BY <2>1, <2>3
<1>3. Kept => SectionsKept BY DEF SectionsKept
<1> QED BY <1>1, <1>2, <1>3, PTL DEF Spec

\* The type invariant of the schedules.
LEMMA ScheduleTypeOK == ASSUME ScheduleInv PROVE Schedule!TypeOK
BY DEF ScheduleInv, ScheduleTyped, Schedule!TypeOK, EntryHolds, ScheduleEntries

-----------------------------------------------------------------------------
(* Neighbours                                                               *)

CollectorEntries ==
    [at : {"idle", "upsert", "insert", "commit"}, tx : BOOLEAN, answered : SUBSET Protocols,
     report : SUBSET Entries, todo : SUBSET Entries, entry : SUBSET Entries,
     seen : SUBSET Rows, inserts : UNION {[S -> Entries] : S \in SUBSET Rows},
     deletes : SUBSET Rows, lost : BOOLEAN, done : BOOLEAN]

\* What is left to upsert, and the rows as a collection sees them.
Pending(e) == e.todo \cup IF e.at = "insert" THEN e.entry ELSE {}
Shown(e) == Neighbours!Over(e.inserts, Neighbours!Without(rows, e.deletes))

\* A collection under way, by itself.
RunHolds(e) ==
    /\ e \in CollectorEntries
    /\ e.report \subseteq Neighbours!Of(e.answered) /\ Pending(e) \subseteq e.report
    /\ e.at = "insert" => e.entry \cap e.todo = {} /\ \A f, g \in e.entry : f = g
    /\ \A r \in DOMAIN e.inserts : e.inserts[r] \in Neighbours!Of(e.answered)
    /\ DOMAIN e.inserts \subseteq e.seen
    /\ ~e.tx => DOMAIN e.inserts = {} /\ e.deletes = {}
    /\ e.at = "idle" => ~e.tx
    /\ e.deletes # {} \/ e.done => e.at = "commit" /\ e.todo = {}

\* The rows that it is going to insert have their ports, unless it knows better.
PortsThere(e, known) ==
    ~e.lost => /\ \A r \in DOMAIN e.inserts : e.inserts[r].port \in known
               /\ e.at = "insert" => \A f \in e.entry : f.port \in known

\* What it deletes is there, and of a protocol that answered.
DeletesThere(e) == \A r \in e.deletes : r \in DOMAIN rows /\ rows[r].protocol \in e.answered

\* One row for each neighbour, and no other.
OneEach(seen, table, neighbours) ==
    /\ seen \subseteq DOMAIN table
    /\ \A r \in seen : table[r] \in neighbours
    /\ \A f \in neighbours : \E r \in seen : table[r] = f
    /\ \A q, r \in seen : table[q] = table[r] => q = r

\* One that is alone has seen one row for each neighbour that it has upserted.
Straight(e, gone) ==
    /\ OneEach(e.seen, Shown(e), e.report \ Pending(e))
    /\ ~e.tx => e.seen \cap gone = {}
    /\ e.done => \A r \in DOMAIN Shown(e) : Shown(e)[r].protocol \in e.answered => r \in e.seen

NeighboursTyped ==
    /\ ports \subseteq Neighbours!Ports
    /\ DOMAIN rows \subseteq Rows
    /\ \A r \in DOMAIN rows : rows[r] \in Entries /\ rows[r].protocol \in Protocols
                              /\ rows[r].port \in ports
    /\ old \subseteq DOMAIN rows
    /\ collector \in [Procs -> CollectorEntries]
    /\ \A c \in Procs : RunHolds(collector[c])
    /\ runs \in 0..MaxRuns /\ exact \subseteq Protocols /\ alone \subseteq Procs

\* The rows of an exact protocol are nobody's business.
NobodyAsks == \A c \in Procs :
    collector[c].at # "idle" => collector[c].answered \cap exact = {}
KeysApart == \A c \in Procs :
    /\ DOMAIN collector[c].inserts \cap DOMAIN rows = {}
    /\ PortsThere(collector[c], ports) /\ DeletesThere(collector[c])
    /\ \A b \in Procs \ {c} :
         /\ DOMAIN collector[b].inserts \cap DOMAIN collector[c].inserts = {}
         /\ collector[b].deletes \cap collector[c].deletes = {}
AloneStraight == \A c \in alone :
    /\ \A b \in Procs \ {c} : collector[b].at = "idle"
    /\ collector[c].at # "idle" => Straight(collector[c], old)

NeighbourInv ==
    NeighboursTyped /\ NobodyAsks /\ KeysApart /\ AloneStraight /\ Neighbours!NeighboursFollow

\* A collection goes on to e and the rows stay.
LEMMA CollectionGoesOn ==
    ASSUME NeighbourInv, NEW c \in Procs, NEW e, RunHolds(e), Neighbours!Go(c, e),
           UNCHANGED <<ports, rows, heard>>, old' \subseteq old, exact' \subseteq exact,
           runs' \in 0..MaxRuns, alone' \subseteq Procs,
           e.at # "idle" => e.answered \cap exact' = {},
           DOMAIN e.inserts \cap DOMAIN rows = {}, PortsThere(e, ports), DeletesThere(e),
           \A b \in Procs \ {c} :
             /\ DOMAIN e.inserts \cap DOMAIN collector[b].inserts = {}
             /\ e.deletes \cap collector[b].deletes = {},
           \A a \in alone' : a = c /\ \A b \in Procs \ {c} : collector[b].at = "idle",
           c \in alone' /\ e.at # "idle" => Straight(e, old')
    PROVE  NeighbourInv'
<1> USE DEF NeighbourInv
<1>0. /\ collector' = [collector EXCEPT ![c] = e] /\ e \in CollectorEntries
      /\ collector \in [Procs -> CollectorEntries]
      /\ collector'[c] = e /\ \A b \in Procs \ {c} : collector'[b] = collector[b]
    BY DEF RunHolds, NeighboursTyped, Neighbours!Go
<1>1. NeighboursTyped'
  <2>1. collector' \in [Procs -> CollectorEntries] /\ \A b \in Procs : RunHolds(collector'[b])
      BY <1>0 DEF NeighboursTyped
  <2> QED BY <2>1 DEF NeighboursTyped
<1>2. NobodyAsks' BY <1>0 DEF NobodyAsks
<1>3. KeysApart' BY <1>0 DEF KeysApart, PortsThere, DeletesThere
<1>4. AloneStraight'
  <2>1. Straight(e, old') => Straight(collector[c], old)'
      BY <1>0 DEF Straight, Shown
  <2> QED BY <1>0, <2>1 DEF AloneStraight
<1>5. Neighbours!NeighboursFollow' BY DEF Neighbours!NeighboursFollow
<1> QED BY <1>1, <1>2, <1>3, <1>4, <1>5

\* A collection under way is the only one that can be alone.
LEMMA OnlyCollectionAlone ==
    ASSUME NeighbourInv, NEW c \in Procs, collector[c].at # "idle", NEW a \in alone
    PROVE  a = c /\ \A b \in Procs \ {c} : collector[b].at = "idle"
BY DEF NeighbourInv, AloneStraight

\* A collection that has not begun or has ended.
LEMMA NoCollection ==
    /\ RunHolds(Neighbours!Idle) /\ Neighbours!Idle.at = "idle"
    /\ DOMAIN Neighbours!Idle.inserts = {} /\ Neighbours!Idle.deletes = {}
    /\ PortsThere(Neighbours!Idle, ports) /\ DeletesThere(Neighbours!Idle)
<1>1. DOMAIN <<>> = {} /\ <<>> \in [{} -> Entries] OBVIOUS
<1>2. Neighbours!Idle.inserts \in UNION {[S -> Entries] : S \in SUBSET Rows}
    BY <1>1 DEF Neighbours!Idle
<1> QED BY <1>1, <1>2 DEF RunHolds, CollectorEntries, Neighbours!Idle, Pending, PortsThere, DeletesThere

\* A collection is given up.
LEMMA CollectionEnds ==
    ASSUME NeighbourInv, NEW c \in Procs, collector[c].at # "idle",
           Neighbours!Go(c, Neighbours!Idle),
           UNCHANGED <<ports, rows, old, runs, alone, exact, heard>>
    PROVE  NeighbourInv'
<1>1. \A a \in alone : a = c /\ \A b \in Procs \ {c} : collector[b].at = "idle"
    BY OnlyCollectionAlone
<1>2. old \subseteq old /\ exact \subseteq exact /\ runs \in 0..MaxRuns /\ alone \subseteq Procs
    BY DEF NeighbourInv, NeighboursTyped
<1> QED BY <1>1, <1>2, NoCollection, CollectionGoesOn

\* A collection begins.
LEMMA CollectStep ==
    ASSUME NeighbourInv, NEW c \in Procs, NEW tx \in BOOLEAN, Neighbours!Collect(c, tx)
    PROVE  NeighbourInv'
<1>0. PICK answered \in SUBSET Protocols : \E report \in SUBSET Neighbours!Of(answered) :
        /\ Neighbours!Go(c, [Neighbours!Idle EXCEPT !.at = "upsert", !.tx = tx,
                               !.answered = answered, !.report = report, !.todo = report])
        /\ exact' = exact \ answered
    BY DEF Neighbours!Collect
<1>1. PICK report \in SUBSET Neighbours!Of(answered) :
        /\ Neighbours!Go(c, [Neighbours!Idle EXCEPT !.at = "upsert", !.tx = tx,
                               !.answered = answered, !.report = report, !.todo = report])
        /\ exact' = exact \ answered
    BY <1>0
<1> DEFINE e == [Neighbours!Idle EXCEPT !.at = "upsert", !.tx = tx, !.answered = answered,
                                        !.report = report, !.todo = report]
<1>2. /\ runs < MaxRuns /\ runs' = runs + 1 /\ UNCHANGED <<ports, rows, old, heard>>
      /\ alone' = IF \A b \in Procs : collector[b].at = "idle" THEN {c} ELSE {}
    BY DEF Neighbours!Collect
<1>3. runs' \in 0..MaxRuns
    BY <1>2, OperationsAssumption
    DEF NeighbourInv, NeighboursTyped, Assumptions, Neighbours!Assumptions
<1>4. report \subseteq Entries BY DEF Neighbours!Of
<1>5. /\ e.at = "upsert" /\ e.answered = answered /\ e.report = report /\ e.todo = report
      /\ e.seen = {} /\ e.inserts = Neighbours!Idle.inserts /\ e.deletes = {} /\ e.tx = tx
      /\ e.done = FALSE
    BY DEF Neighbours!Idle
<1>6. e \in CollectorEntries
    BY <1>4, NoCollection DEF CollectorEntries, Neighbours!Idle, RunHolds
<1>7. Neighbours!Go(c, e) BY <1>1
<1> HIDE DEF e
<1>8. RunHolds(e) BY <1>4, <1>5, <1>6, NoCollection DEF RunHolds, Pending
<1>9. Straight(e, old') BY <1>5, NoCollection DEF Straight, OneEach, Pending
<1>10. /\ PortsThere(e, ports) /\ DeletesThere(e) /\ DOMAIN e.inserts = {}
    BY <1>5, NoCollection DEF PortsThere, DeletesThere
<1> QED BY <1>1, <1>2, <1>3, <1>5, <1>7, <1>8, <1>9, <1>10, CollectionGoesOn

\* A collection goes on to an entry with the same rows to insert and to delete.
LEMMA SameWrites ==
    ASSUME NeighbourInv, NEW c \in Procs, collector[c].at # "idle", NEW e, RunHolds(e),
           Neighbours!Go(c, e), e.answered = collector[c].answered,
           e.inserts = collector[c].inserts, e.deletes = collector[c].deletes,
           PortsThere(e, ports), old' \subseteq old,
           UNCHANGED <<ports, rows, runs, alone, exact, heard>>,
           c \in alone /\ Straight(collector[c], old) => Straight(e, old')
    PROVE  NeighbourInv'
<1>1. \A a \in alone : a = c /\ \A b \in Procs \ {c} : collector[b].at = "idle"
    BY OnlyCollectionAlone
<1>2. runs \in 0..MaxRuns /\ alone \subseteq Procs BY DEF NeighbourInv, NeighboursTyped
<1>3. collector[c].answered \cap exact = {} BY DEF NeighbourInv, NobodyAsks
<1>4. /\ DOMAIN e.inserts \cap DOMAIN rows = {} /\ DeletesThere(e)
      /\ \A b \in Procs \ {c} :
           /\ DOMAIN e.inserts \cap DOMAIN collector[b].inserts = {}
           /\ e.deletes \cap collector[b].deletes = {}
    BY DEF NeighbourInv, KeysApart, DeletesThere
<1>5. c \in alone => Straight(collector[c], old) BY DEF NeighbourInv, AloneStraight
<1> QED BY <1>1, <1>2, <1>3, <1>4, <1>5, CollectionGoesOn

\* An entry on a port that is not known is skipped.
LEMMA SkipStep ==
    ASSUME NeighbourInv, NEW c \in Procs, collector[c].at = "upsert",
           NEW f \in collector[c].todo, Neighbours!Skip(c, f),
           UNCHANGED <<ports, rows, runs, alone, exact, heard>>
    PROVE  NeighbourInv'
<1> DEFINE e0 == collector[c]
           e == [e0 EXCEPT !.report = @ \ {f}, !.todo = @ \ {f}]
<1>1. RunHolds(e0) /\ e0 \in CollectorEntries /\ PortsThere(e0, ports)
    BY DEF NeighbourInv, NeighboursTyped, KeysApart
<1>2. /\ e.at = "upsert" /\ e.tx = e0.tx /\ e.answered = e0.answered /\ e.report = e0.report \ {f}
      /\ e.todo = e0.todo \ {f} /\ e.entry = e0.entry /\ e.seen = e0.seen
      /\ e.inserts = e0.inserts /\ e.deletes = e0.deletes /\ e.lost = e0.lost /\ e.done = e0.done
    BY <1>1 DEF CollectorEntries
<1>3. Neighbours!Go(c, e) /\ old' = old BY DEF Neighbours!Skip
<1>4. e \in CollectorEntries BY <1>1 DEF CollectorEntries
<1> HIDE DEF e, e0
<1>5. e0.at = "upsert" BY DEF e0
<1>6. RunHolds(e) BY <1>1, <1>2, <1>4, <1>5 DEF RunHolds, Pending
<1>7. Straight(e0, old) => Straight(e, old')
  <2>1. Shown(e) = Shown(e0) BY <1>2 DEF Shown
  <2>2. e.report \ Pending(e) = e0.report \ Pending(e0) BY <1>2, <1>5 DEF Pending, e0
  <2> QED BY <1>2, <1>3, <2>1, <2>2 DEF Straight
<1>8. PortsThere(e, ports) BY <1>1, <1>2, <1>5 DEF PortsThere
<1> QED BY <1>2, <1>3, <1>5, <1>6, <1>7, <1>8, SameWrites DEF e0

\* A neighbour that has no row yet is about to get one.
LEMMA MissesStep ==
    ASSUME NeighbourInv, NEW c \in Procs, collector[c].at = "upsert",
           NEW f \in collector[c].todo, Neighbours!Misses(c, f),
           UNCHANGED <<ports, rows, runs, alone, exact, heard>>
    PROVE  NeighbourInv'
<1> DEFINE e0 == collector[c]
           e == [e0 EXCEPT !.at = "insert", !.entry = {f}, !.todo = @ \ {f}]
<1>1. RunHolds(e0) /\ e0 \in CollectorEntries /\ PortsThere(e0, ports)
    BY DEF NeighbourInv, NeighboursTyped, KeysApart
<1>2. /\ e.at = "insert" /\ e.tx = e0.tx /\ e.answered = e0.answered /\ e.report = e0.report
      /\ e.todo = e0.todo \ {f} /\ e.entry = {f} /\ e.seen = e0.seen
      /\ e.inserts = e0.inserts /\ e.deletes = e0.deletes /\ e.lost = e0.lost /\ e.done = e0.done
    BY <1>1 DEF CollectorEntries
<1>3. Neighbours!Go(c, e) /\ old' = old /\ f.port \in ports BY DEF Neighbours!Misses, Neighbours!Known
<1>4. e \in CollectorEntries BY <1>1 DEF CollectorEntries
<1> HIDE DEF e, e0
<1>5. e0.at = "upsert" /\ f \in e0.todo BY DEF e0
<1>6. RunHolds(e) BY <1>1, <1>2, <1>4, <1>5 DEF RunHolds, Pending
<1>7. Straight(e0, old) => Straight(e, old')
  <2>1. Shown(e) = Shown(e0) BY <1>2 DEF Shown
  <2>2. Pending(e) = Pending(e0) BY <1>2, <1>5 DEF Pending
  <2> QED BY <1>2, <1>3, <2>1, <2>2 DEF Straight
<1>8. PortsThere(e, ports) BY <1>1, <1>2, <1>3, <1>5 DEF PortsThere
<1> QED BY <1>2, <1>3, <1>5, <1>6, <1>7, <1>8, SameWrites DEF e0

\* A neighbour has one row, which is seen again.
LEMMA UpdatesStep ==
    ASSUME NeighbourInv, NEW c \in Procs, collector[c].at = "upsert",
           NEW f \in collector[c].todo, NEW r, Neighbours!Updates(c, f, r),
           UNCHANGED <<ports, rows, runs, alone, exact, heard>>
    PROVE  NeighbourInv'
<1> DEFINE e0 == collector[c]
           e == [e0 EXCEPT !.seen = @ \cup {r}, !.todo = @ \ {f}]
<1>1. RunHolds(e0) /\ e0 \in CollectorEntries /\ PortsThere(e0, ports)
    BY DEF NeighbourInv, NeighboursTyped, KeysApart
<1>2. Neighbours!Go(c, e) /\ old' = (IF e0.tx THEN old ELSE old \ {r})
    BY DEF Neighbours!Updates
<1>3. r \in DOMAIN Shown(e0) /\ Shown(e0)[r] = f
    BY DEF Neighbours!Updates, Neighbours!Matches, Neighbours!Visible, Shown
<1>4. r \in Rows
    BY <1>1, <1>3 DEF Shown, Neighbours!Over, Neighbours!Without, CollectorEntries,
       NeighbourInv, NeighboursTyped
<1>5. /\ e.at = e0.at /\ e.tx = e0.tx /\ e.answered = e0.answered /\ e.report = e0.report
      /\ e.todo = e0.todo \ {f} /\ e.entry = e0.entry /\ e.seen = e0.seen \cup {r}
      /\ e.inserts = e0.inserts /\ e.deletes = e0.deletes /\ e.lost = e0.lost /\ e.done = e0.done
    BY <1>1 DEF CollectorEntries
<1>6. e \in CollectorEntries BY <1>1, <1>4 DEF CollectorEntries
<1> HIDE DEF e, e0
<1>7. e0.at = "upsert" /\ f \in e0.todo BY DEF e0
<1>8. RunHolds(e) BY <1>1, <1>5, <1>6, <1>7 DEF RunHolds, Pending
<1>9. Straight(e0, old) => Straight(e, old')
  <2> SUFFICES ASSUME Straight(e0, old) PROVE Straight(e, old') OBVIOUS
  <2>1. Shown(e) = Shown(e0) BY <1>5 DEF Shown
  <2>2. Pending(e0) = e0.todo /\ Pending(e) = e0.todo \ {f} /\ f \in e0.report
      BY <1>1, <1>5, <1>7 DEF Pending, RunHolds
  <2>3. /\ OneEach(e0.seen, Shown(e0), e0.report \ e0.todo)
        /\ \A s \in e0.seen : Shown(e0)[s] # f
      BY <1>7, <2>2 DEF Straight, OneEach
  <2>4. OneEach(e.seen, Shown(e), e.report \ Pending(e))
      BY <1>3, <1>5, <2>1, <2>2, <2>3 DEF OneEach
  <2>6. ~e.done BY <1>1, <1>5, <1>7 DEF RunHolds
  <2> QED BY <1>2, <1>3, <1>5, <2>1, <2>4, <2>6 DEF Straight
<1>10. PortsThere(e, ports) BY <1>1, <1>5 DEF PortsThere
<1> QED BY <1>2, <1>5, <1>7, <1>8, <1>9, <1>10, SameWrites DEF e0

\* An exception: a synchronization goes on to commit.
LEMMA AbortStep ==
    ASSUME NeighbourInv, NEW c \in Procs, collector[c].at = "upsert" \/ ~collector[c].tx,
           collector[c].at # "idle", Neighbours!Abort(c),
           UNCHANGED <<ports, rows, old, runs, alone, exact, heard>>
    PROVE  NeighbourInv'
<1> DEFINE e0 == collector[c]
           e == [e0 EXCEPT !.at = "commit"]
<1>1. RunHolds(e0) /\ e0 \in CollectorEntries /\ PortsThere(e0, ports)
    BY DEF NeighbourInv, NeighboursTyped, KeysApart
<1>2. CASE ~e0.tx
  <2>1. Neighbours!Go(c, Neighbours!Idle) BY <1>2 DEF Neighbours!Abort
  <2> QED BY <2>1, CollectionEnds
<1>3. CASE e0.tx
  <2>1. Neighbours!Go(c, e) BY <1>3 DEF Neighbours!Abort
  <2>2. /\ e.at = "commit" /\ e.tx = e0.tx /\ e.answered = e0.answered /\ e.report = e0.report
        /\ e.todo = e0.todo /\ e.entry = e0.entry /\ e.seen = e0.seen
        /\ e.inserts = e0.inserts /\ e.deletes = e0.deletes /\ e.lost = e0.lost /\ e.done = e0.done
      BY <1>1 DEF CollectorEntries
  <2>3. e \in CollectorEntries BY <1>1 DEF CollectorEntries
  <2>4. e0.at = "upsert" BY <1>3
  <2> HIDE DEF e, e0
  <2>5. RunHolds(e) BY <1>1, <2>2, <2>3, <2>4 DEF RunHolds, Pending
  <2>6. Straight(e0, old) => Straight(e, old')
    <3>1. Shown(e) = Shown(e0) BY <2>2 DEF Shown
    <3>2. Pending(e) = Pending(e0) BY <2>2, <2>4 DEF Pending
    <3> QED BY <2>2, <3>1, <3>2 DEF Straight
  <2>7. PortsThere(e, ports) BY <1>1, <2>2 DEF PortsThere
  <2> QED BY <2>1, <2>2, <2>4, <2>5, <2>6, <2>7, SameWrites DEF e0
<1> QED BY <1>2, <1>3


\* One more neighbour is seen, in a row of its own.
LEMMA OneMoreSeen ==
    ASSUME NEW table, NEW more, NEW seen, NEW report, NEW left, NEW f \in left,
           left \subseteq report, NEW r, r \notin DOMAIN table,
           DOMAIN more = {r} \cup DOMAIN table, more[r] = f,
           \A q \in DOMAIN table : more[q] = table[q],
           OneEach(seen, table, report \ left)
    PROVE  OneEach(seen \cup {r}, more, report \ (left \ {f}))
<1>1. \A s \in seen : s \in DOMAIN table /\ more[s] = table[s] /\ s # r /\ more[s] # f
    BY DEF OneEach
<1> QED BY <1>1 DEF OneEach

\* A row of an exact protocol is not written to by a collection under way.
LEMMA InsertInTransaction ==
    ASSUME NeighbourInv, NEW c \in Procs, collector[c].at = "insert", collector[c].tx,
           NEW f \in collector[c].entry, NEW r \in Neighbours!Free, Neighbours!Inserts(c, f, r),
           UNCHANGED <<ports, old, runs, alone, exact, heard>>
    PROVE  NeighbourInv'
<1> DEFINE e0 == collector[c]
           e == [e0 EXCEPT !.at = "upsert", !.seen = @ \cup {r},
                           !.inserts = IF e0.tx THEN Neighbours!Put(e0.inserts, r, f) ELSE @]
<1>1. /\ RunHolds(e0) /\ e0 \in CollectorEntries /\ PortsThere(e0, ports)
      /\ DOMAIN e0.inserts \cap DOMAIN rows = {} /\ DeletesThere(e0) /\ r \in Rows
      /\ r \notin DOMAIN rows /\ \A b \in Procs : r \notin DOMAIN collector[b].inserts
    BY DEF NeighbourInv, NeighboursTyped, KeysApart, Neighbours!Free
<1>2. /\ e.at = "upsert" /\ e.tx = e0.tx /\ e.answered = e0.answered /\ e.report = e0.report
      /\ e.todo = e0.todo /\ e.entry = e0.entry /\ e.seen = e0.seen \cup {r}
      /\ e.inserts = Neighbours!Put(e0.inserts, r, f) /\ e.deletes = e0.deletes
      /\ e.lost = e0.lost /\ e.done = e0.done
    BY <1>1 DEF CollectorEntries
<1>3. Neighbours!Go(c, e) /\ rows' = rows BY DEF Neighbours!Inserts
<1>4. f \in Entries BY <1>1 DEF CollectorEntries
<1>5. /\ DOMAIN e.inserts = {r} \cup DOMAIN e0.inserts /\ e.inserts[r] = f
      /\ \A q \in DOMAIN e0.inserts : e.inserts[q] = e0.inserts[q]
    BY <1>1, <1>2 DEF Neighbours!Put
<1>6. e \in CollectorEntries
  <2>1. /\ e0.inserts \in [DOMAIN e0.inserts -> Entries] /\ DOMAIN e0.inserts \subseteq Rows
      BY <1>1 DEF CollectorEntries
  <2>2. Neighbours!Put(e0.inserts, r, f) \in [{r} \cup DOMAIN e0.inserts -> Entries]
      BY <1>4, <2>1 DEF Neighbours!Put
  <2>3. Neighbours!Put(e0.inserts, r, f) \in UNION {[S -> Entries] : S \in SUBSET Rows}
      BY <1>1, <2>1, <2>2
  <2> QED BY <1>1, <2>3 DEF CollectorEntries
<1>7. e0.at = "insert" /\ e0.tx /\ f \in e0.entry BY DEF e0
<1>8. \A b \in Procs \ {c} :
         /\ DOMAIN e0.inserts \cap DOMAIN collector[b].inserts = {}
         /\ e0.deletes \cap collector[b].deletes = {}
    BY DEF NeighbourInv, KeysApart
<1> HIDE DEF e, e0
<1>9. /\ Pending(e0) = e0.todo \cup e0.entry /\ Pending(e) = Pending(e0) \ {f}
      /\ f \in Pending(e0) /\ Pending(e0) \subseteq e0.report
    BY <1>1, <1>2, <1>7 DEF Pending, RunHolds
<1>10. RunHolds(e)
  <2>1. f \in Neighbours!Of(e.answered) BY <1>1, <1>2, <1>9 DEF RunHolds
  <2>2. \A q \in DOMAIN e.inserts : e.inserts[q] \in Neighbours!Of(e.answered)
      BY <1>1, <1>2, <1>5, <2>1 DEF RunHolds
  <2> QED BY <1>1, <1>2, <1>5, <1>6, <1>7, <1>9, <2>2 DEF RunHolds
<1>11. PortsThere(e, ports) BY <1>1, <1>2, <1>5, <1>7 DEF PortsThere
<1>12. DeletesThere(e) BY <1>1, <1>2 DEF DeletesThere
<1>13. Straight(e0, old) => Straight(e, old')
  <2> SUFFICES ASSUME Straight(e0, old) PROVE Straight(e, old') OBVIOUS
  <2> DEFINE S == Shown(e0)
             T == Shown(e)
  <2>1. /\ DOMAIN S = DOMAIN e0.inserts \cup (DOMAIN rows \ e0.deletes)
        /\ DOMAIN T = DOMAIN e.inserts \cup (DOMAIN rows \ e0.deletes)
        /\ T[r] = f /\ \A q \in DOMAIN S : T[q] = S[q]
      BY <1>1, <1>2, <1>5 DEF Shown, Neighbours!Over, Neighbours!Without
  <2>2. DOMAIN T = {r} \cup DOMAIN S /\ r \notin DOMAIN S
      BY <1>1, <1>5, <2>1 DEF e0
  <2>4. OneEach(e0.seen, S, e0.report \ Pending(e0)) BY DEF Straight
  <2> HIDE DEF S, T
  <2>7. OneEach(e0.seen \cup {r}, T, e0.report \ (Pending(e0) \ {f}))
      BY <1>9, <2>1, <2>2, <2>4, OneMoreSeen
  <2>8. OneEach(e.seen, T, e.report \ Pending(e)) BY <1>2, <1>9, <2>7
  <2>3. ~e.done /\ e.tx BY <1>1, <1>2, <1>7 DEF RunHolds
  <2> QED BY <2>3, <2>8 DEF Straight, T
<1>14. /\ runs \in 0..MaxRuns /\ alone \subseteq Procs /\ e0.answered \cap exact = {}
       /\ c \in alone => Straight(e0, old)
    BY <1>7 DEF NeighbourInv, NeighboursTyped, NobodyAsks, AloneStraight, e0
<1>15. \A a \in alone : a = c /\ \A b \in Procs \ {c} : collector[b].at = "idle"
    BY OnlyCollectionAlone
<1>16. /\ DOMAIN e.inserts \cap DOMAIN rows = {}
       /\ \A b \in Procs \ {c} :
            /\ DOMAIN e.inserts \cap DOMAIN collector[b].inserts = {}
            /\ e.deletes \cap collector[b].deletes = {}
    BY <1>1, <1>2, <1>5, <1>8
<1> QED BY <1>2, <1>3, <1>10, <1>11, <1>12, <1>13, <1>14, <1>15, <1>16, CollectionGoesOn

\* Outside of a transaction a row is there at once.
LEMMA InsertDirectly ==
    ASSUME NeighbourInv, NEW c \in Procs, collector[c].at = "insert", ~collector[c].tx,
           ~collector[c].lost,
           NEW f \in collector[c].entry, NEW r \in Neighbours!Free, Neighbours!Inserts(c, f, r),
           UNCHANGED <<ports, old, runs, alone, exact, heard>>
    PROVE  NeighbourInv'
<1> DEFINE e0 == collector[c]
           e == [e0 EXCEPT !.at = "upsert", !.seen = @ \cup {r},
                           !.inserts = IF e0.tx THEN Neighbours!Put(e0.inserts, r, f) ELSE @]
<1> USE DEF NeighbourInv
<1>1. /\ RunHolds(e0) /\ e0 \in CollectorEntries /\ PortsThere(e0, ports)
      /\ DeletesThere(e0) /\ r \in Rows
      /\ r \notin DOMAIN rows /\ \A b \in Procs : r \notin DOMAIN collector[b].inserts
    BY DEF NeighboursTyped, KeysApart, Neighbours!Free
<1>2. /\ e.at = "upsert" /\ e.tx = e0.tx /\ e.answered = e0.answered /\ e.report = e0.report
      /\ e.todo = e0.todo /\ e.entry = e0.entry /\ e.seen = e0.seen \cup {r}
      /\ e.inserts = e0.inserts /\ e.deletes = e0.deletes
      /\ e.lost = e0.lost /\ e.done = e0.done
    BY <1>1 DEF CollectorEntries
<1>3. /\ collector' = [collector EXCEPT ![c] = e] /\ rows' = Neighbours!Put(rows, r, f)
      /\ collector \in [Procs -> CollectorEntries]
    BY DEF Neighbours!Inserts, Neighbours!Go, NeighboursTyped
<1>4. e \in CollectorEntries BY <1>1 DEF CollectorEntries
<1>5. e0.at = "insert" /\ ~e0.tx /\ f \in e0.entry /\ ~e0.lost BY DEF e0
<1>6. e0.answered \cap exact = {} /\ (c \in alone => Straight(e0, old))
    BY <1>5 DEF NobodyAsks, AloneStraight, e0
<1>7. collector'[c] = e /\ \A b \in Procs \ {c} : collector'[b] = collector[b]
    BY <1>3
<1> HIDE DEF e
<1>8. /\ DOMAIN rows' = {r} \cup DOMAIN rows /\ rows'[r] = f
      /\ \A q \in DOMAIN rows : rows'[q] = rows[q]
    BY <1>1, <1>3 DEF Neighbours!Put
<1>9. collector' \in [Procs -> CollectorEntries] BY <1>3, <1>4
<1> HIDE DEF e0
<1>10. /\ Pending(e0) = e0.todo \cup e0.entry /\ Pending(e) = Pending(e0) \ {f}
       /\ f \in Pending(e0) /\ Pending(e0) \subseteq e0.report
       /\ e0.inserts = e.inserts /\ DOMAIN e0.inserts = {} /\ e0.deletes = {}
    BY <1>1, <1>2, <1>5 DEF Pending, RunHolds
<1>11. /\ f \in Neighbours!Of(e0.answered) /\ f \in Entries /\ f.protocol \in e0.answered
       /\ f.port \in ports /\ e0.answered \subseteq Protocols
    BY <1>1, <1>5, <1>10 DEF RunHolds, PortsThere, Neighbours!Of, CollectorEntries
<1>12. RunHolds(e) BY <1>1, <1>2, <1>4, <1>5, <1>10 DEF RunHolds
<1>13. NeighboursTyped'
  <2>1. \A b \in Procs : RunHolds(collector'[b]) BY <1>7, <1>12 DEF NeighboursTyped
  <2>2. \A q \in DOMAIN rows' : rows'[q] \in Entries /\ rows'[q].protocol \in Protocols
                                /\ rows'[q].port \in ports
      BY <1>8, <1>11 DEF NeighboursTyped
  <2> QED BY <1>1, <1>8, <1>9, <2>1, <2>2 DEF NeighboursTyped
<1>14. NobodyAsks' BY <1>2, <1>6, <1>7 DEF NobodyAsks, e0
<1>15. KeysApart'
  <2>1. \A b \in Procs : /\ collector'[b].inserts = collector[b].inserts
                         /\ collector'[b].deletes = collector[b].deletes
                         /\ collector'[b].answered = collector[b].answered
      BY <1>2, <1>7 DEF e0
  <2>2. \A b \in Procs : DOMAIN collector'[b].inserts \cap DOMAIN rows' = {}
      BY <1>1, <1>8, <2>1 DEF KeysApart
  <2>3. \A b \in Procs : PortsThere(collector'[b], ports)
    <3>1. PortsThere(e, ports) BY <1>2, <1>10 DEF PortsThere
    <3> QED BY <1>7, <3>1 DEF KeysApart
  <2>4. \A b \in Procs : DeletesThere(collector[b])' 
      BY <1>8, <2>1 DEF KeysApart, DeletesThere
  <2> QED BY <2>1, <2>2, <2>3, <2>4 DEF KeysApart
<1>16. AloneStraight'
  <2>1. \A a \in alone : a = c /\ \A b \in Procs \ {c} : collector[b].at = "idle"
      BY <1>5, OnlyCollectionAlone DEF e0
  <2>2. ASSUME Straight(e0, old) PROVE Straight(collector[c], old)'
    <3> USE <2>2
    <3> DEFINE S == Shown(e0)
               T == Shown(collector[c])'
    <3>1. DOMAIN S = DOMAIN rows /\ \A q \in DOMAIN rows : S[q] = rows[q]
        BY <1>10 DEF Shown, Neighbours!Over, Neighbours!Without
    <3>2. DOMAIN T = DOMAIN rows' /\ \A q \in DOMAIN rows' : T[q] = rows'[q]
        BY <1>2, <1>7, <1>10 DEF Shown, Neighbours!Over, Neighbours!Without
    <3>3. OneEach(e0.seen, S, e0.report \ Pending(e0)) BY DEF Straight
    <3> HIDE DEF S, T
    <3>4. OneEach(e0.seen \cup {r}, T, e0.report \ (Pending(e0) \ {f}))
      <4>1. /\ r \notin DOMAIN S /\ DOMAIN T = {r} \cup DOMAIN S /\ T[r] = f
            /\ \A q \in DOMAIN S : T[q] = S[q]
          BY <1>1, <1>8, <3>1, <3>2
      <4> QED BY <1>10, <3>3, <4>1, OneMoreSeen
    <3>5. ~e.done /\ (e.seen \cap old' = {})
        BY <1>1, <1>2, <1>5, <2>2 DEF RunHolds, Straight, NeighboursTyped
    <3>6. OneEach(e.seen, T, e.report \ Pending(e)) BY <1>2, <1>10, <3>4
    <3>7. Pending(collector[c])' = Pending(e) BY <1>7 DEF Pending
    <3> QED BY <1>7, <3>5, <3>6, <3>7 DEF Straight, T
  <2> QED BY <1>6, <1>7, <2>1, <2>2 DEF AloneStraight
<1>17. Neighbours!NeighboursFollow'
  <2> SUFFICES ASSUME NEW p \in exact
               PROVE  LET R == {q \in DOMAIN rows' : rows'[q].protocol = p} IN
                      /\ {rows'[q] : q \in R} = {g \in heard : g.protocol = p}
                      /\ \A q, s \in R : rows'[q] = rows'[s] => q = s
      BY DEF Neighbours!NeighboursFollow
  <2>1. f.protocol # p BY <1>6, <1>11
  <2>2. {q \in DOMAIN rows' : rows'[q].protocol = p} = {q \in DOMAIN rows : rows[q].protocol = p}
      BY <1>8, <1>1, <2>1
  <2> QED BY <1>8, <2>2 DEF Neighbours!NeighboursFollow
<1> QED BY <1>13, <1>14, <1>15, <1>16, <1>17

\* A collection that ends has added the rows it inserted and has removed rows of
\* the protocols that answered; at its end the protocols may be exact.
LEMMA CollectionWrites ==
    ASSUME NeighbourInv, NEW c \in Procs, collector[c].at # "idle",
           Neighbours!Go(c, Neighbours!Idle), UNCHANGED <<ports, runs, alone>>,
           old' \subseteq old, old' \subseteq DOMAIN rows',
           \A r \in DOMAIN rows' :
             IF r \in DOMAIN rows THEN rows'[r] = rows[r]
             ELSE /\ r \in DOMAIN collector[c].inserts
                  /\ rows'[r] = collector[c].inserts[r] /\ rows'[r].port \in ports,
           \A r \in DOMAIN rows \ DOMAIN rows' :
             /\ rows[r].protocol \in collector[c].answered
             /\ \A b \in Procs \ {c} : r \notin collector[b].deletes,
           \/ UNCHANGED <<exact, heard>>
           \/ /\ c \in alone /\ exact' = exact \cup collector[c].answered
              /\ heard' = {f \in heard : f.protocol \notin collector[c].answered}
                            \cup collector[c].report
              /\ OneEach(collector[c].seen, rows', collector[c].report)
              /\ \A r \in DOMAIN rows' :
                   rows'[r].protocol \in collector[c].answered => r \in collector[c].seen
    PROVE  NeighbourInv'
<1> DEFINE e0 == collector[c]
<1> USE DEF NeighbourInv
<1>1. /\ RunHolds(e0) /\ e0 \in CollectorEntries /\ DOMAIN e0.inserts \subseteq Rows
      /\ e0.answered \cap exact = {}
    BY DEF NeighboursTyped, NobodyAsks, CollectorEntries
<1>2. collector'[c] = Neighbours!Idle /\ \A b \in Procs \ {c} : collector'[b] = collector[b]
    BY DEF NeighboursTyped, Neighbours!Go
<1>3. collector' \in [Procs -> CollectorEntries]
    BY NoCollection DEF NeighboursTyped, Neighbours!Go, RunHolds
<1>4. \A r \in DOMAIN rows' \ DOMAIN rows :
        /\ rows'[r] \in Neighbours!Of(e0.answered) /\ r \in Rows
        /\ \A b \in Procs \ {c} : r \notin DOMAIN collector[b].inserts
    BY <1>1 DEF RunHolds, KeysApart
<1>5. \A f \in Neighbours!Of(e0.answered) : f \in Entries /\ f.protocol \in e0.answered
                                            /\ f.protocol \in Protocols
    BY <1>1 DEF Neighbours!Of, CollectorEntries
<1>6. e0.report \subseteq Neighbours!Of(e0.answered) BY <1>1 DEF RunHolds
<1>7. \A a \in alone : a = c /\ \A b \in Procs \ {c} : collector[b].at = "idle"
    BY OnlyCollectionAlone
<1>8. e0.answered \subseteq Protocols BY <1>1 DEF CollectorEntries
<1>9. NeighboursTyped'
  <2>1. \A b \in Procs : RunHolds(collector'[b]) BY <1>2, NoCollection DEF NeighboursTyped
  <2>2. \A r \in DOMAIN rows' : /\ r \in Rows /\ rows'[r] \in Entries
                                /\ rows'[r].protocol \in Protocols /\ rows'[r].port \in ports
      BY <1>4, <1>5 DEF NeighboursTyped
  <2>3. exact' \subseteq Protocols BY <1>8 DEF NeighboursTyped
  <2> QED BY <1>3, <2>1, <2>2, <2>3 DEF NeighboursTyped
<1>10. NobodyAsks'
  <2>1. \A b \in Procs \ {c} : c \in alone => collector[b].at = "idle" BY <1>7
  <2> QED BY <1>2, <2>1, NoCollection DEF NobodyAsks
<1>11. KeysApart'
  <2>1. \A b \in Procs : /\ DOMAIN collector'[b].inserts \cap DOMAIN rows' = {}
                         /\ DeletesThere(collector[b])'
    <3> SUFFICES ASSUME NEW b \in Procs \ {c}
                 PROVE  /\ DOMAIN collector[b].inserts \cap DOMAIN rows' = {}
                        /\ \A r \in collector[b].deletes :
                             r \in DOMAIN rows' /\ rows'[r].protocol \in collector[b].answered
        BY <1>2, NoCollection DEF DeletesThere
    <3>1. DOMAIN collector[b].inserts \cap DOMAIN rows = {} /\ DeletesThere(collector[b])
        BY DEF KeysApart
    <3> QED BY <1>4, <3>1 DEF DeletesThere
  <2>2. \A b \in Procs : PortsThere(collector'[b], ports)
    <3>1. PortsThere(Neighbours!Idle, ports) BY NoCollection
    <3> QED BY <1>2, <3>1 DEF KeysApart
  <2>3. \A b \in Procs : \A d \in Procs \ {b} :
          /\ DOMAIN collector'[d].inserts \cap DOMAIN collector'[b].inserts = {}
          /\ collector'[d].deletes \cap collector'[b].deletes = {}
      BY <1>2, NoCollection DEF KeysApart
  <2> QED BY <2>1, <2>2, <2>3 DEF KeysApart
<1>12. AloneStraight'
    BY <1>2, <1>7, NoCollection DEF AloneStraight
<1> HIDE DEF e0
<1>13. ASSUME NEW p \in exact
       PROVE  /\ {r \in DOMAIN rows' : rows'[r].protocol = p}
                   = {r \in DOMAIN rows : rows[r].protocol = p}
              /\ \A r \in DOMAIN rows : rows[r].protocol = p => rows'[r] = rows[r]
              /\ {f \in heard' : f.protocol = p} = {f \in heard : f.protocol = p}
  <2>1. p \notin e0.answered BY <1>1
  <2>2. \A r \in DOMAIN rows' \ DOMAIN rows : rows'[r].protocol # p BY <1>4, <1>5, <2>1
  <2>3. \A r \in DOMAIN rows \ DOMAIN rows' : rows[r].protocol # p BY <2>1 DEF e0
  <2>4. \A f \in e0.report : f.protocol # p BY <1>5, <1>6, <2>1
  <2>5. {f \in heard' : f.protocol = p} = {f \in heard : f.protocol = p}
      BY <2>1, <2>4 DEF e0
  <2> QED BY <2>2, <2>3, <2>5
<1>14. Neighbours!NeighboursFollow'
  <2> SUFFICES ASSUME NEW p \in exact'
               PROVE  LET R == {q \in DOMAIN rows' : rows'[q].protocol = p} IN
                      /\ {rows'[q] : q \in R} = {g \in heard' : g.protocol = p}
                      /\ \A q, s \in R : rows'[q] = rows'[s] => q = s
      BY DEF Neighbours!NeighboursFollow
  <2>1. CASE p \in exact
    <3> DEFINE R == {q \in DOMAIN rows : rows[q].protocol = p}
    <3>1. /\ {rows[q] : q \in R} = {g \in heard : g.protocol = p}
          /\ \A q, s \in R : rows[q] = rows[s] => q = s
        BY <2>1 DEF Neighbours!NeighboursFollow
    <3>2. \A q \in R : rows'[q] = rows[q] BY <1>13, <2>1
    <3>3. {rows'[q] : q \in R} = {rows[q] : q \in R} BY <3>2
    <3> QED BY <1>13, <2>1, <3>1, <3>2, <3>3
  <2>2. CASE p \notin exact
    <3>1. /\ p \in e0.answered
          /\ heard' = {f \in heard : f.protocol \notin e0.answered} \cup e0.report
          /\ OneEach(e0.seen, rows', e0.report)
          /\ \A r \in DOMAIN rows' : rows'[r].protocol \in e0.answered => r \in e0.seen
        BY <2>2 DEF e0
    <3>2. {g \in heard' : g.protocol = p} = {g \in e0.report : g.protocol = p} BY <3>1
    <3>3. \A q \in DOMAIN rows' : rows'[q].protocol = p => q \in e0.seen BY <3>1
    <3>4. \A q, s \in {q \in DOMAIN rows' : rows'[q].protocol = p} : rows'[q] = rows'[s] => q = s
        BY <3>1, <3>3 DEF OneEach
    <3>5. {rows'[q] : q \in {q \in DOMAIN rows' : rows'[q].protocol = p}}
            = {g \in e0.report : g.protocol = p}
        BY <3>1, <3>3 DEF OneEach
    <3> QED BY <3>2, <3>4, <3>5
  <2> QED BY <2>1, <2>2
<1> QED BY <1>9, <1>10, <1>11, <1>12, <1>14

\* The stale rows are rows of the table of the protocols that answered, and of
\* no other transaction.
LEMMA StaleThere ==
    ASSUME NeighbourInv, NEW c \in Procs, collector[c].deletes = {}, NEW r \in Neighbours!Stale(c)
    PROVE  /\ r \in DOMAIN rows /\ rows[r].protocol \in collector[c].answered
           /\ r \notin collector[c].seen /\ r \notin DOMAIN collector[c].inserts
           /\ Neighbours!Stale(c) \cap Neighbours!Locked(c) = {} =>
                \A b \in Procs \ {c} : r \notin collector[b].deletes
<1>1. RunHolds(collector[c]) /\ \A b \in Procs : RunHolds(collector[b])
    BY DEF NeighbourInv, NeighboursTyped
<1>2. r \notin DOMAIN collector[c].inserts BY <1>1 DEF RunHolds, Neighbours!Stale
<1>3. /\ r \in DOMAIN rows /\ rows[r].protocol \in collector[c].answered
      /\ r \notin collector[c].seen
    BY <1>2 DEF Neighbours!Stale, Neighbours!Visible, Neighbours!Over, Neighbours!Without
<1>4. ASSUME Neighbours!Stale(c) \cap Neighbours!Locked(c) = {}, NEW b \in Procs \ {c},
             r \in collector[b].deletes
      PROVE  FALSE
  <2>1. r \in Neighbours!Holds(b) BY <1>1, <1>4 DEF RunHolds, Neighbours!Holds
  <2> QED BY <1>4, <2>1 DEF Neighbours!Locked
<1> QED BY <1>2, <1>3, <1>4

\* The stale rows are deleted in the transaction of a synchronization.
LEMMA DeleteStaleInTransaction ==
    ASSUME NeighbourInv, NEW c \in Procs, collector[c].tx, Neighbours!DeleteStale(c)
    PROVE  NeighbourInv'
<1> DEFINE e0 == collector[c]
           gone == Neighbours!Stale(c)
           e == [e0 EXCEPT !.at = "commit", !.done = TRUE, !.deletes = gone]
<1>1. /\ RunHolds(e0) /\ e0 \in CollectorEntries /\ PortsThere(e0, ports)
      /\ DOMAIN e0.inserts \cap DOMAIN rows = {}
    BY DEF NeighbourInv, NeighboursTyped, KeysApart
<1>2. /\ e0.at = "upsert" /\ e0.todo = {} /\ e0.deletes = {} /\ e0.tx
      /\ gone \cap Neighbours!Locked(c) = {} /\ Neighbours!Go(c, e)
      /\ UNCHANGED <<ports, rows, old, runs, alone, exact, heard>>
    BY <1>1 DEF Neighbours!DeleteStale, Neighbours!Same, RunHolds
<1>3. /\ e.at = "commit" /\ e.tx = e0.tx /\ e.answered = e0.answered /\ e.report = e0.report
      /\ e.todo = e0.todo /\ e.entry = e0.entry /\ e.seen = e0.seen
      /\ e.inserts = e0.inserts /\ e.deletes = gone /\ e.lost = e0.lost /\ e.done = TRUE
    BY <1>1 DEF CollectorEntries
<1>4. \A r \in gone : /\ r \in DOMAIN rows /\ rows[r].protocol \in e0.answered
                      /\ r \notin e0.seen /\ r \notin DOMAIN e0.inserts
                      /\ \A b \in Procs \ {c} : r \notin collector[b].deletes
    BY <1>2, StaleThere
<1>5. gone \subseteq Rows BY <1>4 DEF NeighbourInv, NeighboursTyped
<1>6. e \in CollectorEntries BY <1>1, <1>5 DEF CollectorEntries
<1>7. \A r \in DOMAIN Shown(e0) :
        Shown(e0)[r].protocol \in e0.answered => r \in e0.seen \/ r \in gone
    BY DEF Shown, Neighbours!Stale, Neighbours!Visible
<1>8. \A b \in Procs \ {c} : DOMAIN e0.inserts \cap DOMAIN collector[b].inserts = {}
    BY DEF NeighbourInv, KeysApart
<1> HIDE DEF e, gone
<1>9. RunHolds(e) BY <1>1, <1>2, <1>3, <1>6 DEF RunHolds, Pending
<1>10. PortsThere(e, ports) /\ DeletesThere(e)
    BY <1>1, <1>2, <1>3, <1>4 DEF PortsThere, DeletesThere
<1>11. ASSUME Straight(e0, old) PROVE Straight(e, old')
  <2>1. /\ DOMAIN Shown(e) = DOMAIN Shown(e0) \ gone
        /\ \A r \in DOMAIN Shown(e) : Shown(e)[r] = Shown(e0)[r]
      BY <1>2, <1>3, <1>4 DEF Shown, Neighbours!Over, Neighbours!Without
  <2>2. Pending(e) = Pending(e0) BY <1>2, <1>3 DEF Pending
  <2>3. OneEach(e0.seen, Shown(e0), e0.report \ Pending(e0)) BY <1>11 DEF Straight
  <2>4. OneEach(e.seen, Shown(e), e.report \ Pending(e))
      BY <1>3, <1>4, <2>1, <2>2, <2>3 DEF OneEach
  <2>5. \A r \in DOMAIN Shown(e) : Shown(e)[r].protocol \in e.answered => r \in e.seen
      BY <1>3, <1>7, <2>1
  <2> QED BY <1>2, <1>3, <2>4, <2>5 DEF Straight
<1>12. /\ runs \in 0..MaxRuns /\ alone \subseteq Procs /\ e.answered \cap exact = {}
       /\ c \in alone => Straight(e0, old)
    BY <1>2, <1>3 DEF NeighbourInv, NeighboursTyped, NobodyAsks, AloneStraight
<1>13. \A a \in alone : a = c /\ \A b \in Procs \ {c} : collector[b].at = "idle"
    BY <1>2, OnlyCollectionAlone
<1>14. \A b \in Procs \ {c} : /\ DOMAIN e.inserts \cap DOMAIN collector[b].inserts = {}
                              /\ e.deletes \cap collector[b].deletes = {}
    BY <1>3, <1>4, <1>8
<1>15. DOMAIN e.inserts \cap DOMAIN rows = {} BY <1>1, <1>3
<1> QED BY <1>2, <1>9, <1>10, <1>11, <1>12, <1>13, <1>14, <1>15, CollectionGoesOn

\* Outside of a transaction they are gone at once.
LEMMA DeleteStaleDirectly ==
    ASSUME NeighbourInv, NEW c \in Procs, ~collector[c].tx, Neighbours!DeleteStale(c)
    PROVE  NeighbourInv'
<1> DEFINE e0 == collector[c]
           gone == Neighbours!Stale(c)
<1>1. /\ RunHolds(e0) /\ e0 \in CollectorEntries
    BY DEF NeighbourInv, NeighboursTyped, KeysApart
<1>2. /\ e0.at = "upsert" /\ e0.todo = {} /\ e0.deletes = {} /\ DOMAIN e0.inserts = {}
      /\ gone \cap Neighbours!Locked(c) = {} /\ Neighbours!Go(c, Neighbours!Idle)
      /\ rows' = Neighbours!Without(rows, gone) /\ old' = old \ gone
      /\ UNCHANGED <<ports, runs, alone>> /\ Neighbours!Finish(c)
    BY <1>1 DEF Neighbours!DeleteStale, Neighbours!Finish, RunHolds
<1>3. \A r \in gone : /\ r \in DOMAIN rows /\ rows[r].protocol \in e0.answered
                      /\ r \notin e0.seen
                      /\ \A b \in Procs \ {c} : r \notin collector[b].deletes
    BY <1>2, StaleThere
<1>4. \A r \in DOMAIN rows : rows[r].protocol \in e0.answered => r \in e0.seen \/ r \in gone
    BY <1>2 DEF Neighbours!Stale, Neighbours!Visible, Neighbours!Over, Neighbours!Without
<1>5. DOMAIN rows' = DOMAIN rows \ gone /\ \A r \in DOMAIN rows' : rows'[r] = rows[r]
    BY <1>2 DEF Neighbours!Without
<1>6. old' \subseteq old /\ old' \subseteq DOMAIN rows'
    BY <1>2, <1>5 DEF NeighbourInv, NeighboursTyped
<1>7. CASE c \notin alone
  <2>1. UNCHANGED <<exact, heard>> BY <1>2, <1>7 DEF Neighbours!Finish
  <2> QED BY <1>2, <1>3, <1>5, <1>6, <2>1, CollectionWrites
<1>8. CASE c \in alone
  <2>1. /\ exact' = exact \cup e0.answered
        /\ heard' = {f \in heard : f.protocol \notin e0.answered} \cup e0.report
      BY <1>2, <1>8 DEF Neighbours!Finish
  <2>2. OneEach(e0.seen, Shown(e0), e0.report \ Pending(e0))
      BY <1>2, <1>8 DEF NeighbourInv, AloneStraight, Straight
  <2>3. DOMAIN Shown(e0) = DOMAIN rows /\ \A r \in DOMAIN rows : Shown(e0)[r] = rows[r]
      BY <1>2 DEF Shown, Neighbours!Over, Neighbours!Without
  <2>4. Pending(e0) = {} BY <1>2 DEF Pending
  <2>5. OneEach(e0.seen, rows', e0.report) BY <1>3, <1>5, <2>2, <2>3, <2>4 DEF OneEach
  <2>6. \A r \in DOMAIN rows' : rows'[r].protocol \in e0.answered => r \in e0.seen
      BY <1>4, <1>5
  <2> QED BY <1>2, <1>3, <1>5, <1>6, <1>8, <2>1, <2>5, <2>6, CollectionWrites
<1> QED BY <1>7, <1>8

\* The synchronization commits.
LEMMA CommitStep ==
    ASSUME NeighbourInv, NEW c \in Procs, Neighbours!Commit(c)
    PROVE  NeighbourInv'
<1> DEFINE e0 == collector[c]
<1>1. /\ RunHolds(e0) /\ e0 \in CollectorEntries /\ PortsThere(e0, ports) /\ DeletesThere(e0)
      /\ DOMAIN e0.inserts \cap DOMAIN rows = {}
      /\ \A b \in Procs \ {c} : e0.deletes \cap collector[b].deletes = {}
    BY DEF NeighbourInv, NeighboursTyped, KeysApart
<1>2. /\ e0.at = "commit" /\ ~e0.lost /\ Neighbours!Go(c, Neighbours!Idle)
      /\ rows' = Shown(e0) /\ old' = old \ (e0.deletes \cup e0.seen)
      /\ UNCHANGED <<ports, runs, alone>>
      /\ IF e0.done THEN Neighbours!Finish(c) ELSE UNCHANGED <<exact, heard>>
    BY DEF Neighbours!Commit, Neighbours!Finish, Shown, Neighbours!Visible
<1>3. /\ DOMAIN rows' = DOMAIN e0.inserts \cup (DOMAIN rows \ e0.deletes)
      /\ \A r \in DOMAIN e0.inserts : rows'[r] = e0.inserts[r]
      /\ \A r \in DOMAIN rows \ e0.deletes : rows'[r] = rows[r]
    BY <1>1, <1>2 DEF Shown, Neighbours!Over, Neighbours!Without
<1>4. old' \subseteq old /\ old' \subseteq DOMAIN rows'
    BY <1>2, <1>3 DEF NeighbourInv, NeighboursTyped
<1>5. \A r \in DOMAIN rows' :
        IF r \in DOMAIN rows THEN rows'[r] = rows[r]
        ELSE /\ r \in DOMAIN e0.inserts
             /\ rows'[r] = e0.inserts[r] /\ rows'[r].port \in ports
  <2>1. \A r \in DOMAIN e0.inserts : e0.inserts[r].port \in ports BY <1>1, <1>2 DEF PortsThere
  <2> QED BY <1>1, <1>3, <2>1
<1>6. \A r \in DOMAIN rows \ DOMAIN rows' :
        /\ rows[r].protocol \in e0.answered
        /\ \A b \in Procs \ {c} : r \notin collector[b].deletes
    BY <1>1, <1>3 DEF DeletesThere
<1>7. CASE e0.done /\ c \in alone
  <2>1. /\ exact' = exact \cup e0.answered
        /\ heard' = {f \in heard : f.protocol \notin e0.answered} \cup e0.report
      BY <1>2, <1>7 DEF Neighbours!Finish
  <2>2. Straight(e0, old) BY <1>2, <1>7 DEF NeighbourInv, AloneStraight
  <2>3. Pending(e0) = {} BY <1>1, <1>2, <1>7 DEF Pending, RunHolds
  <2>4. OneEach(e0.seen, rows', e0.report \ {}) BY <1>2, <2>2, <2>3 DEF Straight
  <2>5. e0.report \ {} = e0.report OBVIOUS
  <2>6. \A r \in DOMAIN rows' : rows'[r].protocol \in e0.answered => r \in e0.seen
      BY <1>2, <1>7, <2>2 DEF Straight
  <2>7. OneEach(e0.seen, rows', e0.report) BY <2>4, <2>5
  <2> QED BY <1>2, <1>4, <1>5, <1>6, <1>7, <2>1, <2>6, <2>7, CollectionWrites
<1>8. CASE ~(e0.done /\ c \in alone)
  <2>1. UNCHANGED <<exact, heard>> BY <1>2, <1>8 DEF Neighbours!Finish
  <2> QED BY <1>2, <1>4, <1>5, <1>6, <2>1, CollectionWrites
<1> QED BY <1>7, <1>8

\* The rows get older than the days of the cleanup, when no collection is under way.
LEMMA GetOldStep ==
    ASSUME NeighbourInv, Neighbours!GetOld
    PROVE  NeighbourInv'
<1> USE DEF NeighbourInv, Neighbours!GetOld
<1>1. NeighboursTyped' BY DEF NeighboursTyped
<1>2. NobodyAsks' BY DEF NobodyAsks
<1>3. KeysApart' BY DEF KeysApart, PortsThere, DeletesThere
<1>4. AloneStraight'
  <2>1. \A b \in Procs : collector'[b].at = "idle" OBVIOUS
  <2>2. alone' \subseteq Procs BY DEF NeighboursTyped
  <2> QED BY <2>1, <2>2 DEF AloneStraight
<1>5. Neighbours!NeighboursFollow' BY DEF Neighbours!NeighboursFollow
<1> QED BY <1>1, <1>2, <1>3, <1>4, <1>5

\* The old rows are deleted, but none that a collection under way has seen.
LEMMA CleanupOldStep ==
    ASSUME NeighbourInv, Neighbours!CleanupOld
    PROVE  NeighbourInv'
<1> USE DEF NeighbourInv
<1>1. /\ rows' = Neighbours!Without(rows, old) /\ old' = {}
      /\ exact' = exact \ {rows[r].protocol : r \in old}
      /\ UNCHANGED <<ports, collector, runs, alone, heard>>
      /\ \A c \in Procs : old \cap Neighbours!Holds(c) = {}
    BY DEF Neighbours!CleanupOld, Neighbours!Drop
<1>2. DOMAIN rows' = DOMAIN rows \ old /\ \A r \in DOMAIN rows' : rows'[r] = rows[r]
    BY <1>1 DEF Neighbours!Without
<1>3. \A c \in Procs : RunHolds(collector[c]) BY DEF NeighboursTyped
<1>4. \A c \in Procs : collector[c].deletes \cap old = {}
    BY <1>1, <1>3 DEF RunHolds, Neighbours!Holds
<1>5. NeighboursTyped' BY <1>1, <1>2 DEF NeighboursTyped
<1>6. NobodyAsks' BY <1>1 DEF NobodyAsks
<1>7. KeysApart'
  <2>1. \A c \in Procs : DeletesThere(collector[c])'
      BY <1>1, <1>2, <1>4 DEF KeysApart, DeletesThere
  <2>2. \A c \in Procs : PortsThere(collector[c], ports)' BY <1>1 DEF KeysApart, PortsThere
  <2> QED BY <1>1, <1>2, <2>1, <2>2 DEF KeysApart
<1>8. AloneStraight'
  <2> SUFFICES ASSUME NEW c \in alone, collector[c].at # "idle", c \in Procs
               PROVE  Straight(collector[c], old)'
      BY <1>1 DEF AloneStraight, NeighboursTyped
  <2> DEFINE e == collector[c]
             S == Shown(e)
             T == Shown(e)'
  <2>1. Straight(e, old) BY DEF AloneStraight
  <2>2. e.seen \cap old = {}
      BY <1>1, <2>1 DEF Straight, Neighbours!Holds
  <2>3. /\ DOMAIN S = DOMAIN e.inserts \cup (DOMAIN rows \ e.deletes)
        /\ DOMAIN T = DOMAIN e.inserts \cup (DOMAIN rows' \ e.deletes)
        /\ \A q \in DOMAIN T : q \in DOMAIN S /\ T[q] = S[q]
        /\ DOMAIN S \ old \subseteq DOMAIN T
      BY <1>1, <1>2 DEF Shown, Neighbours!Over, Neighbours!Without
  <2>4. OneEach(e.seen, S, e.report \ Pending(e)) BY <2>1 DEF Straight
  <2>5. e.done => \A r \in DOMAIN S : S[r].protocol \in e.answered => r \in e.seen
      BY <2>1 DEF Straight
  <2> HIDE DEF S, T
  <2>6. OneEach(e.seen, T, e.report \ Pending(e)) BY <2>2, <2>3, <2>4 DEF OneEach
  <2>7. e.done => \A r \in DOMAIN T : T[r].protocol \in e.answered => r \in e.seen
      BY <2>3, <2>5
  <2>8. collector'[c] = e /\ Pending(collector[c])' = Pending(e) BY <1>1 DEF Pending
  <2> QED BY <1>1, <2>6, <2>7, <2>8 DEF Straight, T
<1>9. Neighbours!NeighboursFollow'
  <2> SUFFICES ASSUME NEW p \in exact, p \notin {rows[r].protocol : r \in old}
               PROVE  LET R == {q \in DOMAIN rows' : rows'[q].protocol = p} IN
                      /\ {rows'[q] : q \in R} = {g \in heard : g.protocol = p}
                      /\ \A q, s \in R : rows'[q] = rows'[s] => q = s
      BY <1>1 DEF Neighbours!NeighboursFollow
  <2>1. \A q \in DOMAIN rows : rows[q].protocol = p => q \notin old OBVIOUS
  <2>2. {q \in DOMAIN rows' : rows'[q].protocol = p} = {q \in DOMAIN rows : rows[q].protocol = p}
      BY <1>2, <2>1
  <2> QED BY <1>2, <2>2 DEF Neighbours!NeighboursFollow
<1> QED BY <1>5, <1>6, <1>7, <1>8, <1>9

\* A port is deleted with its neighbours; who was about to write one has lost it.
LEMMA DeletePortStep ==
    ASSUME NeighbourInv, NEW p, Neighbours!DeletePort(p)
    PROVE  NeighbourInv'
<1> DEFINE gone == {r \in DOMAIN rows : rows[r].port = p}
           Loses(c) == \E f \in Neighbours!ToInsert(c) : f.port = p
<1> USE DEF NeighbourInv
<1>1. /\ ports' = ports \ {p} /\ rows' = Neighbours!Without(rows, gone) /\ old' = old \ gone
      /\ heard' = {f \in heard : f.port # p} /\ alone' = {} /\ UNCHANGED <<runs, exact>>
      /\ \A c \in Procs : gone \cap Neighbours!Holds(c) = {}
      /\ collector' = [c \in Procs |-> IF Loses(c) THEN [collector[c] EXCEPT !.lost = TRUE]
                                       ELSE collector[c]]
    BY DEF Neighbours!DeletePort, Neighbours!Drop
<1>2. DOMAIN rows' = DOMAIN rows \ gone /\ \A r \in DOMAIN rows' : rows'[r] = rows[r]
    BY <1>1 DEF Neighbours!Without
<1>3. \A c \in Procs : RunHolds(collector[c]) /\ collector[c] \in CollectorEntries
    BY DEF NeighboursTyped, RunHolds
<1>4. \A c \in Procs :
        LET e0 == collector[c] e == collector'[c] IN
        /\ e \in CollectorEntries
        /\ e.at = e0.at /\ e.tx = e0.tx /\ e.answered = e0.answered /\ e.report = e0.report
        /\ e.todo = e0.todo /\ e.entry = e0.entry /\ e.seen = e0.seen
        /\ e.inserts = e0.inserts /\ e.deletes = e0.deletes /\ e.done = e0.done
        /\ e.lost = (e0.lost \/ Loses(c))
    BY <1>1, <1>3 DEF CollectorEntries
<1>5. collector' \in [Procs -> CollectorEntries]
  <2>1. collector' = [c \in Procs |-> collector'[c]] BY <1>1
  <2> QED BY <1>4, <2>1
<1>6. \A c \in Procs : collector[c].deletes \cap gone = {}
    BY <1>1, <1>3 DEF RunHolds, Neighbours!Holds
<1>7. \A c \in Procs : RunHolds(collector'[c])
  <2>1. \A c \in Procs : Pending(collector'[c]) = Pending(collector[c]) BY <1>4 DEF Pending
  <2> QED BY <1>3, <1>4, <2>1 DEF RunHolds
<1>8. NeighboursTyped'
  <2>1. \A r \in DOMAIN rows' : rows'[r].port \in ports' BY <1>1, <1>2 DEF NeighboursTyped
  <2> QED BY <1>1, <1>2, <1>5, <1>7, <2>1 DEF NeighboursTyped
<1>9. NobodyAsks' BY <1>1, <1>4 DEF NobodyAsks
<1>10. KeysApart'
  <2>1. \A c \in Procs : DeletesThere(collector[c])'
      BY <1>2, <1>4, <1>6 DEF KeysApart, DeletesThere
  <2>2. ASSUME NEW c \in Procs PROVE PortsThere(collector'[c], ports')
    <3>1. PortsThere(collector[c], ports) BY DEF KeysApart
    <3>2. ~Loses(c) => /\ \A r \in DOMAIN collector[c].inserts : collector[c].inserts[r].port # p
                       /\ collector[c].at = "insert" => \A f \in collector[c].entry : f.port # p
        BY DEF Neighbours!ToInsert
    <3> HIDE DEF Loses
    <3>3. /\ collector'[c].inserts = collector[c].inserts
          /\ collector'[c].entry = collector[c].entry /\ collector'[c].at = collector[c].at
          /\ collector'[c].lost = (collector[c].lost \/ Loses(c))
        BY <1>4
    <3> QED BY <1>1, <3>1, <3>2, <3>3 DEF PortsThere
  <2>3. \A c \in Procs : DOMAIN collector'[c].inserts \cap DOMAIN rows' = {}
      BY <1>2, <1>4 DEF KeysApart
  <2>4. \A c \in Procs : \A b \in Procs \ {c} :
          /\ DOMAIN collector'[b].inserts \cap DOMAIN collector'[c].inserts = {}
          /\ collector'[b].deletes \cap collector'[c].deletes = {}
      BY <1>4 DEF KeysApart
  <2> QED BY <2>1, <2>2, <2>3, <2>4 DEF KeysApart
<1>11. AloneStraight' BY <1>1 DEF AloneStraight
<1>12. Neighbours!NeighboursFollow'
  <2> SUFFICES ASSUME NEW x \in exact
               PROVE  LET R == {q \in DOMAIN rows' : rows'[q].protocol = x} IN
                      /\ {rows'[q] : q \in R} = {g \in heard' : g.protocol = x}
                      /\ \A q, s \in R : rows'[q] = rows'[s] => q = s
      BY <1>1 DEF Neighbours!NeighboursFollow
  <2> DEFINE R == {q \in DOMAIN rows : rows[q].protocol = x}
  <2>1. /\ {rows[q] : q \in R} = {g \in heard : g.protocol = x}
        /\ \A q, s \in R : rows[q] = rows[s] => q = s
      BY DEF Neighbours!NeighboursFollow
  <2>2. {rows'[q] : q \in {q \in DOMAIN rows' : rows'[q].protocol = x}}
          = {g \in {rows[q] : q \in R} : g.port # p}
      BY <1>2
  <2>3. {g \in heard' : g.protocol = x} = {g \in {g \in heard : g.protocol = x} : g.port # p}
      BY <1>1
  <2>4. \A q \in DOMAIN rows' : q \in DOMAIN rows /\ rows'[q] = rows[q] BY <1>2
  <2> QED BY <2>1, <2>2, <2>3, <2>4
<1> QED BY <1>8, <1>9, <1>10, <1>11, <1>12

\* A port is added.
LEMMA AddPortStep ==
    ASSUME NeighbourInv, NEW p \in Neighbours!Ports, Neighbours!AddPort(p)
    PROVE  NeighbourInv'
<1> USE DEF NeighbourInv, Neighbours!AddPort
<1>1. NeighboursTyped' BY DEF NeighboursTyped
<1>2. NobodyAsks' BY DEF NobodyAsks
<1>3. KeysApart' BY DEF KeysApart, PortsThere, DeletesThere
<1>4. AloneStraight'
  <2>1. \A c \in Procs : Straight(collector[c], old)' <=> Straight(collector[c], old)
      BY DEF Straight, Shown, Pending
  <2> QED BY <2>1 DEF AloneStraight, NeighboursTyped
<1>5. Neighbours!NeighboursFollow' BY DEF Neighbours!NeighboursFollow
<1> QED BY <1>1, <1>2, <1>3, <1>4, <1>5

\* Each handler of a collection keeps the invariant.
LEMMA UpsertStep ==
    ASSUME NeighbourInv, NEW c \in Procs, Neighbours!Upsert(c)
    PROVE  NeighbourInv'
<1>1. collector[c].at = "upsert" /\ UNCHANGED <<ports, rows, runs, alone, exact, heard>>
    BY DEF Neighbours!Upsert
<1>2. PICK f \in collector[c].todo :
        \/ Neighbours!Skip(c, f) \/ Neighbours!Misses(c, f) \/ Neighbours!Ambiguous(c, f)
        \/ \E r \in Neighbours!Matches(c, f) : Neighbours!Updates(c, f, r)
    BY DEF Neighbours!Upsert
<1>3. CASE Neighbours!Skip(c, f) BY <1>1, <1>3, SkipStep
<1>4. CASE Neighbours!Misses(c, f) BY <1>1, <1>4, MissesStep
<1>5. CASE Neighbours!Ambiguous(c, f)
  <2>1. Neighbours!Abort(c) /\ old' = old BY <1>5 DEF Neighbours!Ambiguous
  <2> QED BY <1>1, <2>1, AbortStep
<1>6. ASSUME NEW r, Neighbours!Updates(c, f, r) PROVE NeighbourInv'
    BY <1>1, <1>6, UpdatesStep
<1> QED BY <1>2, <1>3, <1>4, <1>5, <1>6

\* A neighbour is inserted, or the insertion is lost with its port.
LEMMA InsertStep ==
    ASSUME NeighbourInv, NEW c \in Procs, Neighbours!Insert(c)
    PROVE  NeighbourInv'
<1>1. collector[c].at = "insert" /\ UNCHANGED <<ports, old, runs, alone, exact, heard>>
    BY DEF Neighbours!Insert
<1>2. CASE collector[c].lost /\ ~collector[c].tx
  <2>1. Neighbours!Abort(c) /\ rows' = rows BY <1>2 DEF Neighbours!Insert
  <2> QED BY <1>1, <1>2, <2>1, AbortStep
<1>3. CASE ~(collector[c].lost /\ ~collector[c].tx)
  <2>1. PICK f \in collector[c].entry, r \in Neighbours!Free : Neighbours!Inserts(c, f, r)
      BY <1>3 DEF Neighbours!Insert
  <2>2. CASE collector[c].tx BY <1>1, <2>1, <2>2, InsertInTransaction
  <2>3. CASE ~collector[c].tx BY <1>1, <1>3, <2>1, <2>3, InsertDirectly
  <2> QED BY <2>2, <2>3
<1> QED BY <1>2, <1>3

\* Nobody has collected anything.
LEMMA NeighboursBegin ==
    ASSUME Neighbours!Init PROVE NeighbourInv
<1>1. DOMAIN rows = {} /\ collector = [c \in Procs |-> Neighbours!Idle]
    BY DEF Neighbours!Init
<1>2. ports = Neighbours!Ports /\ old = {} /\ runs = 0 /\ alone = {} /\ exact = {} /\ heard = {}
    BY DEF Neighbours!Init
<1>3. \A c \in Procs : collector[c] = Neighbours!Idle BY <1>1
<1>4. NeighboursTyped
  <2>1. collector \in [Procs -> CollectorEntries] BY <1>1, NoCollection DEF RunHolds
  <2>2. runs \in 0..MaxRuns BY <1>2, OperationsAssumption DEF Assumptions, Neighbours!Assumptions
  <2> QED BY <1>1, <1>2, <1>3, <2>1, <2>2, NoCollection DEF NeighboursTyped
<1>5. NobodyAsks BY <1>2 DEF NobodyAsks
<1>6. KeysApart
  <2>1. \A c \in Procs : PortsThere(collector[c], ports) /\ DeletesThere(collector[c])
      BY <1>3, NoCollection
  <2> QED BY <1>1, <1>3, <2>1, NoCollection DEF KeysApart
<1>7. AloneStraight BY <1>2 DEF AloneStraight
<1>8. Neighbours!NeighboursFollow BY <1>2 DEF Neighbours!NeighboursFollow
<1> QED BY <1>4, <1>5, <1>6, <1>7, <1>8 DEF NeighbourInv

\* Each step of the neighbours keeps the invariant.
LEMMA NeighboursStep ==
    ASSUME NeighbourInv, Neighbours!Next PROVE NeighbourInv'
<1>1. ASSUME NEW c \in Procs, Neighbours!CollectDirectly(c) PROVE NeighbourInv'
    BY <1>1, CollectStep DEF Neighbours!CollectDirectly
<1>2. ASSUME NEW c \in Procs, Neighbours!CollectInSync(c) PROVE NeighbourInv'
    BY <1>2, CollectStep DEF Neighbours!CollectInSync
<1>3. ASSUME NEW c \in Procs, Neighbours!DeleteStale(c) PROVE NeighbourInv'
    BY <1>3, DeleteStaleDirectly, DeleteStaleInTransaction
<1>4. ASSUME NEW c \in Procs, Neighbours!Fail(c) PROVE NeighbourInv'
    BY <1>4, CollectionEnds DEF Neighbours!Fail, Neighbours!Same
<1> QED BY <1>1, <1>2, <1>3, <1>4, UpsertStep, InsertStep, CommitStep,
           GetOldStep, CleanupOldStep, DeletePortStep, AddPortStep DEF Neighbours!Next

\* A step that leaves the neighbours alone keeps it.
LEMMA NeighboursStutter ==
    ASSUME NeighbourInv, UNCHANGED Neighbours!vars PROVE NeighbourInv'
<1> USE DEF NeighbourInv, Neighbours!vars
<1>1. NeighboursTyped' BY DEF NeighboursTyped
<1>2. NobodyAsks' BY DEF NobodyAsks
<1>3. KeysApart' BY DEF KeysApart, PortsThere, DeletesThere
<1>4. AloneStraight'
  <2>1. \A c \in Procs : Straight(collector[c], old)' <=> Straight(collector[c], old)
      BY DEF Straight, Shown, Pending
  <2> QED BY <2>1 DEF AloneStraight, NeighboursTyped
<1>5. Neighbours!NeighboursFollow' BY DEF Neighbours!NeighboursFollow
<1> QED BY <1>1, <1>2, <1>3, <1>4, <1>5

\* The neighbours' variables have their types.
LEMMA NeighbourTypeOK ==
    ASSUME NeighbourInv PROVE Neighbours!TypeOK
<1>1. \A c \in Procs :
        /\ collector[c].at \in {"idle", "upsert", "insert", "commit"}
        /\ collector[c].answered \subseteq Protocols
        /\ collector[c].todo \subseteq collector[c].report
        /\ collector[c].tx \/ DOMAIN collector[c].inserts = {}
    BY DEF NeighbourInv, NeighboursTyped, RunHolds, CollectorEntries, Pending
<1>2. \A f \in Entries : f \in Neighbours!TopologyNeighbor
    BY OperationsAssumption DEF Assumptions, Neighbours!Assumptions
<1> QED BY <1>1, <1>2 DEF NeighbourInv, NeighboursTyped, Neighbours!TypeOK

\* The invariant holds of every behaviour that is one of the neighbours.
LEMMA NeighboursAlways == Spec => [](part = "neighbours" => NeighbourInv)
<1> DEFINE Kept == part = "neighbours" => NeighbourInv
<1>1. Init => Kept BY NeighboursBegin DEF Init
<1>2. Kept /\ [Next]_vars => Kept'
  <2> SUFFICES ASSUME Kept, [Next]_vars, part' = "neighbours" PROVE NeighbourInv'
      OBVIOUS
  <2>1. part = "neighbours" /\ (Neighbours!Next \/ UNCHANGED Neighbours!vars)
      BY DEF Next, vars, neighbourVars, Neighbours!vars
  <2> QED BY <2>1, NeighboursStep, NeighboursStutter
<1> QED BY <1>1, <1>2, PTL DEF Spec

\* A collection that nothing overlapped leaves the neighbours that it heard, each in
\* one row, whatever duplicates overlapping ones have left before it.
THEOREM NeighboursAlwaysFollow == Spec => []NeighboursFollow
<1>1. (part = "neighbours" => NeighbourInv) => NeighboursFollow
    BY DEF NeighbourInv, NeighboursFollow
<1> QED BY <1>1, NeighboursAlways, PTL

-----------------------------------------------------------------------------
(* Interfaces: what the steps of an applied answer make of rows              *)

Fields == {"name", "kind", "mode", "lag", "status", "description", "address"}
RowsHold(R) ==
    /\ DOMAIN R \subseteq InterfaceRows
    /\ \A r \in DOMAIN R : /\ DOMAIN R[r] = Fields /\ R[r].name \in Names
                           /\ R[r].lag \in DOMAIN R \cup {None}
                           /\ R[r].mode \in {"none", "L2", "L3"}

\* Rows that go leave the others as they were, but for their port-channels.
LEMMA WithoutRows ==
    ASSUME NEW R, RowsHold(R), NEW gone
    PROVE  /\ RowsHold(Sync!Without(R, gone))
           /\ DOMAIN Sync!Without(R, gone) = DOMAIN R \ gone
           /\ \A r \in DOMAIN R \ gone :
                /\ Sync!Without(R, gone)[r].name = R[r].name
                /\ R[r].lag \notin gone => Sync!Without(R, gone)[r] = R[r]
<1> DEFINE left == Sync!Without(R, gone)
<1>1. /\ DOMAIN left = DOMAIN R \ gone
      /\ \A r \in DOMAIN left :
           left[r] = IF R[r].lag \in gone THEN [R[r] EXCEPT !.lag = None] ELSE R[r]
    BY DEF Sync!Without
<1> HIDE DEF left
<1>2. ASSUME NEW r \in DOMAIN left
      PROVE  /\ DOMAIN left[r] = Fields /\ left[r].name = R[r].name /\ left[r].mode = R[r].mode
             /\ left[r].lag \in DOMAIN left \cup {None}
             /\ R[r].lag \notin gone => left[r] = R[r]
  <2>1. r \in DOMAIN R /\ DOMAIN R[r] = Fields /\ R[r].lag \in DOMAIN R \cup {None}
      BY <1>1 DEF RowsHold
  <2>2. CASE R[r].lag \notin gone BY <1>1, <2>1, <2>2
  <2>3. CASE R[r].lag \in gone
    <3>1. left[r] = [R[r] EXCEPT !.lag = None] BY <1>1, <2>3
    <3>2. /\ DOMAIN left[r] = Fields /\ left[r].lag = None
          /\ left[r].name = R[r].name /\ left[r].mode = R[r].mode
        BY <2>1, <3>1 DEF Fields
    <3> QED BY <2>3, <3>2
  <2> QED BY <2>2, <2>3
<1> QED BY <1>1, <1>2 DEF RowsHold, left

\* The keys of new rows are free, and each is of one name.
LEMMA NewKeysFit ==
    ASSUME NEW R, NEW names, Sync!Keys(names, InterfaceRows \ DOMAIN R) # {}
    PROVE  Sync!NewKeys(R, names) \in Sync!Keys(names, InterfaceRows \ DOMAIN R)
BY Zenon DEF Sync!NewKeys

\* Every name gets one row, under a key of its own.
LEMMA CreatedRows ==
    ASSUME NEW R, RowsHold(R), NEW names \in SUBSET Names,
           Sync!Keys(names, InterfaceRows \ DOMAIN R) # {},
           NEW C, C = Sync!Created(R, names)
    PROVE  /\ RowsHold(C) /\ DOMAIN R \subseteq DOMAIN C
           /\ \A r \in DOMAIN R : C[r] = R[r]
           /\ \A r \in DOMAIN C \ DOMAIN R : C[r].name \in names
           /\ \A n \in names : \E r \in DOMAIN C : C[r].name = n
           /\ \A q, r \in DOMAIN C \ DOMAIN R : C[q].name = C[r].name => q = r
<1> DEFINE key == Sync!NewKeys(R, names)
           of(r) == CHOOSE n \in names : key[n] = r
<1>1. /\ key \in [names -> InterfaceRows \ DOMAIN R]
      /\ \A m, n \in names : key[m] = key[n] => m = n
    BY NewKeysFit DEF Sync!Keys
<1>2. /\ DOMAIN C = DOMAIN R \cup {key[n] : n \in names}
      /\ \A r \in DOMAIN C : C[r] = IF r \in DOMAIN R THEN R[r] ELSE Sync!NewRow(of(r))
    BY DEF Sync!Created
<1> HIDE DEF key
<1>3. ASSUME NEW n \in names PROVE of(key[n]) = n
  <2>1. \E m \in names : key[m] = key[n] OBVIOUS
  <2>2. of(key[n]) \in names /\ key[of(key[n])] = key[n] BY <2>1, Zenon
  <2> QED BY <1>1, <2>2
<1> HIDE DEF of
<1>4. \A n : /\ DOMAIN Sync!NewRow(n) = Fields /\ Sync!NewRow(n).name = n
             /\ Sync!NewRow(n).lag = None /\ Sync!NewRow(n).mode = "none"
    BY DEF Sync!NewRow, Fields
<1>5. \A n \in names : /\ key[n] \in DOMAIN C \ DOMAIN R /\ key[n] \in InterfaceRows
                       /\ C[key[n]] = Sync!NewRow(n)
    BY <1>1, <1>2, <1>3
<1>6. \A r \in DOMAIN C \ DOMAIN R : \E n \in names : r = key[n] BY <1>2
<1>7. \A r \in DOMAIN R : C[r] = R[r] /\ r \in DOMAIN C BY <1>2
<1>8. RowsHold(C)
  <2>1. DOMAIN C \subseteq InterfaceRows BY <1>5, <1>6 DEF RowsHold
  <2>2. ASSUME NEW r \in DOMAIN C
        PROVE  /\ DOMAIN C[r] = Fields /\ C[r].name \in Names
               /\ C[r].lag \in DOMAIN C \cup {None} /\ C[r].mode \in {"none", "L2", "L3"}
    <3>1. CASE r \in DOMAIN R BY <1>7, <3>1 DEF RowsHold
    <3>2. CASE r \notin DOMAIN R BY <1>4, <1>5, <1>6, <3>2
    <3> QED BY <3>1, <3>2
  <2> QED BY <2>1, <2>2 DEF RowsHold
<1> QED BY <1>4, <1>5, <1>6, <1>7, <1>8

\* The name that is looked for is found.
LEMMA RowOfName ==
    ASSUME NEW R, NEW n, \E r \in DOMAIN R : R[r].name = n
    PROVE  Sync!RowOf(R, n) \in DOMAIN R /\ R[Sync!RowOf(R, n)].name = n
BY Zenon DEF Sync!RowOf

\* The rows that answers name take what these say, and keep their names.
LEMMA UpdatedRows ==
    ASSUME NEW C, RowsHold(C), NEW rep,
           \A n \in Sync!Seen(rep) : \E r \in DOMAIN C : C[r].name = n,
           NEW U, U = [r \in DOMAIN C |-> IF C[r].name \in Sync!Seen(rep)
                                         THEN Sync!Update(C, rep, r) ELSE C[r]]
    PROVE  /\ RowsHold(U) /\ DOMAIN U = DOMAIN C
           /\ \A r \in DOMAIN C : /\ U[r].name = C[r].name
                                  /\ C[r].name \notin Sync!Seen(rep) => U[r] = C[r]
           /\ \A r \in DOMAIN U :
                /\ U[r].name \in DOMAIN rep.lag =>
                     U[r].lag \in DOMAIN U /\ U[U[r].lag].name = rep.lag[U[r].name]
                /\ U[r].name \in Sync!Addressed(rep) =>
                     U[r].address = rep.brief[U[r].name].address
<1>1. DOMAIN U = DOMAIN C OBVIOUS
<1>2. ASSUME NEW r \in DOMAIN C, C[r].name \in Sync!Seen(rep)
      PROVE  /\ DOMAIN U[r] = Fields /\ U[r].name = C[r].name
             /\ U[r].mode \in {"none", "L2", "L3"}
             /\ U[r].lag = IF C[r].name \in DOMAIN rep.lag
                           THEN Sync!RowOf(C, rep.lag[C[r].name]) ELSE C[r].lag
             /\ U[r].address = IF C[r].name \in Sync!Addressed(rep)
                               THEN rep.brief[C[r].name].address ELSE C[r].address
  <2>1. U[r] = Sync!Update(C, rep, r) BY <1>2
  <2>2. Sync!Mode(rep, C[r].name, C[r]) \in {"none", "L2", "L3"}
      BY DEF Sync!Mode, RowsHold
  <2> QED BY <2>1, <2>2 DEF Sync!Update, Fields
<1>3. ASSUME NEW r \in DOMAIN C, C[r].name \notin Sync!Seen(rep) PROVE U[r] = C[r]
    BY <1>3
<1>4. ASSUME NEW n \in DOMAIN rep.lag
      PROVE  /\ n \in Sync!Seen(rep) /\ Sync!RowOf(C, rep.lag[n]) \in DOMAIN C
             /\ C[Sync!RowOf(C, rep.lag[n])].name = rep.lag[n]
  <2>1. n \in Sync!Seen(rep) /\ rep.lag[n] \in Sync!Seen(rep) BY DEF Sync!Seen
  <2> QED BY <2>1, RowOfName
<1>5. \A n \in Sync!Addressed(rep) : n \in Sync!Seen(rep) BY DEF Sync!Addressed, Sync!Seen
<1>6. \A r \in DOMAIN C : U[r].name = C[r].name BY <1>2, <1>3
<1>7. RowsHold(U)
  <2>1. ASSUME NEW r \in DOMAIN C
        PROVE  /\ DOMAIN U[r] = Fields /\ U[r].name \in Names
               /\ U[r].lag \in DOMAIN C \cup {None} /\ U[r].mode \in {"none", "L2", "L3"}
    <3>1. CASE C[r].name \in Sync!Seen(rep)
      <4>1. U[r].lag \in DOMAIN C \cup {None} BY <1>2, <1>4, <3>1 DEF RowsHold
      <4> QED BY <1>2, <3>1, <4>1 DEF RowsHold
    <3>2. CASE C[r].name \notin Sync!Seen(rep) BY <1>3, <3>2 DEF RowsHold
    <3> QED BY <3>1, <3>2
  <2> QED BY <1>1, <2>1 DEF RowsHold
<1> HIDE DEF RowsHold
<1>8. ASSUME NEW r \in DOMAIN C, C[r].name \in DOMAIN rep.lag
      PROVE  U[r].lag \in DOMAIN U /\ U[U[r].lag].name = rep.lag[C[r].name]
  <2>1. U[r].lag = Sync!RowOf(C, rep.lag[C[r].name]) BY <1>2, <1>4, <1>8
  <2> QED BY <1>1, <1>4, <1>6, <1>8, <2>1
<1>9. ASSUME NEW r \in DOMAIN C, C[r].name \in Sync!Addressed(rep)
      PROVE  U[r].address = rep.brief[C[r].name].address
    BY <1>2, <1>5, <1>9
<1> QED BY <1>1, <1>3, <1>6, <1>7, <1>8, <1>9

-----------------------------------------------------------------------------
(* Interfaces: the synchronizations                                          *)

SyncProcs == [at : {"idle", "loaded", "answered", "apply", "commit"},
              copy : Sync!DeviceRows \cup {<<>>}, stale : BOOLEAN, edited : BOOLEAN,
              report : Reports \cup {<<>>},
              kept : SUBSET InterfaceRows, deleted : SUBSET InterfaceRows]
Applying == {"apply", "commit"}

\* What a synchronization has loaded and chosen is still so, unless somebody has
\* edited it meanwhile.
Knows(e) ==
    /\ e.at \in {"answered", "apply", "commit"} => e.report \in Reports
    /\ e.at # "idle" /\ ~e.stale => e.copy = device
    /\ e.at = "commit" =>
         /\ e.kept \cap e.deleted = {}
         /\ Sync!Seen(e.report) = {} => e.deleted = {}
         /\ ~e.edited => /\ e.kept = Sync!Named(Sync!Seen(e.report))
                         /\ e.deleted = Sync!Gone(Sync!Seen(e.report))
                         /\ ~Sync!Twice(Sync!Seen(e.report))

SyncTyped ==
    /\ device \in Sync!DeviceRows /\ told \in Sync!DeviceRows /\ members \in Nat
    /\ syncs \in 0..MaxSyncs /\ directs \in 0..MaxDirect
    /\ exact \in BOOLEAN /\ fresh \in BOOLEAN
    /\ proc \in [Procs -> SyncProcs]
OneApplies == \A p, q \in Procs : proc[p].at \in Applying /\ proc[q].at \in Applying => p = q

SyncInv == /\ SyncTyped /\ RowsHold(rows) /\ OneApplies
           /\ \A p \in Procs : Knows(proc[p])
           /\ Sync!InterfacesFollow /\ Sync!DeviceFollows

\* Nothing has happened yet.
LEMMA SyncInit == ASSUME Sync!Init PROVE SyncInv
<1> USE DEF Sync!Init
<1>1. Sync!Idle \in SyncProcs /\ Sync!Idle.at = "idle" BY DEF Sync!Idle, SyncProcs
<1>2. MaxSyncs \in Nat /\ MaxDirect \in Nat
    BY OperationsAssumption DEF Assumptions, Sync!Assumptions
<1>3. SyncTyped
  <2>1. device \in Sync!DeviceRows /\ told = device BY DEF Sync!DeviceRows
  <2>2. proc \in [Procs -> SyncProcs] BY <1>1
  <2>3. 0 \in 0..MaxSyncs /\ 0 \in 0..MaxDirect BY <1>2
  <2> QED BY <2>1, <2>2, <2>3 DEF SyncTyped
<1>4. RowsHold(rows)
  <2>1. DOMAIN rows = {} OBVIOUS
  <2> QED BY <2>1 DEF RowsHold
<1>5. OneApplies /\ \A p \in Procs : Knows(proc[p]) BY <1>1 DEF OneApplies, Applying, Knows
<1>6. Sync!InterfacesFollow /\ Sync!DeviceFollows
    BY DEF Sync!InterfacesFollow, Sync!DeviceFollows
<1> QED BY <1>3, <1>4, <1>5, <1>6 DEF SyncInv

\* One synchronization goes on and writes nothing.
LEMMA SyncProceeds ==
    ASSUME SyncInv, NEW p \in Procs, NEW e \in SyncProcs, Knows(e),
           proc' = [proc EXCEPT ![p] = e],
           e.at \in Applying => \A q \in Procs \ {p} : proc[q].at \notin Applying,
           UNCHANGED <<rows, device, members, directs, last, exact, told, fresh>>,
           syncs' \in 0..MaxSyncs
    PROVE  SyncInv'
<1> USE DEF SyncInv
<1>1. \A q \in Procs : proc'[q] = IF q = p THEN e ELSE proc[q] BY DEF SyncTyped
<1>2. SyncTyped' BY DEF SyncTyped
<1>3. RowsHold(rows)' BY DEF RowsHold
<1>4. OneApplies' BY <1>1 DEF OneApplies
<1>5. \A q \in Procs : Knows(proc[q])'
  <2>1. \A q \in Procs : Knows(proc'[q]) BY <1>1
  <2>2. \A S : /\ Sync!Named(S)' = Sync!Named(S) /\ Sync!Gone(S)' = Sync!Gone(S)
               /\ Sync!Twice(S)' <=> Sync!Twice(S)
      BY DEF Sync!Named, Sync!Gone, Sync!Twice
  <2> QED BY <2>1, <2>2 DEF Knows
<1>6. Sync!InterfacesFollow' /\ Sync!DeviceFollows'
    BY DEF Sync!InterfacesFollow, Sync!DeviceFollows
<1> QED BY <1>2, <1>3, <1>4, <1>5, <1>6

\* It is given up.
LEMMA SyncGivenUp == ASSUME SyncInv, NEW p \in Procs, Sync!RollBack(p) PROVE SyncInv'
<1>1. Sync!Idle \in SyncProcs /\ Knows(Sync!Idle) /\ Sync!Idle.at \notin Applying
    BY DEF Sync!Idle, SyncProcs, Knows, Applying
<1>2. /\ proc' = [proc EXCEPT ![p] = Sync!Idle]
      /\ UNCHANGED <<rows, device, members, syncs, directs, last, exact, told, fresh>>
    BY DEF Sync!RollBack
<1>3. syncs' \in 0..MaxSyncs BY <1>2 DEF SyncInv, SyncTyped
<1> QED BY <1>1, <1>2, <1>3, SyncProceeds

\* Up to the choice of rows.
LEMMA SyncWorks ==
    ASSUME SyncInv, NEW p \in Procs,
           Sync!Load(p) \/ Sync!Collect(p) \/ Sync!LockRuntime(p) \/ Sync!Apply(p)
    PROVE  SyncInv'
<1>1. /\ proc \in [Procs -> SyncProcs] /\ syncs \in 0..MaxSyncs /\ proc[p] \in SyncProcs
      /\ Knows(proc[p]) /\ device \in Sync!DeviceRows
    BY DEF SyncInv, SyncTyped
<1>2. CASE Sync!Load(p)
  <2> DEFINE e == [Sync!Idle EXCEPT !.at = "loaded", !.copy = device]
  <2>1. /\ proc' = [proc EXCEPT ![p] = e] /\ syncs < MaxSyncs /\ syncs' = syncs + 1
        /\ UNCHANGED <<rows, device, members, directs, last, exact, told, fresh>>
      BY <1>2 DEF Sync!Load
  <2>2. e \in SyncProcs /\ e.at = "loaded" /\ e.copy = device
      BY <1>1 DEF Sync!Idle, SyncProcs
  <2>3. syncs' \in 0..MaxSyncs
      BY <1>1, <2>1, OperationsAssumption DEF Assumptions, Sync!Assumptions
  <2> HIDE DEF e
  <2>4. Knows(e) /\ e.at \notin Applying BY <2>2 DEF Knows, Applying
  <2> QED BY <2>1, <2>2, <2>3, <2>4, SyncProceeds
<1>3. CASE Sync!Collect(p)
  <2>1. /\ UNCHANGED <<rows, device, members, syncs, directs, last, exact, told, fresh>>
        /\ proc[p].at = "loaded"
        /\ \/ \E rep \in Reports : proc' = [proc EXCEPT ![p].at = "answered", ![p].report = rep]
           \/ proc' = [proc EXCEPT ![p] = Sync!Idle]
      BY <1>3 DEF Sync!Collect
  <2>2. CASE \E rep \in Reports : proc' = [proc EXCEPT ![p].at = "answered", ![p].report = rep]
    <3>1. PICK rep \in Reports : proc' = [proc EXCEPT ![p].at = "answered", ![p].report = rep]
        BY <2>2
    <3> DEFINE e == [proc[p] EXCEPT !.at = "answered", !.report = rep]
    <3>2. proc' = [proc EXCEPT ![p] = e] BY <1>1, <3>1 DEF SyncProcs
    <3>3. /\ e \in SyncProcs /\ e.at = "answered" /\ e.report = rep
          /\ e.stale = proc[p].stale /\ e.copy = proc[p].copy
        BY <1>1 DEF SyncProcs
    <3> HIDE DEF e
    <3>4. Knows(e) /\ e.at \notin Applying BY <1>1, <2>1, <3>3 DEF Knows, Applying
    <3>5. syncs' \in 0..MaxSyncs BY <1>1, <2>1
    <3> QED BY <2>1, <3>2, <3>3, <3>4, <3>5, SyncProceeds
  <2>3. CASE proc' = [proc EXCEPT ![p] = Sync!Idle]
    <3>1. Sync!RollBack(p) BY <2>1, <2>3 DEF Sync!RollBack
    <3> QED BY <3>1, SyncGivenUp
  <2> QED BY <2>1, <2>2, <2>3
<1>4. CASE Sync!LockRuntime(p)
  <2>1. /\ UNCHANGED <<rows, device, members, syncs, directs, last, exact, told, fresh>>
        /\ proc[p].at = "answered" /\ proc' = [proc EXCEPT ![p].at = "apply"]
        /\ \A q \in Procs \ {p} : proc[q].at \notin Applying
      BY <1>4 DEF Sync!LockRuntime, Sync!RuntimeFree, Applying
  <2> DEFINE e == [proc[p] EXCEPT !.at = "apply"]
  <2>2. proc' = [proc EXCEPT ![p] = e] BY <1>1, <2>1 DEF SyncProcs
  <2>3. /\ e \in SyncProcs /\ e.at = "apply" /\ e.report = proc[p].report
        /\ e.stale = proc[p].stale /\ e.copy = proc[p].copy
      BY <1>1 DEF SyncProcs
  <2> HIDE DEF e
  <2>4. Knows(e) BY <1>1, <2>1, <2>3 DEF Knows
  <2>5. syncs' \in 0..MaxSyncs BY <1>1, <2>1
  <2> QED BY <2>1, <2>2, <2>3, <2>4, <2>5, SyncProceeds
<1>5. CASE Sync!Apply(p)
  <2> DEFINE names == Sync!Seen(proc[p].report)
             e == [proc[p] EXCEPT !.at = "commit", !.edited = FALSE,
                                  !.kept = Sync!Named(names), !.deleted = Sync!Gone(names)]
  <2>1. CASE Sync!RollBack(p) BY <2>1, SyncGivenUp
  <2>2. CASE ~Sync!RollBack(p)
    <3>1. /\ UNCHANGED <<rows, device, members, syncs, directs, last, exact, told, fresh>>
          /\ proc[p].at = "apply" /\ ~Sync!Twice(names)
          /\ proc' = [proc EXCEPT ![p].at = "commit", ![p].edited = FALSE,
                                  ![p].kept = Sync!Named(names), ![p].deleted = Sync!Gone(names)]
        BY <1>5, <2>2 DEF Sync!Apply
    <3>2. proc' = [proc EXCEPT ![p] = e] BY <1>1, <3>1 DEF SyncProcs
    <3>3. /\ Sync!Named(names) \subseteq DOMAIN rows /\ Sync!Gone(names) \subseteq DOMAIN rows
          /\ Sync!Named(names) \cap Sync!Gone(names) = {}
          /\ names = {} => Sync!Gone(names) = {}
        BY DEF Sync!Named, Sync!Gone
    <3>4. /\ e \in SyncProcs /\ e.at = "commit" /\ e.report = proc[p].report
          /\ e.stale = proc[p].stale /\ e.copy = proc[p].copy /\ ~e.edited
          /\ e.kept = Sync!Named(names) /\ e.deleted = Sync!Gone(names)
      <4>1. Sync!Named(names) \subseteq InterfaceRows /\ Sync!Gone(names) \subseteq InterfaceRows
          BY <3>3 DEF SyncInv, RowsHold
      <4> HIDE DEF names
      <4> QED BY <1>1, <4>1 DEF SyncProcs
    <3> HIDE DEF e
    <3>5. Knows(e) BY <1>1, <3>1, <3>3, <3>4 DEF Knows
    <3>6. \A q \in Procs \ {p} : proc[q].at \notin Applying
        BY <3>1 DEF SyncInv, OneApplies, Applying
    <3>7. syncs' \in 0..MaxSyncs BY <1>1, <3>1
    <3> QED BY <3>1, <3>2, <3>4, <3>5, <3>6, <3>7, SyncProceeds
  <2> QED BY <2>1, <2>2
<1> QED BY <1>2, <1>3, <1>4, <1>5

\* The device's row, and who still knows it.
LEMMA AgeSteps ==
    ASSUME SyncTyped, NEW new, NEW q \in Procs
    PROVE  LET e == Sync!Age(new)[q] IN
           /\ e \in SyncProcs /\ e.at = proc[q].at /\ e.copy = proc[q].copy
           /\ e.edited = proc[q].edited /\ e.report = proc[q].report
           /\ e.kept = proc[q].kept /\ e.deleted = proc[q].deleted
           /\ ~e.stale => ~proc[q].stale /\ new = device
<1> DEFINE e == [proc[q] EXCEPT !.stale = TRUE]
<1>1. proc[q] \in SyncProcs BY DEF SyncTyped
<1>2. /\ e \in SyncProcs /\ e.at = proc[q].at /\ e.copy = proc[q].copy
      /\ e.edited = proc[q].edited /\ e.report = proc[q].report
      /\ e.kept = proc[q].kept /\ e.deleted = proc[q].deleted /\ e.stale
    BY <1>1 DEF SyncProcs
<1>3. Sync!Age(new)[q] = IF new # device THEN e ELSE proc[q] BY DEF Sync!Age
<1> HIDE DEF e
<1> QED BY <1>1, <1>2, <1>3

\* The device is left as the answers say, if the copy was not stale.
LEMMA SavedDevice ==
    ASSUME SyncTyped, NEW p \in Procs, NEW rep \in Reports, rep = proc[p].report,
           NEW new, new = Sync!SaveDevice(p),
           NEW said, said = [stacked |-> rep.stack > 1,
                             type |-> IF Sync!Model(rep) \in Types THEN Sync!Model(rep)
                                      ELSE device.type]
    PROVE  /\ new \in Sync!DeviceRows /\ said \in Sync!DeviceRows
           /\ proc[p].copy = device => new = said
<1>1. rep.stack \in Nat BY OperationsAssumption DEF Assumptions, Sync!Assumptions
<1>2. device \in [stacked : BOOLEAN, type : Types] BY DEF SyncTyped, Sync!DeviceRows
<1>3. Sync!Stacked(rep) = (rep.stack > 1) /\ Sync!Stacked(rep) \in BOOLEAN
    BY <1>1 DEF Sync!Stacked
<1>4. /\ Sync!SavedType(rep, proc[p].copy.type, device.type) \in Types
      /\ proc[p].copy = device =>
           Sync!SavedType(rep, proc[p].copy.type, device.type) = said.type
    BY <1>2 DEF Sync!SavedType
<1>5. /\ new.stacked \in BOOLEAN
      /\ proc[p].copy = device => new.stacked = said.stacked
    BY <1>2, <1>3 DEF Sync!SaveDevice
<1>6. new = [stacked |-> new.stacked,
             type |-> Sync!SavedType(rep, proc[p].copy.type, device.type)]
    BY DEF Sync!SaveDevice
<1>7. said.stacked \in BOOLEAN /\ said.type \in Types BY <1>2, <1>3
<1> QED BY <1>4, <1>5, <1>6, <1>7 DEF Sync!DeviceRows

\* What answers name are names.
LEMMA SeenNames == ASSUME NEW rep \in Reports PROVE Sync!Seen(rep) \subseteq Names
BY OperationsAssumption DEF Assumptions, Sync!Assumptions, Sync!Seen

\* The rows after answers are applied, in three steps.
Missing(p) ==
    {n \in Sync!Seen(proc[p].report) : \A r \in proc[p].kept : rows[r].name # n}
Left(p) == Sync!Without(rows, proc[p].deleted)
Complete(p) == Sync!Created(Left(p), Missing(p))
Applied(p) == [r \in DOMAIN Complete(p) |->
                 IF Complete(p)[r].name \in Sync!Seen(proc[p].report)
                 THEN Sync!Update(Complete(p), proc[p].report, r) ELSE Complete(p)[r]]

\* The rows are those of the answers.
FollowsAnswers(U, rep) ==
    /\ {U[r].name : r \in DOMAIN U} = Sync!Seen(rep)
    /\ \A q, r \in DOMAIN U : U[q].name = U[r].name => q = r
    /\ \A r \in DOMAIN U :
         /\ U[r].name \in DOMAIN rep.lag =>
              U[r].lag \in DOMAIN U /\ U[U[r].lag].name = rep.lag[U[r].name]
         /\ U[r].name \in Sync!Addressed(rep) => U[r].address = rep.brief[U[r].name].address

\* What is left is a part of the rows.
LEMMA LeftRows ==
    ASSUME NEW p, RowsHold(rows)
    PROVE  /\ RowsHold(Left(p)) /\ DOMAIN Left(p) = DOMAIN rows \ proc[p].deleted
           /\ \A r \in DOMAIN Left(p) :
                /\ Left(p)[r].name = rows[r].name
                /\ rows[r].lag \notin proc[p].deleted => Left(p)[r] = rows[r]
<1>1. RowsHold(Left(p)) BY WithoutRows DEF Left
<1>2. DOMAIN Left(p) = DOMAIN rows \ proc[p].deleted BY WithoutRows DEF Left
<1>3. \A r \in DOMAIN rows \ proc[p].deleted :
        /\ Left(p)[r].name = rows[r].name
        /\ rows[r].lag \notin proc[p].deleted => Left(p)[r] = rows[r]
    BY WithoutRows DEF Left
<1> QED BY <1>1, <1>2, <1>3

\* They are, unless an edit came between; and answers that name nothing change nothing.
LEMMA CommittedRows ==
    ASSUME SyncInv, NEW p \in Procs, NEW rep \in Reports, rep = proc[p].report,
           proc[p].at = "commit", proc[p].kept \subseteq DOMAIN rows,
           Sync!Keys(Missing(p), InterfaceRows \ DOMAIN Left(p)) # {}
    PROVE  /\ RowsHold(Applied(p))
           /\ Sync!Seen(rep) = {} => /\ DOMAIN Applied(p) = DOMAIN rows
                                     /\ \A r \in DOMAIN rows : Applied(p)[r] = rows[r]
           /\ Sync!Seen(rep) # {} /\ ~proc[p].edited => FollowsAnswers(Applied(p), rep)
<1> DEFINE kept == proc[p].kept
           deleted == proc[p].deleted
           seen == Sync!Seen(rep)
           names == Missing(p)
           left == Left(p)
           C == Complete(p)
           U == Applied(p)
<1>1. /\ RowsHold(rows) /\ kept \cap deleted = {} /\ (seen = {} => deleted = {})
      /\ ~proc[p].edited => /\ kept = Sync!Named(seen) /\ deleted = Sync!Gone(seen)
                            /\ ~Sync!Twice(seen)
    BY DEF SyncInv, Knows
<1>2. /\ RowsHold(left) /\ DOMAIN left = DOMAIN rows \ deleted
      /\ \A r \in DOMAIN left : /\ left[r].name = rows[r].name
                                /\ rows[r].lag \notin deleted => left[r] = rows[r]
    BY <1>1, LeftRows
<1>3. names \in SUBSET Names /\ names \subseteq seen BY SeenNames DEF Missing
<1>4. /\ RowsHold(C) /\ DOMAIN left \subseteq DOMAIN C
      /\ \A r \in DOMAIN left : C[r] = left[r]
      /\ \A r \in DOMAIN C \ DOMAIN left : C[r].name \in names
      /\ \A n \in names : \E r \in DOMAIN C : C[r].name = n
      /\ \A q, r \in DOMAIN C \ DOMAIN left : C[q].name = C[r].name => q = r
    BY <1>2, <1>3, CreatedRows DEF Complete
<1>5. ASSUME NEW n \in seen PROVE \E r \in DOMAIN C : C[r].name = n
  <2>1. CASE n \in names BY <1>4, <2>1
  <2>2. CASE n \notin names
    <3>1. PICK r \in kept : rows[r].name = n BY <2>2 DEF Missing
    <3>2. r \in DOMAIN left BY <1>1, <1>2, <3>1
    <3> QED BY <1>2, <1>4, <3>1, <3>2
  <2> QED BY <2>1, <2>2
<1>6. /\ RowsHold(U) /\ DOMAIN U = DOMAIN C
      /\ \A r \in DOMAIN C : /\ U[r].name = C[r].name
                             /\ C[r].name \notin seen => U[r] = C[r]
      /\ \A r \in DOMAIN U :
           /\ U[r].name \in DOMAIN rep.lag =>
                U[r].lag \in DOMAIN U /\ U[U[r].lag].name = rep.lag[U[r].name]
           /\ U[r].name \in Sync!Addressed(rep) =>
                U[r].address = rep.brief[U[r].name].address
    BY <1>4, <1>5, UpdatedRows DEF Applied
<1>7. ASSUME seen = {}
      PROVE  DOMAIN U = DOMAIN rows /\ \A r \in DOMAIN rows : U[r] = rows[r]
  <2>1. names = {} /\ deleted = {} BY <1>1, <1>3, <1>7
  <2>2. DOMAIN C = DOMAIN left /\ DOMAIN left = DOMAIN rows BY <1>2, <1>4, <2>1
  <2> QED BY <1>2, <1>4, <1>6, <1>7, <2>1, <2>2
<1>8. ASSUME seen # {}, ~proc[p].edited
      PROVE  /\ {U[r].name : r \in DOMAIN U} = seen
             /\ \A q, r \in DOMAIN U : U[q].name = U[r].name => q = r
  <2>1. /\ kept = {r \in DOMAIN rows : rows[r].name \in seen}
        /\ deleted = DOMAIN rows \ kept
      BY <1>1, <1>8 DEF Sync!Named, Sync!Gone
  <2>2. DOMAIN left = kept BY <1>2, <2>1
  <2>3. ASSUME NEW r \in DOMAIN C PROVE C[r].name \in seen
    <3>1. CASE r \in kept BY <1>2, <1>4, <2>1, <2>2, <3>1
    <3>2. CASE r \notin kept BY <1>3, <1>4, <2>2, <3>2
    <3> QED BY <3>1, <3>2
  <2>4. {U[r].name : r \in DOMAIN U} = seen BY <1>5, <1>6, <2>3
  <2>5. ASSUME NEW q \in DOMAIN C, NEW r \in DOMAIN C, C[q].name = C[r].name PROVE q = r
    <3>1. CASE q \in kept /\ r \in kept
      <4>1. rows[q].name = rows[r].name /\ rows[q].name \in seen
          BY <1>2, <1>4, <2>1, <2>2, <2>5, <3>1
      <4> QED BY <1>1, <1>8, <2>1, <3>1, <4>1 DEF Sync!Twice
    <3>2. CASE q \notin kept /\ r \notin kept BY <1>4, <2>2, <2>5, <3>2
    <3>3. ASSUME NEW a \in kept, NEW b \in DOMAIN C \ kept, C[a].name = C[b].name
          PROVE  FALSE
      <4>1. C[b].name \in names /\ C[a].name = rows[a].name BY <1>2, <1>4, <2>2, <3>3
      <4> QED BY <3>3, <4>1 DEF Missing
    <3> QED BY <2>5, <3>1, <3>2, <3>3
  <2> QED BY <1>6, <2>4, <2>5
<1> QED BY <1>6, <1>7, <1>8 DEF FollowsAnswers

\* Answers are committed: the interfaces and the device are as they say.
LEMMA SyncCommits == ASSUME SyncInv, NEW p \in Procs, Sync!Commit(p) PROVE SyncInv'
<1> DEFINE rep == proc[p].report
           seen == Sync!Seen(rep)
           said == [stacked |-> rep.stack > 1,
                    type |-> IF Sync!Model(rep) \in Types THEN Sync!Model(rep) ELSE device.type]
<1>1. /\ proc[p].at = "commit" /\ rep \in Reports
      /\ SyncTyped /\ RowsHold(rows) /\ OneApplies /\ \A q \in Procs : Knows(proc[q])
      /\ Sync!InterfacesFollow /\ Sync!DeviceFollows
    BY DEF Sync!Commit, Knows, SyncInv
<1>2. CASE ~(proc[p].kept \subseteq DOMAIN rows)
  <2>1. Sync!RollBack(p) BY <1>2 DEF Sync!Commit
  <2> QED BY <2>1, SyncGivenUp
<1>3. CASE proc[p].kept \subseteq DOMAIN rows
  <2>1. /\ Sync!Keys(Missing(p), InterfaceRows \ DOMAIN Left(p)) # {}
        /\ rows' = Applied(p)
        /\ members' = (IF rep.stack > 0 THEN rep.stack ELSE members)
        /\ device' = Sync!SaveDevice(p) /\ told' = said
        /\ proc' = [Sync!Age(Sync!SaveDevice(p)) EXCEPT ![p] = Sync!Idle]
        /\ IF seen = {} THEN UNCHANGED <<last, exact>>
           ELSE last' = {rep} /\ exact' = ~proc[p].edited
        /\ fresh' = ~proc[p].stale /\ UNCHANGED <<syncs, directs>>
      BY <1>3 DEF Sync!Commit, Missing, Left, Complete, Applied
  <2>2. /\ RowsHold(rows')
        /\ seen = {} => DOMAIN rows' = DOMAIN rows /\ \A r \in DOMAIN rows : rows'[r] = rows[r]
        /\ seen # {} /\ ~proc[p].edited => FollowsAnswers(rows', rep)
      BY <1>1, <1>3, <2>1, CommittedRows
  <2>3. /\ device' \in Sync!DeviceRows /\ told' \in Sync!DeviceRows
        /\ proc[p].copy = device => device' = told'
      BY <1>1, <2>1, SavedDevice
  <2>4. /\ Sync!Idle \in SyncProcs /\ Sync!Idle.at = "idle" BY DEF Sync!Idle, SyncProcs
  <2>5. \A q \in Procs : proc'[q] = IF q = p THEN Sync!Idle
                                    ELSE Sync!Age(Sync!SaveDevice(p))[q]
      BY <2>1 DEF Sync!Age
  <2>6. ASSUME NEW q \in Procs \ {p}
        PROVE  /\ proc'[q] \in SyncProcs /\ proc'[q].at = proc[q].at
               /\ proc'[q].copy = proc[q].copy /\ proc'[q].report = proc[q].report
               /\ ~proc'[q].stale => ~proc[q].stale /\ device' = device
      BY <1>1, <2>1, <2>5, AgeSteps
  <2>7. \A q \in Procs \ {p} : proc'[q].at \notin Applying
      BY <1>1, <2>6 DEF OneApplies, Applying
  <2>8. SyncTyped'
    <3>1. proc' \in [Procs -> SyncProcs]
      <4>1. proc' = [q \in Procs |-> proc'[q]] BY <2>1 DEF Sync!Age
      <4> QED BY <2>4, <2>5, <2>6, <4>1
    <3>2. members' \in Nat
      <4>1. rep.stack \in Nat BY <1>1, OperationsAssumption DEF Assumptions, Sync!Assumptions
      <4> QED BY <1>1, <2>1, <4>1 DEF SyncTyped
    <3>3. exact' \in BOOLEAN /\ fresh' \in BOOLEAN BY <1>1, <2>1 DEF SyncTyped, SyncProcs
    <3> QED BY <1>1, <2>1, <2>3, <3>1, <3>2, <3>3 DEF SyncTyped
  <2>9. RowsHold(rows)' BY <2>2 DEF RowsHold
  <2>10. OneApplies' BY <2>4, <2>5, <2>7 DEF OneApplies, Applying
  <2>11. \A q \in Procs : Knows(proc[q])'
    <3>1. Knows(proc[p])' BY <2>4, <2>5 DEF Knows
    <3>2. ASSUME NEW q \in Procs \ {p} PROVE Knows(proc[q])'
      <4>1. Knows(proc[q]) BY <1>1
      <4>2. proc'[q].at # "commit" BY <2>7 DEF Applying
      <4> QED BY <2>6, <4>1, <4>2 DEF Knows
    <3> QED BY <3>1, <3>2
  <2>12. Sync!InterfacesFollow'
    <3>1. CASE seen = {}
      <4>1. /\ UNCHANGED <<last, exact>>
            /\ DOMAIN rows' = DOMAIN rows /\ \A r \in DOMAIN rows : rows'[r] = rows[r]
          BY <2>1, <2>2, <3>1
      <4>2. {rows'[r].name : r \in DOMAIN rows'} = {rows[r].name : r \in DOMAIN rows}
          BY <4>1
      <4> QED BY <1>1, <4>1, <4>2 DEF Sync!InterfacesFollow
    <3>2. CASE seen # {}
      <4>1. last' = {rep} /\ exact' = ~proc[p].edited BY <2>1, <3>2
      <4> QED BY <2>2, <3>2, <4>1 DEF Sync!InterfacesFollow, FollowsAnswers
    <3> QED BY <3>1, <3>2
  <2>13. Sync!DeviceFollows'
    <3>1. proc[p].copy = device \/ proc[p].stale BY <1>1 DEF Knows
    <3> QED BY <2>1, <2>3, <3>1 DEF Sync!DeviceFollows
  <2> QED BY <2>8, <2>9, <2>10, <2>11, <2>12, <2>13 DEF SyncInv
<1> QED BY <1>2, <1>3

\* Interfaces are edited: those at work learn of it.
LEMMA SyncEditsRows ==
    ASSUME SyncInv, Sync!Direct, Sync!Edited, RowsHold(rows'),
           UNCHANGED <<device, members, syncs, last, told, fresh>>
    PROVE  SyncInv'
<1>1. /\ SyncTyped /\ OneApplies /\ Sync!DeviceFollows /\ \A q \in Procs : Knows(proc[q])
    BY DEF SyncInv
<1>2. ASSUME NEW q \in Procs
      PROVE  /\ proc'[q] \in SyncProcs /\ proc'[q].at = proc[q].at /\ proc'[q].edited
             /\ proc'[q].copy = proc[q].copy /\ proc'[q].stale = proc[q].stale
             /\ proc'[q].report = proc[q].report
             /\ proc'[q].kept = proc[q].kept /\ proc'[q].deleted = proc[q].deleted
  <2>1. proc[q] \in SyncProcs BY <1>1 DEF SyncTyped
  <2>2. proc'[q] = [proc[q] EXCEPT !.edited = TRUE] BY DEF Sync!Edited
  <2> QED BY <2>1, <2>2 DEF SyncProcs
<1>3. SyncTyped'
  <2>1. proc' = [q \in Procs |-> proc'[q]] /\ exact' = FALSE BY DEF Sync!Edited
  <2>2. directs' \in 0..MaxDirect
      BY <1>1, OperationsAssumption DEF Sync!Direct, SyncTyped, Assumptions, Sync!Assumptions
  <2>3. proc' \in [Procs -> SyncProcs] BY <1>2, <2>1
  <2> QED BY <1>1, <2>1, <2>2, <2>3 DEF SyncTyped
<1>4. OneApplies' BY <1>1, <1>2 DEF OneApplies
<1>5. ASSUME NEW q \in Procs PROVE Knows(proc[q])'
  <2>1. Knows(proc[q]) BY <1>1
  <2> QED BY <1>2, <2>1 DEF Knows
<1>6. Sync!InterfacesFollow' BY DEF Sync!Edited, Sync!InterfacesFollow
<1>7. Sync!DeviceFollows' BY <1>1 DEF Sync!DeviceFollows
<1>8. RowsHold(rows)' BY DEF RowsHold
<1> QED BY <1>3, <1>4, <1>5, <1>6, <1>7, <1>8 DEF SyncInv

\* The admin and the API edit.
LEMMA SyncEdits ==
    ASSUME SyncInv,
           \/ \E n \in Names : Sync!AddInterface(n)
           \/ \E r \in InterfaceRows : Sync!DeleteInterface(r)
           \/ Sync!EditDevice
    PROVE  SyncInv'
<1>1. ASSUME NEW n \in Names, Sync!AddInterface(n) PROVE SyncInv'
  <2>1. PICK r \in InterfaceRows \ DOMAIN rows : rows' = Sync!Put(rows, r, Sync!NewRow(n))
      BY <1>1 DEF Sync!AddInterface
  <2>2. /\ DOMAIN rows' = {r} \cup DOMAIN rows
        /\ \A x \in DOMAIN rows' : rows'[x] = IF x = r THEN Sync!NewRow(n) ELSE rows[x]
      BY <2>1 DEF Sync!Put
  <2>3. /\ DOMAIN Sync!NewRow(n) = Fields /\ Sync!NewRow(n).name = n
        /\ Sync!NewRow(n).lag = None /\ Sync!NewRow(n).mode = "none"
      BY DEF Sync!NewRow, Fields
  <2>4. RowsHold(rows) BY DEF SyncInv
  <2>5. RowsHold(rows') BY <2>2, <2>3, <2>4 DEF RowsHold
  <2> QED BY <1>1, <2>5, SyncEditsRows DEF Sync!AddInterface
<1>2. ASSUME NEW r \in InterfaceRows, Sync!DeleteInterface(r) PROVE SyncInv'
  <2>1. RowsHold(rows) /\ rows' = Sync!Without(rows, {r}) BY <1>2 DEF SyncInv, Sync!DeleteInterface
  <2>2. RowsHold(Sync!Without(rows, {r})) BY <2>1, WithoutRows
  <2>3. RowsHold(rows') BY <2>1, <2>2
  <2> QED BY <1>2, <2>3, SyncEditsRows DEF Sync!DeleteInterface
<1>3. CASE Sync!EditDevice
  <2>1. /\ Sync!Direct /\ device' \in Sync!DeviceRows /\ device' # device
        /\ proc' = Sync!Age(device') /\ fresh' = FALSE
        /\ UNCHANGED <<rows, members, syncs, last, exact, told>>
      BY <1>3 DEF Sync!EditDevice
  <2>2. /\ SyncTyped /\ RowsHold(rows) /\ OneApplies /\ \A q \in Procs : Knows(proc[q])
        /\ Sync!InterfacesFollow
      BY DEF SyncInv
  <2>3. ASSUME NEW q \in Procs
        PROVE  /\ proc'[q] \in SyncProcs /\ proc'[q].at = proc[q].at /\ proc'[q].stale
               /\ proc'[q].edited = proc[q].edited /\ proc'[q].report = proc[q].report
               /\ proc'[q].kept = proc[q].kept /\ proc'[q].deleted = proc[q].deleted
    <3>1. /\ proc[q] \in SyncProcs /\ proc'[q] = [proc[q] EXCEPT !.stale = TRUE]
        BY <2>1, <2>2 DEF SyncTyped, Sync!Age
    <3> QED BY <3>1 DEF SyncProcs
  <2>4. SyncTyped'
    <3>1. proc' = [q \in Procs |-> proc'[q]] BY <2>1 DEF Sync!Age
    <3>2. directs' \in 0..MaxDirect
        BY <2>1, <2>2, OperationsAssumption
        DEF Sync!Direct, SyncTyped, Assumptions, Sync!Assumptions
    <3>3. proc' \in [Procs -> SyncProcs] BY <2>3, <3>1
    <3> QED BY <2>1, <2>2, <3>2, <3>3 DEF SyncTyped
  <2>5. OneApplies' BY <2>2, <2>3 DEF OneApplies
  <2>6. ASSUME NEW q \in Procs PROVE Knows(proc[q])'
    <3>1. Knows(proc[q]) BY <2>2
    <3>2. \A S : /\ Sync!Named(S)' = Sync!Named(S) /\ Sync!Gone(S)' = Sync!Gone(S)
                 /\ Sync!Twice(S)' <=> Sync!Twice(S)
        BY <2>1 DEF Sync!Named, Sync!Gone, Sync!Twice
    <3> QED BY <2>3, <3>1, <3>2 DEF Knows
  <2>7. Sync!InterfacesFollow' /\ Sync!DeviceFollows' /\ RowsHold(rows)'
      BY <2>1, <2>2 DEF Sync!InterfacesFollow, Sync!DeviceFollows, RowsHold
  <2> QED BY <2>4, <2>5, <2>6, <2>7 DEF SyncInv
<1> QED BY <1>1, <1>2, <1>3

\* Each step of the interfaces keeps the invariant.
LEMMA InterfacesStep == ASSUME SyncInv, Sync!Next PROVE SyncInv'
<1>1. ASSUME NEW p \in Procs,
             Sync!Load(p) \/ Sync!Collect(p) \/ Sync!LockRuntime(p) \/ Sync!Apply(p)
      PROVE  SyncInv'
    BY <1>1, SyncWorks
<1>2. ASSUME NEW p \in Procs, Sync!Commit(p) PROVE SyncInv' BY <1>2, SyncCommits
<1>3. ASSUME NEW p \in Procs, Sync!Fail(p) PROVE SyncInv' BY <1>3, SyncGivenUp DEF Sync!Fail
<1>4. ASSUME \/ \E n \in Names : Sync!AddInterface(n)
             \/ \E r \in InterfaceRows : Sync!DeleteInterface(r)
             \/ Sync!EditDevice
      PROVE  SyncInv'
    BY <1>4, SyncEdits
<1> QED BY <1>1, <1>2, <1>3, <1>4 DEF Sync!Next

\* A step that leaves the interfaces alone keeps it.
LEMMA SyncStutter ==
    ASSUME SyncInv, UNCHANGED <<rows, proc, directs, exact, syncVars>> PROVE SyncInv'
<1> USE DEF syncVars
<1>1. /\ SyncTyped /\ RowsHold(rows) /\ OneApplies /\ \A q \in Procs : Knows(proc[q])
      /\ Sync!InterfacesFollow /\ Sync!DeviceFollows
    BY DEF SyncInv
<1>2. SyncTyped' /\ RowsHold(rows)' /\ OneApplies' BY <1>1 DEF SyncTyped, RowsHold, OneApplies
<1>3. \A q \in Procs : Knows(proc[q])'
  <2>1. \A S : /\ Sync!Named(S)' = Sync!Named(S) /\ Sync!Gone(S)' = Sync!Gone(S)
               /\ Sync!Twice(S)' <=> Sync!Twice(S)
      BY DEF Sync!Named, Sync!Gone, Sync!Twice
  <2> QED BY <1>1, <2>1 DEF Knows
<1>4. Sync!InterfacesFollow' /\ Sync!DeviceFollows'
    BY <1>1 DEF Sync!InterfacesFollow, Sync!DeviceFollows
<1> QED BY <1>2, <1>3, <1>4 DEF SyncInv

\* So it always holds.
LEMMA SyncAlways == Spec => [](part = "sync" => SyncInv)
<1> DEFINE I == part = "sync" => SyncInv
<1>1. Init => I BY SyncInit DEF Init
<1>2. I /\ [Next]_vars => I'
  <2> SUFFICES ASSUME I, [Next]_vars, part' = "sync" PROVE SyncInv' OBVIOUS
  <2>1. part = "sync" BY DEF Next, vars
  <2>2. CASE UNCHANGED vars BY <2>1, <2>2, SyncStutter DEF vars
  <2>3. CASE Next
    <3>1. Sync!Next BY <2>1, <2>3 DEF Next
    <3> QED BY <2>1, <3>1, InterfacesStep
  <2> QED BY <2>2, <2>3
<1> QED BY <1>1, <1>2, PTL DEF Spec

\* The interfaces' variables have their types.
LEMMA SyncTypeOK == ASSUME SyncInv PROVE Sync!TypeOK
<1>1. SyncTyped /\ RowsHold(rows) /\ \A q \in Procs : Knows(proc[q]) BY DEF SyncInv
<1>2. \A q \in Procs : proc[q] \in SyncProcs BY <1>1 DEF SyncTyped
<1>3. \A q \in Procs : /\ proc[q].at \in {"idle", "loaded", "answered", "apply", "commit"}
                       /\ proc[q].at \in {"answered", "apply", "commit"} =>
                            proc[q].report \in Reports
    BY <1>1, <1>2 DEF SyncProcs, Knows
<1> QED BY <1>1, <1>3 DEF SyncTyped, RowsHold, Sync!TypeOK

\* The interfaces and the device's row are those of the answers applied last, however
\* synchronizations of the device overlap and whatever they load, unless they were
\* edited since or compared with a stale copy.
THEOREM AnswersAlwaysFollow == Spec => []AnswersFollow
<1>1. (part = "sync" => SyncInv) => AnswersFollow BY DEF SyncInv, AnswersFollow
<1> QED BY <1>1, SyncAlways, PTL
-----------------------------------------------------------------------------
(* Runtime rows.  That a row shows what was measured is not inductive: the   *)
(* next save may write a row loaded long ago.  StatusInv adds what such a    *)
(* row still is: as long as nobody has overtaken its writer and the device   *)
(* is there, it is the committed row (LoadedIsCommitted).  It rests on a     *)
(* transaction that has inserted or written a row keeping its device from    *)
(* being deleted (HeldIsPresent).                                            *)

WriterEntries == [at : {"idle", "load", "loaded", "written"}, kind : {"check", "scan", "sync"},
            todo : SUBSET Devices, device : SUBSET Devices, fields : SUBSET Runtime!Probes,
            found : {<<>>} \cup Runtime!Answers, row : Runtime!Statuses,
            new : BOOLEAN, overtaken : BOOLEAN]
EntryInOrder(e) ==
    /\ e.at \in {"loaded", "written"} => \E d \in Devices : e.device = {d}
    /\ e.at = "written" => e.kind = "sync" /\ e.found \in Runtime!Answers
    /\ e.kind = "scan" => e.fields = Runtime!Probes

StatusTyped ==
    /\ present \subseteq Devices /\ DOMAIN status \subseteq present
    /\ \A d \in DOMAIN status : status[d] \in Runtime!Statuses
    /\ measured \in [Devices -> Runtime!Statuses]
    /\ exact \subseteq (DOMAIN status) \X Runtime!Fields
WritersTyped ==
    /\ writer \in [Procs -> WriterEntries]
    /\ \A w \in Procs : EntryInOrder(writer[w])
HeldIsPresent == \A w \in Procs, d \in Devices : Runtime!Holds(w, d) => d \in present
LoadedIsCommitted ==
    \A w \in Procs, d \in Devices :
      Runtime!On(w, d) /\ Runtime!Whole(w) /\ ~writer[w].overtaken /\ d \in present =>
        d \in DOMAIN status /\ writer[w].row = status[d]

StatusInv == /\ StatusTyped /\ WritersTyped /\ HeldIsPresent /\ LoadedIsCommitted
             /\ Runtime!MeasuredStays

(***************************************************************************)
(* Rows                                                                    *)
(***************************************************************************)

\* Some fields over a row make a row.
LEMMA OverFields ==
  ASSUME NEW S \in SUBSET Runtime!Fields, NEW g \in [S -> {0, 1}], NEW r \in Runtime!Statuses
  PROVE  /\ Runtime!Over(g, r) \in Runtime!Statuses
         /\ \A f \in Runtime!Fields : Runtime!Over(g, r)[f] = IF f \in S THEN g[f] ELSE r[f]
BY DEF Runtime!Over, Runtime!Statuses

\* Putting a row leaves the others.
LEMMA PutRow ==
  ASSUME NEW d, NEW row
  PROVE  /\ DOMAIN Runtime!Put(d, row) = {d} \cup DOMAIN status
         /\ \A x \in DOMAIN Runtime!Put(d, row) :
              Runtime!Put(d, row)[x] = IF x = d THEN row ELSE status[x]
BY DEF Runtime!Put, Runtime!Over

\* What a device answers are values of fields.
LEMMA AnswerFields ==
  ASSUME NEW found \in Runtime!Answers
  PROVE  DOMAIN found \subseteq Runtime!Fields /\ found \in [DOMAIN found -> {0, 1}]
BY DEF Runtime!Answers, Runtime!Fields, Runtime!Probes

\* Idle is an entry in order.
LEMMA IdleWriter == Runtime!Idle \in WriterEntries /\ EntryInOrder(Runtime!Idle)
<1>1. Runtime!Created \in Runtime!Statuses  BY DEF Runtime!Created, Runtime!Statuses
<1> QED BY <1>1 DEF Runtime!Idle, WriterEntries, EntryInOrder, Runtime!Probes

(***************************************************************************)
(* Steps that leave the rows as they are                                   *)
(***************************************************************************)

\* A writer that goes on to an entry which holds no row, or none that is
\* saved as a whole, preserves the inductive invariant.
LEMMA OnlyWriter ==
  ASSUME StatusInv, NEW w \in Procs, NEW e \in WriterEntries, EntryInOrder(e),
         writer' = [writer EXCEPT ![w] = e],
         UNCHANGED <<present, status, measured, exact>>,
         e.at \in {"loaded", "written"} =>
            /\ e.kind = "sync"
            /\ \A d \in Devices : e.device = {d} /\ (e.new \/ e.at = "written") => d \in present
  PROVE  StatusInv'
<1>1. writer'[w] = e /\ \A v \in Procs \ {w} : writer'[v] = writer[v]
  BY DEF StatusInv, WritersTyped
<1>2. StatusTyped' /\ Runtime!MeasuredStays'  BY DEF StatusInv, StatusTyped, Runtime!MeasuredStays
<1>3. WritersTyped'  BY <1>1 DEF StatusInv, WritersTyped
<1>4. HeldIsPresent'  BY <1>1 DEF StatusInv, HeldIsPresent, Runtime!Holds, Runtime!On
<1>5. LoadedIsCommitted'  BY <1>1 DEF StatusInv, LoadedIsCommitted, Runtime!On, Runtime!Whole
<1> QED BY <1>2, <1>3, <1>4, <1>5 DEF StatusInv

\* Ends preserves it.
LEMMA WriterEnds ==
  ASSUME StatusInv, NEW w \in Procs, Runtime!Ends(w), UNCHANGED <<present, status, measured, exact>>
  PROVE  StatusInv'
BY OnlyWriter, IdleWriter DEF Runtime!Ends, Runtime!Idle

\* Start preserves it.
LEMMA WriterStarts ==
  ASSUME StatusInv, NEW w \in Procs, Runtime!Start(w)
  PROVE  StatusInv'
<1>1. PICK e : /\ writer' = [writer EXCEPT ![w] = e] /\ e.at = "load"
               /\ e \in WriterEntries /\ EntryInOrder(e)
  <2>1. Runtime!Idle \in WriterEntries  BY IdleWriter
  <2>2. ASSUME NEW D \in SUBSET Devices, NEW fields \in SUBSET Runtime!Probes
        PROVE  LET e == [Runtime!Idle EXCEPT !.at = "load", !.todo = D, !.fields = fields] IN
               e \in WriterEntries /\ EntryInOrder(e) /\ e.at = "load"
    BY <2>1 DEF Runtime!Idle, WriterEntries, EntryInOrder
  <2>3. ASSUME NEW d \in Devices
        PROVE  LET e == [Runtime!Idle EXCEPT !.at = "load", !.kind = "scan", !.todo = {d},
                                     !.fields = Runtime!Probes] IN
               e \in WriterEntries /\ EntryInOrder(e) /\ e.at = "load"
    BY <2>1 DEF Runtime!Idle, WriterEntries, EntryInOrder
  <2>4. ASSUME NEW d \in Devices
        PROVE  LET e == [Runtime!Idle EXCEPT !.at = "load", !.kind = "sync", !.todo = {d}] IN
               e \in WriterEntries /\ EntryInOrder(e) /\ e.at = "load"
    BY <2>1 DEF Runtime!Idle, WriterEntries, EntryInOrder
  <2> QED BY <2>2, <2>3, <2>4 DEF Runtime!Start
<1> QED BY <1>1, OnlyWriter DEF Runtime!Start

\* SaveFields preserves it: a transaction that has inserted the row, or that
\* found it, is about a device that is there.
LEMMA FieldsSaved ==
  ASSUME StatusInv, NEW w \in Procs, Runtime!SaveFields(w)
  PROVE  StatusInv'
<1>1. PICK d \in writer[w].device :
        IF writer[w].new \/ d \in DOMAIN status
        THEN \E found \in Runtime!Answers :
               writer' = [writer EXCEPT ![w].at = "written", ![w].found = found]
        ELSE Runtime!Ends(w)
  BY DEF Runtime!SaveFields
<1>2. writer[w] \in WriterEntries /\ EntryInOrder(writer[w])  BY DEF StatusInv, WritersTyped
<1>3. writer[w].at = "loaded" /\ writer[w].kind = "sync" /\ d \in Devices
      /\ writer[w].device = {d}
  BY <1>1, <1>2 DEF Runtime!SaveFields, Runtime!Whole, EntryInOrder, WriterEntries
<1>4. CASE writer[w].new \/ d \in DOMAIN status
  <2>1. PICK found \in Runtime!Answers :
          writer' = [writer EXCEPT ![w].at = "written", ![w].found = found]
    BY <1>1, <1>4
  <2> DEFINE e == [writer[w] EXCEPT !.at = "written", !.found = found]
  <2>2. writer' = [writer EXCEPT ![w] = e]  BY <2>1 DEF StatusInv, WritersTyped
  <2>3. e \in WriterEntries /\ e.at = "written" /\ e.kind = "sync" /\ e.device = {d}
        /\ e.found \in Runtime!Answers
    BY <1>2, <1>3 DEF WriterEntries
  <2>4. EntryInOrder(e)  BY <1>3, <2>3 DEF EntryInOrder
  <2>5. d \in present
    BY <1>3, <1>4 DEF StatusInv, HeldIsPresent, Runtime!Holds, Runtime!On, StatusTyped
  <2> HIDE DEF e
  <2> QED BY <2>2, <2>3, <2>4, <2>5, OnlyWriter DEF Runtime!SaveFields
<1>5. CASE ~(writer[w].new \/ d \in DOMAIN status)
  BY <1>1, <1>5, WriterEnds DEF Runtime!SaveFields
<1> QED BY <1>4, <1>5

\* DeleteDevice preserves it: the row goes with the device, and nobody holds it.
LEMMA DeviceGoes ==
  ASSUME StatusInv, NEW d \in Devices, Runtime!DeleteDevice(d)
  PROVE  StatusInv'
<1>1. /\ present' = present \ {d} /\ DOMAIN status' = DOMAIN status \ {d}
      /\ \A x \in DOMAIN status' : status'[x] = status[x]
      /\ exact' = exact \ ({d} \X Runtime!Fields)
      /\ UNCHANGED <<writer, measured>>
  BY DEF Runtime!DeleteDevice
<1>2. StatusTyped' /\ WritersTyped'  BY <1>1 DEF StatusInv, StatusTyped, WritersTyped
<1>3. HeldIsPresent'
  BY <1>1 DEF StatusInv, HeldIsPresent, Runtime!Holds, Runtime!On, Runtime!DeleteDevice
<1>4. LoadedIsCommitted'  BY <1>1 DEF StatusInv, LoadedIsCommitted, Runtime!On, Runtime!Whole
<1>5. Runtime!MeasuredStays'
  <2> SUFFICES ASSUME NEW x \in exact' PROVE status'[x[1]][x[2]] = measured[x[1]][x[2]]
    BY <1>1 DEF Runtime!MeasuredStays
  <2>1. x \in exact /\ x[1] \in DOMAIN status'  BY <1>1, <1>2 DEF StatusTyped
  <2> QED BY <1>1, <2>1 DEF StatusInv, Runtime!MeasuredStays
<1> QED BY <1>2, <1>3, <1>4, <1>5 DEF StatusInv

(***************************************************************************)
(* Steps that write a row                                                  *)
(***************************************************************************)

\* Load preserves it: who inserts the row is the first to load it.
LEMMA WriterLoads ==
  ASSUME StatusInv, NEW w \in Procs, Runtime!Load(w)
  PROVE  StatusInv'
<1>1. PICK d \in writer[w].todo :
        IF d \notin present THEN Runtime!Ends(w) /\ UNCHANGED <<status, exact>>
        ELSE /\ status' = IF d \in DOMAIN status \/ ~Runtime!Whole(w) THEN status
                          ELSE Runtime!Put(d, Runtime!Created)
             /\ writer' = [writer EXCEPT ![w] =
                   [writer[w] EXCEPT !.at = "loaded", !.todo = @ \ {d}, !.device = {d},
                                      !.new = ~Runtime!Whole(w) /\ d \notin DOMAIN status,
                                      !.row = IF d \in DOMAIN status THEN status[d] ELSE Runtime!Created]]
             /\ UNCHANGED exact
  BY DEF Runtime!Load
<1>2. UNCHANGED <<present, measured>>  BY DEF Runtime!Load
<1>3. writer[w] \in WriterEntries /\ EntryInOrder(writer[w]) /\ d \in Devices
      /\ writer[w].at = "load"
  BY DEF StatusInv, WritersTyped, WriterEntries, Runtime!Load
<1>4. CASE d \notin present
  BY <1>1, <1>2, <1>4, WriterEnds
<1>5. CASE d \in present
  <2> DEFINE row == IF d \in DOMAIN status THEN status[d] ELSE Runtime!Created
             new == ~Runtime!Whole(w) /\ d \notin DOMAIN status
             e == [writer[w] EXCEPT !.at = "loaded", !.todo = writer[w].todo \ {d},
                                    !.device = {d}, !.new = new, !.row = row]
  <2>1. writer' = [writer EXCEPT ![w] = e]  BY <1>1, <1>5 DEF StatusInv, WritersTyped
  <2>2. row \in Runtime!Statuses  BY DEF StatusInv, StatusTyped, Runtime!Created, Runtime!Statuses
  <2>3. new \in BOOLEAN  OBVIOUS
  <2>4. /\ e \in WriterEntries /\ e.at = "loaded" /\ e.device = {d} /\ e.new = new /\ e.row = row
        /\ e.kind = writer[w].kind /\ e.overtaken = writer[w].overtaken
        /\ e.fields = writer[w].fields
    <3> HIDE DEF row, new
    <3> QED BY <1>3, <2>2, <2>3 DEF WriterEntries
  <2>5. EntryInOrder(e)
    <3> HIDE DEF e
    <3> QED BY <1>3, <2>4 DEF EntryInOrder
  <2> HIDE DEF e
  <2>6. writer'[w] = e /\ \A v \in Procs \ {w} : writer'[v] = writer[v]
    BY <2>1 DEF StatusInv, WritersTyped
  <2>7. WritersTyped'  BY <2>1, <2>4, <2>5, <2>6 DEF StatusInv, WritersTyped
  <2>8. HeldIsPresent'
    BY <1>2, <1>5, <2>4, <2>6 DEF StatusInv, HeldIsPresent, Runtime!Holds, Runtime!On
  <2>9. /\ DOMAIN status \subseteq DOMAIN status' /\ UNCHANGED <<measured, exact, present>>
        /\ \A x \in DOMAIN status : status'[x] = status[x]
        /\ \A x \in DOMAIN status' : x \in DOMAIN status \/ (x = d /\ status'[x] = Runtime!Created)
        /\ Runtime!Whole(w) => d \in DOMAIN status' /\ row = status'[d]
    <3>1. CASE d \in DOMAIN status \/ ~Runtime!Whole(w)  BY <1>1, <1>2, <1>5, <3>1
    <3>2. CASE ~(d \in DOMAIN status \/ ~Runtime!Whole(w))
      <4>1. status' = Runtime!Put(d, Runtime!Created) /\ UNCHANGED exact  BY <1>1, <1>5, <3>2
      <4> QED BY <1>2, <3>2, <4>1 DEF Runtime!Put, Runtime!Over
    <3> QED BY <3>1, <3>2
  <2>10. StatusTyped'
    <3>1. Runtime!Created \in Runtime!Statuses  BY DEF Runtime!Created, Runtime!Statuses
    <3> QED BY <1>5, <2>9, <3>1 DEF StatusInv, StatusTyped
  <2>11. LoadedIsCommitted'
    <3> SUFFICES ASSUME NEW v \in Procs, NEW x \in Devices, Runtime!On(v, x)', Runtime!Whole(v)',
                        ~writer'[v].overtaken, x \in present'
                 PROVE  x \in DOMAIN status' /\ writer'[v].row = status'[x]
      BY DEF LoadedIsCommitted
    <3>1. CASE v = w
      <4>1. x = d /\ Runtime!Whole(w)  BY <2>4, <2>6, <3>1 DEF Runtime!On, Runtime!Whole
      <4> QED BY <2>4, <2>6, <2>9, <3>1, <4>1
    <3>2. CASE v # w
      <4>1. Runtime!On(v, x) /\ Runtime!Whole(v) /\ ~writer[v].overtaken /\ writer'[v] = writer[v]
        BY <2>6, <3>2 DEF Runtime!On, Runtime!Whole
      <4> QED BY <2>9, <4>1 DEF StatusInv, LoadedIsCommitted
    <3> QED BY <3>1, <3>2
  <2>12. Runtime!MeasuredStays'
    BY <2>9 DEF StatusInv, StatusTyped, Runtime!MeasuredStays
  <2> QED BY <2>7, <2>8, <2>10, <2>11, <2>12 DEF StatusInv
<1> QED BY <1>4, <1>5

\* A row that is saved or committed preserves it, if the fields which the
\* writer did not measure are those that are committed, or the row is known to
\* be old.
LEMMA SavedRow ==
  ASSUME StatusInv, NEW w \in Procs, NEW d \in present, NEW row \in Runtime!Statuses,
         NEW fields \in SUBSET Runtime!Fields,
         status' = Runtime!Put(d, row), UNCHANGED present,
         fields = IF Runtime!Whole(w) THEN writer[w].fields ELSE DOMAIN writer[w].found,
         Runtime!Measures(w, d, row), Runtime!Goes(w, Runtime!Overtake(w, d)),
         ~(Runtime!Whole(w) /\ writer[w].overtaken) /\ d \in DOMAIN status =>
            \A f \in Runtime!Fields \ fields : row[f] = status[d][f]
  PROVE  StatusInv'
<1>1. writer[w] \in WriterEntries /\ EntryInOrder(writer[w]) /\ d \in Devices
  BY DEF StatusInv, WritersTyped, StatusTyped
<1>2. /\ DOMAIN status' = {d} \cup DOMAIN status
      /\ status'[d] = row
      /\ \A x \in DOMAIN status : x # d => status'[x] = status[x]
  BY DEF Runtime!Put, Runtime!Over
<1>3. /\ measured' = [measured EXCEPT ![d] = Runtime!Over([f \in fields |-> row[f]], measured[d])]
      /\ exact' = ((exact \ (IF Runtime!Whole(w) /\ writer[w].overtaken THEN {d} \X Runtime!Fields ELSE {}))
                   \cup {d} \X fields)
  BY <1>1 DEF Runtime!Measures, StatusInv, StatusTyped
<1>4. /\ measured' \in [Devices -> Runtime!Statuses]
      /\ \A x \in Devices : x # d => measured'[x] = measured[x]
      /\ \A f \in Runtime!Fields : measured'[d][f] = IF f \in fields THEN row[f] ELSE measured[d][f]
  <2> DEFINE g == [f \in fields |-> row[f]]
  <2>1. g \in [fields -> {0, 1}] /\ measured[d] \in Runtime!Statuses
    BY <1>1 DEF Runtime!Statuses, StatusInv, StatusTyped
  <2>2. \A f \in fields : g[f] = row[f]  OBVIOUS
  <2> HIDE DEF g
  <2>3. /\ Runtime!Over(g, measured[d]) \in Runtime!Statuses
        /\ \A f \in Runtime!Fields : Runtime!Over(g, measured[d])[f] = IF f \in fields THEN g[f] ELSE measured[d][f]
    BY <2>1 DEF Runtime!Over, Runtime!Statuses
  <2>4. measured' = [measured EXCEPT ![d] = Runtime!Over(g, measured[d])]  BY <1>3 DEF g
  <2> QED BY <1>1, <2>2, <2>3, <2>4 DEF StatusInv, StatusTyped
<1>5. StatusTyped'
  BY <1>2, <1>3, <1>4 DEF StatusInv, StatusTyped
<1>6. PICK e : /\ writer' = [Runtime!Overtake(w, d) EXCEPT ![w] = e]
               /\ e \in WriterEntries /\ EntryInOrder(e) /\ e.at \in {"idle", "load"}
  <2> DEFINE e == [writer[w] EXCEPT !.at = "load", !.new = FALSE, !.overtaken = FALSE]
  <2>1. e \in WriterEntries /\ e.at = "load" /\ e.kind = writer[w].kind /\ e.fields = writer[w].fields
    BY <1>1 DEF WriterEntries
  <2>2. EntryInOrder(e)
    <3> HIDE DEF e
    <3> QED BY <1>1, <2>1 DEF EntryInOrder
  <2>3. Runtime!Idle \in WriterEntries /\ EntryInOrder(Runtime!Idle) /\ Runtime!Idle.at = "idle"
    BY IdleWriter DEF Runtime!Idle
  <2>4. CASE writer[w].todo = {}  BY <2>3, <2>4 DEF Runtime!Goes
  <2>5. CASE writer[w].todo # {}
    <3>1. writer' = [Runtime!Overtake(w, d) EXCEPT ![w] = e]  BY <2>5 DEF Runtime!Goes
    <3> HIDE DEF e
    <3> QED BY <2>1, <2>2, <3>1
  <2> QED BY <2>4, <2>5
<1>7. /\ writer'[w] = e /\ DOMAIN writer' = Procs
      /\ \A v \in Procs \ {w} :
           writer'[v] = IF Runtime!On(v, d) THEN [writer[v] EXCEPT !.overtaken = TRUE] ELSE writer[v]
  BY <1>6 DEF Runtime!Overtake
<1>8. \A v \in Procs \ {w} :
        /\ writer'[v] \in WriterEntries /\ EntryInOrder(writer'[v])
        /\ Runtime!On(v, d) => writer'[v].overtaken
        /\ ~Runtime!On(v, d) => writer'[v] = writer[v]
        /\ \A x \in Devices : Runtime!On(v, x)' <=> Runtime!On(v, x)
        /\ writer'[v].kind = writer[v].kind /\ writer'[v].new = writer[v].new
        /\ writer'[v].at = writer[v].at /\ writer'[v].row = writer[v].row
  <2> SUFFICES ASSUME NEW v \in Procs \ {w}
               PROVE  /\ writer'[v] \in WriterEntries /\ EntryInOrder(writer'[v])
                      /\ Runtime!On(v, d) => writer'[v].overtaken
                      /\ ~Runtime!On(v, d) => writer'[v] = writer[v]
                      /\ \A x \in Devices : Runtime!On(v, x)' <=> Runtime!On(v, x)
                      /\ writer'[v].kind = writer[v].kind /\ writer'[v].new = writer[v].new
                      /\ writer'[v].at = writer[v].at /\ writer'[v].row = writer[v].row
    OBVIOUS
  <2>1. writer[v] \in WriterEntries /\ EntryInOrder(writer[v])  BY DEF StatusInv, WritersTyped
  <2>2. CASE ~Runtime!On(v, d)  BY <1>7, <2>1, <2>2 DEF Runtime!On
  <2>3. CASE Runtime!On(v, d)
    <3>1. writer'[v] = [writer[v] EXCEPT !.overtaken = TRUE]  BY <1>7, <2>3
    <3>2. /\ writer'[v] \in WriterEntries /\ writer'[v].overtaken
          /\ writer'[v].kind = writer[v].kind /\ writer'[v].new = writer[v].new
          /\ writer'[v].at = writer[v].at /\ writer'[v].row = writer[v].row
          /\ writer'[v].device = writer[v].device /\ writer'[v].found = writer[v].found
          /\ writer'[v].fields = writer[v].fields
      BY <2>1, <3>1 DEF WriterEntries
    <3> QED BY <2>1, <2>3, <3>2 DEF EntryInOrder, Runtime!On
  <2> QED BY <2>2, <2>3
<1>9. WritersTyped'
  <2>1. \A v \in Procs : writer'[v] \in WriterEntries /\ EntryInOrder(writer'[v])
    BY <1>6, <1>7, <1>8
  <2>2. writer' = [v \in Procs |-> writer'[v]]  BY <1>6 DEF Runtime!Overtake
  <2> QED BY <2>1, <2>2 DEF WritersTyped
<1>10. HeldIsPresent'
  BY <1>6, <1>7, <1>8 DEF StatusInv, HeldIsPresent, Runtime!Holds, Runtime!On
<1>11. LoadedIsCommitted'
  <2> SUFFICES ASSUME NEW v \in Procs, NEW x \in Devices, Runtime!On(v, x)', Runtime!Whole(v)',
                      ~writer'[v].overtaken, x \in present'
               PROVE  x \in DOMAIN status' /\ writer'[v].row = status'[x]
    BY DEF LoadedIsCommitted
  <2>1. v # w  BY <1>6, <1>7 DEF Runtime!On
  <2>2. Runtime!On(v, x) /\ ~Runtime!On(v, d) /\ writer'[v] = writer[v]  BY <1>8, <2>1
  <2>3. x # d  BY <2>2
  <2>4. Runtime!Whole(v)  BY <2>2 DEF Runtime!Whole
  <2> QED BY <1>2, <2>2, <2>3, <2>4 DEF StatusInv, LoadedIsCommitted
<1>12. Runtime!MeasuredStays'
  <2> SUFFICES ASSUME NEW x \in Devices, NEW f \in Runtime!Fields, <<x, f>> \in exact'
               PROVE  status'[x][f] = measured'[x][f]
    BY <1>5 DEF Runtime!MeasuredStays, StatusTyped, StatusInv
  <2>1. CASE x # d
    <3>1. <<x, f>> \in exact /\ x \in DOMAIN status  BY <1>3, <2>1 DEF StatusInv, StatusTyped
    <3> QED BY <1>2, <1>4, <2>1, <3>1 DEF StatusInv, Runtime!MeasuredStays
  <2>2. CASE x = d /\ f \in fields  BY <1>2, <1>4, <2>2
  <2>3. CASE x = d /\ f \notin fields
    <3>1. <<d, f>> \in exact /\ ~(Runtime!Whole(w) /\ writer[w].overtaken) /\ d \in DOMAIN status
      BY <1>3, <2>3 DEF StatusInv, StatusTyped
    <3>2. status[d][f] = measured[d][f]  BY <3>1 DEF StatusInv, Runtime!MeasuredStays
    <3> QED BY <1>2, <1>4, <2>3, <3>1, <3>2
  <2> QED BY <2>1, <2>2, <2>3
<1> QED BY <1>5, <1>9, <1>10, <1>11, <1>12 DEF StatusInv

\* SaveWhole preserves it: an entry that nobody has overtaken saves, beside
\* what it measured, what is committed.
LEMMA WholeSaved ==
  ASSUME StatusInv, NEW w \in Procs, Runtime!SaveWhole(w)
  PROVE  StatusInv'
<1>1. PICK d \in writer[w].device :
        IF d \notin present THEN Runtime!Ends(w) /\ UNCHANGED <<status, measured, exact>>
        ELSE /\ \E found \in Runtime!Measure(writer[w].fields) :
                  /\ status' = Runtime!Put(d, Runtime!Result(w, found))
                  /\ Runtime!Measures(w, d, Runtime!Result(w, found))
             /\ Runtime!Goes(w, Runtime!Overtake(w, d))
  BY DEF Runtime!SaveWhole
<1>2. writer[w] \in WriterEntries /\ EntryInOrder(writer[w]) /\ UNCHANGED present
      /\ Runtime!Whole(w) /\ writer[w].at = "loaded"
  BY DEF Runtime!SaveWhole, StatusInv, WritersTyped
<1>3. CASE d \notin present  BY <1>1, <1>2, <1>3, WriterEnds
<1>4. CASE d \in present
  <2>1. PICK found \in Runtime!Measure(writer[w].fields) :
          status' = Runtime!Put(d, Runtime!Result(w, found)) /\ Runtime!Measures(w, d, Runtime!Result(w, found))
    BY <1>1, <1>4
  <2> DEFINE fields == writer[w].fields
             kept == writer[w].row
             row == Runtime!Result(w, found)
  <2>2. /\ fields \in SUBSET Runtime!Fields /\ kept \in Runtime!Statuses /\ found \in [fields -> {0, 1}]
        /\ writer[w].kind = "scan" => fields = Runtime!Probes
    BY <1>2, <2>1 DEF WriterEntries, EntryInOrder, Runtime!Measure, Runtime!Fields
  <2>3. row \in Runtime!Statuses /\ \A f \in Runtime!Fields \ fields : row[f] = kept[f]
    <3>1. CASE writer[w].kind = "scan"
      <4> DEFINE g == [f \in Runtime!Probes |-> IF 1 \in {kept[f], found[f]} THEN 1 ELSE 0]
      <4>1. row = Runtime!Over(g, kept)  BY <3>1 DEF Runtime!Result
      <4>2. g \in [Runtime!Probes -> {0, 1}] /\ Runtime!Probes \in SUBSET Runtime!Fields
        BY DEF Runtime!Fields
      <4> HIDE DEF g, row
      <4> QED BY <2>2, <3>1, <4>1, <4>2 DEF Runtime!Over, Runtime!Statuses
    <3>2. CASE writer[w].kind # "scan"
      <4>1. row = Runtime!Over(found, kept)  BY <3>2 DEF Runtime!Result
      <4> HIDE DEF row
      <4> QED BY <2>2, <4>1 DEF Runtime!Over, Runtime!Statuses
    <3> QED BY <3>1, <3>2
  <2>4. ~writer[w].overtaken /\ d \in DOMAIN status => kept = status[d]
    <3>1. Runtime!On(w, d) /\ d \in Devices
      BY <1>2, <1>4 DEF Runtime!On, EntryInOrder, WriterEntries, StatusInv, StatusTyped
    <3> QED BY <1>2, <1>4, <3>1 DEF StatusInv, LoadedIsCommitted
  <2>5. ~(Runtime!Whole(w) /\ writer[w].overtaken) /\ d \in DOMAIN status =>
          \A f \in Runtime!Fields \ fields : row[f] = status[d][f]
    BY <1>2, <2>3, <2>4
  <2>6. status' = Runtime!Put(d, row) /\ Runtime!Measures(w, d, row)
        /\ Runtime!Goes(w, Runtime!Overtake(w, d))
    BY <1>1, <1>4, <2>1
  <2>7. fields = IF Runtime!Whole(w) THEN writer[w].fields ELSE DOMAIN writer[w].found
    BY <1>2
  <2> HIDE DEF fields, kept, row
  <2> QED BY <1>2, <1>4, <2>2, <2>3, <2>5, <2>6, <2>7, SavedRow
<1> QED BY <1>3, <1>4

\* Commit preserves it: it writes its own fields over the committed row.
LEMMA WriterCommits ==
  ASSUME StatusInv, NEW w \in Procs, Runtime!Commit(w)
  PROVE  StatusInv'
<1> DEFINE kept(d) == IF d \in DOMAIN status THEN status[d] ELSE Runtime!Created
<1>1. PICK d \in writer[w].device :
        /\ status' = Runtime!Put(d, Runtime!OwnFields(w, kept(d)))
        /\ Runtime!Measures(w, d, Runtime!OwnFields(w, kept(d)))
        /\ Runtime!Goes(w, Runtime!Overtake(w, d))
  BY DEF Runtime!Commit
<1> DEFINE row == Runtime!OwnFields(w, kept(d))
           fields == DOMAIN writer[w].found
<1>2. /\ writer[w].found \in Runtime!Answers /\ ~Runtime!Whole(w) /\ UNCHANGED present
      /\ d \in Devices /\ Runtime!Holds(w, d)
  <2>1. writer[w].at = "written" /\ writer[w] \in WriterEntries /\ EntryInOrder(writer[w])
    BY DEF Runtime!Commit, StatusInv, WritersTyped
  <2>2. writer[w].kind = "sync" /\ writer[w].found \in Runtime!Answers
    BY <2>1 DEF EntryInOrder
  <2>3. d \in Devices /\ writer[w].device = {d}  BY <2>1 DEF EntryInOrder
  <2> QED BY <2>1, <2>2, <2>3 DEF Runtime!Commit, Runtime!Whole, Runtime!Holds, Runtime!On
<1>3. d \in present  BY <1>2 DEF StatusInv, HeldIsPresent
<1>4. /\ fields \in SUBSET Runtime!Fields /\ writer[w].found \in [fields -> {0, 1}]
  BY <1>2, AnswerFields
<1>5. kept(d) \in Runtime!Statuses  BY DEF StatusInv, StatusTyped, Runtime!Created, Runtime!Statuses
<1>6. row \in Runtime!Statuses /\ \A f \in Runtime!Fields \ fields : row[f] = kept(d)[f]
  <2> HIDE DEF kept
  <2>1. row = Runtime!Over(writer[w].found, kept(d))  BY DEF Runtime!OwnFields
  <2> HIDE DEF row
  <2> QED BY <1>4, <1>5, <2>1 DEF Runtime!Over, Runtime!Statuses
<1>7. ~(Runtime!Whole(w) /\ writer[w].overtaken) /\ d \in DOMAIN status =>
        \A f \in Runtime!Fields \ fields : row[f] = status[d][f]
  BY <1>6
<1>8. fields = IF Runtime!Whole(w) THEN writer[w].fields ELSE DOMAIN writer[w].found
  BY <1>2
<1>9. status' = Runtime!Put(d, row) /\ Runtime!Measures(w, d, row)
      /\ Runtime!Goes(w, Runtime!Overtake(w, d))
  BY <1>1
<1> HIDE DEF row, fields, kept
<1> QED BY <1>2, <1>3, <1>4, <1>6, <1>7, <1>8, <1>9, SavedRow

(***************************************************************************)
(* The theorems                                                            *)
(***************************************************************************)

\* The inductive invariant holds in the initial states.
LEMMA StatusInit == ASSUME Runtime!Init PROVE StatusInv
<1>1. Runtime!Created \in Runtime!Statuses  BY DEF Runtime!Created, Runtime!Statuses
<1>2. StatusTyped  BY <1>1 DEF Runtime!Init, StatusTyped
<1>3. WritersTyped  BY IdleWriter DEF Runtime!Init, WritersTyped
<1>4. HeldIsPresent /\ LoadedIsCommitted
  BY DEF Runtime!Init, HeldIsPresent, LoadedIsCommitted, Runtime!Holds, Runtime!On, Runtime!Idle
<1>5. Runtime!MeasuredStays  BY DEF Runtime!Init, Runtime!MeasuredStays
<1> QED BY <1>2, <1>3, <1>4, <1>5 DEF StatusInv

\* Every step preserves the inductive invariant.
LEMMA StatusNext == ASSUME StatusInv, Runtime!Next \/ UNCHANGED Runtime!vars PROVE StatusInv'
<1>1. CASE UNCHANGED Runtime!vars
  BY <1>1 DEF Runtime!vars, StatusInv, StatusTyped, WritersTyped, HeldIsPresent, LoadedIsCommitted,
              Runtime!MeasuredStays, Runtime!Holds, Runtime!On, Runtime!Whole
<1>2. ASSUME NEW w \in Procs, Runtime!Start(w) PROVE StatusInv'  BY <1>2, WriterStarts
<1>3. ASSUME NEW w \in Procs, Runtime!Load(w) PROVE StatusInv'  BY <1>3, WriterLoads
<1>4. ASSUME NEW w \in Procs, Runtime!SaveWhole(w) PROVE StatusInv'  BY <1>4, WholeSaved
<1>5. ASSUME NEW w \in Procs, Runtime!SaveFields(w) PROVE StatusInv'  BY <1>5, FieldsSaved
<1>6. ASSUME NEW w \in Procs, Runtime!Commit(w) PROVE StatusInv'  BY <1>6, WriterCommits
<1>7. ASSUME NEW w \in Procs, Runtime!Fail(w) PROVE StatusInv'  BY <1>7, WriterEnds DEF Runtime!Fail
<1>8. ASSUME NEW d \in Devices, Runtime!DeleteDevice(d) PROVE StatusInv'  BY <1>8, DeviceGoes
<1> QED BY <1>1, <1>2, <1>3, <1>4, <1>5, <1>6, <1>7, <1>8 DEF Runtime!Next

\* A step begins at most one run, and only below the bound.
LEMMA WritesBounded ==
  ASSUME Runtime!Assumptions, writes \in 0..MaxWrites, Runtime!Next \/ UNCHANGED Runtime!vars
  PROVE  writes' \in 0..MaxWrites
<1>1. CASE UNCHANGED writes  BY <1>1
<1>2. CASE \E w \in Procs : Runtime!Start(w)
  <2>1. writes < MaxWrites /\ writes' = writes + 1  BY <1>2 DEF Runtime!Start
  <2>2. MaxWrites \in Nat  BY DEF Runtime!Assumptions
  <2> QED BY <2>1, <2>2
<1>3. Runtime!Next => UNCHANGED writes \/ \E w \in Procs : Runtime!Start(w)
  BY DEF Runtime!Next, Runtime!Load, Runtime!SaveWhole, Runtime!SaveFields, Runtime!Commit,
         Runtime!Fail, Runtime!DeleteDevice
<1> QED BY <1>1, <1>2, <1>3 DEF Runtime!vars

\* The inductive invariant tells the types.
LEMMA StatusTypes ==
  ASSUME StatusInv, writes \in 0..MaxWrites
  PROVE  Runtime!TypeOK
<1>1. /\ present \subseteq Devices /\ DOMAIN status \subseteq present
      /\ \A d \in DOMAIN status : status[d] \in Runtime!Statuses /\ measured[d] \in Runtime!Statuses
      /\ exact \subseteq (DOMAIN status) \X Runtime!Fields
  BY DEF StatusInv, StatusTyped
<1>2. ASSUME NEW w \in Procs
      PROVE  /\ writer[w].at \in {"idle", "load", "loaded", "written"}
             /\ writer[w].kind \in {"check", "scan", "sync"}
             /\ writer[w].todo \subseteq Devices /\ writer[w].row \in Runtime!Statuses
             /\ writer[w].at = "written" => writer[w].kind = "sync"
             /\ writer[w].at \in {"loaded", "written"} => \E d \in Devices : writer[w].device = {d}
  BY DEF StatusInv, WritersTyped, WriterEntries, EntryInOrder
<1> QED BY <1>1, <1>2 DEF Runtime!TypeOK

RuntimeInv == StatusInv /\ writes \in 0..MaxWrites

\* The invariant holds of every behaviour that is one of the runtime rows.
LEMMA RuntimeAlways == Spec => [](part = "runtime" => RuntimeInv)
<1> DEFINE Kept == part = "runtime" => RuntimeInv
<1>0. Runtime!Assumptions BY OperationsAssumption DEF Assumptions
<1>1. Init => Kept
  <2>1. Runtime!Init => StatusInv BY StatusInit
  <2>2. Runtime!Init => writes \in 0..MaxWrites
      BY <1>0 DEF Runtime!Init, Runtime!Assumptions
  <2> QED BY <2>1, <2>2 DEF Init, RuntimeInv
<1>2. Kept /\ [Next]_vars => Kept'
  <2> SUFFICES ASSUME Kept, [Next]_vars, part' = "runtime" PROVE RuntimeInv'
      OBVIOUS
  <2>1. part = "runtime" /\ (Runtime!Next \/ UNCHANGED Runtime!vars)
      BY DEF Next, vars, runtimeVars, Runtime!vars
  <2>2. StatusInv' BY <2>1, StatusNext DEF RuntimeInv
  <2>3. writes' \in 0..MaxWrites BY <1>0, <2>1, WritesBounded DEF RuntimeInv
  <2> QED BY <2>2, <2>3 DEF RuntimeInv
<1> QED BY <1>1, <1>2, PTL DEF Spec

\* However runs, scans and synchronizations overlap, what was measured of a device
\* stays until it is measured again, unless a run or a scan saved a row loaded before
\* another save (ReachabilityPersistenceService.persist, _update_runtime_status):
\* SyncService, which saves only its fields, never undoes anything.
THEOREM MeasuredAlwaysStays == Spec => []MeasuredStays
<1>1. (part = "runtime" => RuntimeInv) => MeasuredStays
    BY DEF RuntimeInv, StatusInv, MeasuredStays
<1> QED BY <1>1, RuntimeAlways, PTL

\* The type invariant of the runtime rows: in particular only devices that are
\* there have a runtime row, which no constraint but the foreign key says.
LEMMA RuntimeTypeOK == ASSUME RuntimeInv PROVE Runtime!TypeOK
BY StatusTypes DEF RuntimeInv
-----------------------------------------------------------------------------
(* Prefixes and addresses: the proofs are those of AddressSpaceProofs        *)

SpaceRows == INSTANCE AddressSpaceProofs

\* They are about the same rows and the same steps.
LEMMA SameSpace ==
    /\ Space!Init <=> SpaceRows!Init
    /\ Space!Next <=> SpaceRows!Next
    /\ Space!vars = SpaceRows!vars
    /\ Space!AddressesApart <=> SpaceRows!AddressesApart
    /\ Space!ParentDecides <=> SpaceRows!ParentDecides
<1> USE DEF Space!Idle, SpaceRows!Idle, Space!Put, SpaceRows!Put,
        Space!Members, SpaceRows!Members, Space!Inside, SpaceRows!Inside,
        Space!Prefixes, SpaceRows!Prefixes, Space!Addresses, SpaceRows!Addresses,
        Space!ParentFits, SpaceRows!ParentFits, Space!Containing, SpaceRows!Containing,
        Space!Ancestors, SpaceRows!Ancestors, Space!HasAncestor, SpaceRows!HasAncestor,
        Space!Walks, SpaceRows!Walks, Space!Overlaps, SpaceRows!Overlaps,
        Space!ValidPrefix, SpaceRows!ValidPrefix, Space!UniqueNet, SpaceRows!UniqueNet,
        Space!Request, SpaceRows!Request, Space!NamesPrefix, SpaceRows!NamesPrefix,
        Space!PutPrefix, SpaceRows!PutPrefix, Space!SavePrefix, SpaceRows!SavePrefix,
        Space!Vrf, SpaceRows!Vrf, Space!Hosts, SpaceRows!Hosts, Space!Used, SpaceRows!Used,
        Space!Free, SpaceRows!Free, Space!InVrf, SpaceRows!InVrf,
        Space!Duplicate, SpaceRows!Duplicate, Space!PrimaryTaken, SpaceRows!PrimaryTaken,
        Space!ValidForApi, SpaceRows!ValidForApi, Space!ValidAddress, SpaceRows!ValidAddress,
        Space!Offered, SpaceRows!Offered, Space!SaveAddress, SpaceRows!SaveAddress,
        Space!Forget, SpaceRows!Forget
<1>1. Space!Init <=> SpaceRows!Init BY DEF Space!Init, SpaceRows!Init
<1>2. Space!vars = SpaceRows!vars BY DEF Space!vars, SpaceRows!vars
<1>3. Space!AddressesApart <=> SpaceRows!AddressesApart
    BY DEF Space!AddressesApart, SpaceRows!AddressesApart
<1>4. Space!ParentDecides <=> SpaceRows!ParentDecides
    BY DEF Space!ParentDecides, SpaceRows!ParentDecides
<1>5. \A p \in Procs : Space!PrefixForm(p) <=> SpaceRows!PrefixForm(p)
    BY DEF Space!PrefixForm, SpaceRows!PrefixForm
<1>6. \A p \in Procs : Space!SaveForm(p) <=> SpaceRows!SaveForm(p)
    BY DEF Space!SaveForm, SpaceRows!SaveForm
<1>7. \A p \in Procs : Space!AddressForm(p) <=> SpaceRows!AddressForm(p)
    BY DEF Space!AddressForm, SpaceRows!AddressForm
<1>8. \A p \in Procs : Space!Save(p) <=> SpaceRows!Save(p)
    BY DEF Space!Save, SpaceRows!Save
<1>9. Space!PrefixApi <=> SpaceRows!PrefixApi
    BY DEF Space!PrefixApi, SpaceRows!PrefixApi
<1>10. \A i \in PrefixIds : Space!DeletePrefix(i) <=> SpaceRows!DeletePrefix(i)
    BY DEF Space!DeletePrefix, SpaceRows!DeletePrefix
<1>11. \A i \in AddressIds : Space!DeleteAddress(i) <=> SpaceRows!DeleteAddress(i)
    BY DEF Space!DeleteAddress, SpaceRows!DeleteAddress
<1>12. \A n \in DOMAIN Interfaces : Space!DeleteInterface(n) <=> SpaceRows!DeleteInterface(n)
    BY DEF Space!DeleteInterface, SpaceRows!DeleteInterface
<1>13. Space!Next <=> SpaceRows!Next
    BY <1>5, <1>6, <1>7, <1>8, <1>9, <1>10, <1>11, <1>12 DEF Space!Next, SpaceRows!Next
<1> QED BY <1>1, <1>2, <1>3, <1>4, <1>13

SpaceInv == SpaceRows!IInv /\ SpaceRows!Bounded

\* The invariant holds of every behaviour that is one of the prefixes and addresses.
LEMMA SpaceAlways == Spec => [](part = "space" => SpaceInv)
<1> DEFINE Kept == part = "space" => SpaceInv
<1>0. SpaceRows!Assumptions
    BY OperationsAssumption DEF Assumptions, Space!Assumptions, SpaceRows!Assumptions,
       Space!Inside, SpaceRows!Inside, Space!Members, SpaceRows!Members
<1>1. Init => Kept
  <2>1. Space!Init => SpaceRows!IInv BY SameSpace, SpaceRows!InitInv
  <2>2. Space!Init => SpaceRows!Bounded
      BY <1>0 DEF Space!Init, SpaceRows!Bounded, SpaceRows!Assumptions
  <2> QED BY <2>1, <2>2 DEF Init, SpaceInv
<1>2. Kept /\ [Next]_vars => Kept'
  <2> SUFFICES ASSUME Kept, [Next]_vars, part' = "space" PROVE SpaceInv'
      OBVIOUS
  <2>1. part = "space" /\ (Space!Next \/ UNCHANGED Space!vars)
      BY DEF Next, vars, spaceVars, Space!vars
  <2>2. SpaceRows!Next \/ UNCHANGED SpaceRows!vars
      BY <2>1, SameSpace DEF Space!vars, SpaceRows!vars
  <2>3. SpaceRows!IInv' BY <2>1, <2>2, SpaceRows!NextInv DEF SpaceInv
  <2>4. SpaceRows!Bounded' BY <1>0, <2>1, <2>2, SpaceRows!StepBounded DEF SpaceInv
  <2> QED BY <2>3, <2>4 DEF SpaceInv
<1> QED BY <1>1, <1>2, PTL DEF Spec

\* Two rows of one address in a VRF are a race of their forms, or a prefix moved.
THEOREM AddressesAlwaysApart == Spec => []AddressesApart
<1>1. (part = "space" => SpaceInv) => AddressesApart
    BY SameSpace, SpaceRows!InvApart DEF SpaceInv, AddressesApart
<1> QED BY <1>1, SpaceAlways, PTL

\* Where the parents of prefixes lead never decides about a form.
THEOREM ParentAlwaysDecides == Spec => []ParentDecides
<1>1. ParentDecides BY SameSpace, SpaceRows!WalksNeverDecide DEF ParentDecides
<1> QED BY <1>1, PTL

\* The type invariant of the prefixes and addresses.
LEMMA SpaceTypeOK == ASSUME SpaceInv PROVE Space!TypeOK
<1>1. SpaceRows!TypeOK BY SpaceRows!InvTyped DEF SpaceInv
<1> QED BY <1>1 DEF SpaceRows!TypeOK, Space!TypeOK, Space!Prefixes, SpaceRows!Prefixes,
           Space!Addresses, SpaceRows!Addresses, Space!Members, SpaceRows!Members
-----------------------------------------------------------------------------
(* Sites and areas: trees in general                                         *)

Kids(t, a) == {c \in DOMAIN t : t[c].parent = a}
Under(t, roots) ==
    {a \in roots \cup DOMAIN t :
       \A S \in SUBSET (roots \cup DOMAIN t) :
         roots \subseteq S /\ (\A b \in S : Kids(t, b) \subseteq S) => a \in S}
Path(t, a) == \E r \in DOMAIN t : t[r].parent = None /\ a \in Under(t, {r})

\* What hangs below holds the roots and the children of its own, and is the least
\* such set.
LEMMA UnderRoots == ASSUME NEW t, NEW roots PROVE roots \subseteq Under(t, roots)
BY DEF Under

LEMMA UnderKids ==
    ASSUME NEW t, NEW roots, NEW b \in Under(t, roots), NEW c \in Kids(t, b)
    PROVE  c \in Under(t, roots)
BY DEF Under, Kids

LEMMA UnderLeast ==
    ASSUME NEW t, NEW roots, NEW T, roots \subseteq T,
           \A b \in T : b \in roots \cup DOMAIN t => Kids(t, b) \subseteq T
    PROVE  Under(t, roots) \subseteq T
<1> DEFINE S == T \cap (roots \cup DOMAIN t)
<1>1. S \in SUBSET (roots \cup DOMAIN t) /\ roots \subseteq S
      /\ \A b \in S : Kids(t, b) \subseteq S
    BY DEF Kids
<1> QED BY <1>1 DEF Under

\* The child of one whose path ends has a path that ends.
LEMMA PathKid ==
    ASSUME NEW t, NEW b, Path(t, b), NEW c \in Kids(t, b) PROVE Path(t, c)
<1>1. PICK r \in DOMAIN t : t[r].parent = None /\ b \in Under(t, {r}) BY DEF Path
<1>2. c \in Under(t, {r}) BY <1>1, UnderKids
<1> QED BY <1>1, <1>2 DEF Path

LEMMA PathRoot ==
    ASSUME NEW t, NEW r \in DOMAIN t, t[r].parent = None PROVE Path(t, r)
<1>1. r \in Under(t, {r}) BY UnderRoots
<1> QED BY <1>1 DEF Path

\* An area that is put under a parent which is not below it leaves all paths ending.
LEMMA PutPaths ==
    ASSUME NEW t, NEW t2, NEW a, NEW row,
           DOMAIN t2 = {a} \cup DOMAIN t, t2[a] = row, \A x \in DOMAIN t \ {a} : t2[x] = t[x],
           row.parent = None \/ row.parent \in DOMAIN t, row.parent \notin Under(t, {a}),
           \A b \in DOMAIN t : Path(t, b)
    PROVE  \A b \in DOMAIN t2 : Path(t2, b)
<1> DEFINE low == Under(t, {a})
<1>1. a \in low BY UnderRoots
<1>2. \A b \in low : Kids(t, b) \subseteq low BY UnderKids
<1> HIDE DEF low
<1>3. ASSUME NEW b \in DOMAIN t, b \notin low PROVE Path(t2, b)
  <2>1. PICK r \in DOMAIN t : t[r].parent = None /\ b \in Under(t, {r}) BY DEF Path
  <2> DEFINE T == {x \in {r} \cup DOMAIN t : x \in low \/ Path(t2, x)}
  <2>2. r \in T
    <3>1. CASE r \in low BY <3>1
    <3>2. CASE r \notin low
      <4>1. r # a BY <1>1, <3>2
      <4>2. t2[r].parent = None /\ r \in DOMAIN t2 BY <2>1, <4>1
      <4> QED BY <4>2, PathRoot
    <3> QED BY <3>1, <3>2
  <2>3. ASSUME NEW x \in T PROVE Kids(t, x) \subseteq T
    <3> SUFFICES ASSUME NEW c \in Kids(t, x) PROVE c \in T OBVIOUS
    <3>1. c \in DOMAIN t BY DEF Kids
    <3>2. CASE x \in low \/ c = a BY <1>1, <1>2, <3>1, <3>2
    <3>3. CASE x \notin low /\ c # a
      <4>1. Path(t2, x) BY <3>3
      <4>2. c \in Kids(t2, x) BY <3>1, <3>3 DEF Kids
      <4>3. Path(t2, c) BY <4>1, <4>2, PathKid
      <4> QED BY <3>1, <4>3
    <3> QED BY <3>2, <3>3
  <2> HIDE DEF T
  <2>4. Under(t, {r}) \subseteq T BY <2>2, <2>3, UnderLeast
  <2> QED BY <1>3, <2>1, <2>4 DEF T
<1>4. Path(t2, a)
  <2>1. CASE row.parent = None BY <2>1, PathRoot
  <2>2. CASE row.parent \in DOMAIN t
    <3>1. Path(t2, row.parent) BY <1>3, <2>2 DEF low
    <3>2. a \in Kids(t2, row.parent) BY DEF Kids
    <3> QED BY <3>1, <3>2, PathKid
  <2> QED BY <2>1, <2>2
<1>5. \A b \in low : Path(t2, b)
  <2> DEFINE T == {x \in {a} \cup DOMAIN t : Path(t2, x)}
  <2>1. ASSUME NEW x \in T PROVE Kids(t, x) \subseteq T
    <3> SUFFICES ASSUME NEW c \in Kids(t, x) PROVE c \in T OBVIOUS
    <3>1. c \in DOMAIN t BY DEF Kids
    <3>2. CASE c = a BY <1>4, <3>2
    <3>3. CASE c # a
      <4>1. c \in Kids(t2, x) BY <3>1, <3>3 DEF Kids
      <4>2. Path(t2, c) BY <4>1, PathKid
      <4> QED BY <3>1, <4>2
    <3> QED BY <3>2, <3>3
  <2>2. {a} \subseteq T BY <1>4
  <2> HIDE DEF T
  <2>3. Under(t, {a}) \subseteq T BY <2>1, <2>2, UnderLeast
  <2> QED BY <2>3 DEF T, low
<1> QED BY <1>1, <1>3, <1>5

\* Areas that go with everything below them leave the other paths ending.
LEMMA RemovePaths ==
    ASSUME NEW t, NEW t2, NEW gone, DOMAIN t2 = DOMAIN t \ gone,
           \A x \in DOMAIN t2 : t2[x] = t[x],
           \A b \in gone : Kids(t, b) \subseteq gone,
           \A b \in DOMAIN t : Path(t, b)
    PROVE  \A b \in DOMAIN t2 : Path(t2, b)
<1> SUFFICES ASSUME NEW b \in DOMAIN t2 PROVE Path(t2, b) OBVIOUS
<1>1. PICK r \in DOMAIN t : t[r].parent = None /\ b \in Under(t, {r}) BY DEF Path
<1> DEFINE T == {x \in {r} \cup DOMAIN t : x \in gone \/ Path(t2, x)}
<1>2. r \in T
  <2>1. CASE r \in gone BY <2>1
  <2>2. CASE r \notin gone
    <3>1. r \in DOMAIN t2 /\ t2[r].parent = None BY <1>1, <2>2
    <3> QED BY <3>1, PathRoot
  <2> QED BY <2>1, <2>2
<1>3. ASSUME NEW x \in T PROVE Kids(t, x) \subseteq T
  <2> SUFFICES ASSUME NEW c \in Kids(t, x) PROVE c \in T OBVIOUS
  <2>1. c \in DOMAIN t /\ t[c].parent = x BY DEF Kids
  <2>2. CASE x \in gone \/ c \in gone BY <2>1, <2>2
  <2>3. CASE x \notin gone /\ c \notin gone
    <3>1. c \in Kids(t2, x) BY <2>1, <2>3 DEF Kids
    <3>2. Path(t2, c) BY <2>3, <3>1, PathKid
    <3> QED BY <2>1, <3>2
  <2> QED BY <2>2, <2>3
<1> HIDE DEF T
<1>4. Under(t, {r}) \subseteq T BY <1>2, <1>3, UnderLeast
<1> QED BY <1>1, <1>4 DEF T

\* Where no child is of another site, the page of a site shows every area of it
\* whose path ends.
LEMMA PathShown ==
    ASSUME NEW t, NEW a \in DOMAIN t, Path(t, a),
           \A c \in DOMAIN t : t[c].parent # None =>
             t[c].parent \in DOMAIN t /\ t[t[c].parent].site = t[c].site,
           NEW S,
           \A b \in DOMAIN t : /\ t[b].site = t[a].site
                               /\ t[b].parent \in S \cup {None}
                               => b \in S
    PROVE  a \in S
<1>1. PICK r \in DOMAIN t : t[r].parent = None /\ a \in Under(t, {r}) BY DEF Path
<1> DEFINE T == {x \in {r} \cup DOMAIN t : t[x].site = t[a].site => x \in S}
<1>2. r \in T BY <1>1
<1>3. ASSUME NEW x \in T PROVE Kids(t, x) \subseteq T
  <2> SUFFICES ASSUME NEW c \in Kids(t, x), t[c].site = t[a].site PROVE c \in S
      BY DEF Kids
  <2>1. c \in DOMAIN t /\ t[c].parent = x BY DEF Kids
  <2>2. CASE x = None BY <2>1, <2>2
  <2>3. CASE x # None
    <3>1. t[x].site = t[a].site BY <2>1, <2>3
    <3> QED BY <2>1, <3>1
  <2> QED BY <2>2, <2>3
<1> HIDE DEF T
<1>4. Under(t, {r}) \subseteq T BY <1>2, <1>3, UnderLeast
<1> QED BY <1>1, <1>4 DEF T
-----------------------------------------------------------------------------
(* Sites and areas: what requests have loaded                                *)

AreaRows == [site : SiteIds, parent : AreaIds \cup {None}]
AreaRequests == [kind : {"create area"}, row : AreaRows]
                  \cup [kind : {"save area", "move area"}, area : AreaIds, row : AreaRows]
DeleteRequests == [kind : {"delete area"}, area : AreaIds, new : SUBSET AreaIds]
OtherRequests == [kind : {"idle"}] \cup [kind : {"save site", "delete site"}, site : SiteIds]
                   \cup [kind : {"save rack"}, rack : RackIds, area : AreaIds]
                   \cup [kind : {"delete rack"}, rack : RackIds]
                   \cup [kind : {"drop areas"}, areas : SUBSET AreaIds]
Requests == AreaRequests \cup DeleteRequests \cup OtherRequests

\* An area about to be saved: its parent's site is still the one it was checked
\* with, if nothing has gone astray.
Fits(q) == q \in AreaRequests =>
    /\ q.row.parent \in used \cup {None}
    /\ q.kind # "create area" => q.area \in used
    /\ ~astray /\ q.row.parent \in DOMAIN areas => areas[q.row.parent].site = q.row.site
\* An area about to be deleted: its children came after the check.
Asks(q) == q \in DeleteRequests => q.area \in used /\ Sites!Children(q.area) \subseteq q.new

AreasTyped ==
    /\ sites \subseteq SiteIds /\ DOMAIN areas \subseteq used /\ used \subseteq AreaIds
    /\ areas \in [DOMAIN areas -> AreaRows]
    /\ \A a \in DOMAIN areas : /\ areas[a].site \in sites
                               /\ areas[a].parent \in DOMAIN areas \cup {None}
    /\ ops \in 0..MaxOps /\ astray \in BOOLEAN
RacksTyped ==
    /\ DOMAIN racks \subseteq RackIds /\ \A r \in DOMAIN racks : racks[r] \in DOMAIN areas
    /\ DOMAIN placed \subseteq PlacedDevices
    /\ \A d \in DOMAIN placed : /\ placed[d].site \in sites
                                /\ placed[d].area \in DOMAIN areas \cup {None}
                                /\ placed[d].rack \in DOMAIN racks \cup {None}
RequestsHold ==
    /\ request \in [Procs -> Requests]
    /\ \A p \in Procs : Fits(request[p]) /\ Asks(request[p])
Straightened == ~astray =>
    /\ \A a \in DOMAIN areas : Path(areas, a)
    /\ \A a \in DOMAIN areas : areas[a].parent # None =>
         areas[areas[a].parent].site = areas[a].site

SiteInv == AreasTyped /\ RacksTyped /\ RequestsHold /\ Straightened /\ swept = {}

\* The module's operators are those of trees.
LEMMA TreeTerms ==
    /\ Sites!Areas = DOMAIN areas
    /\ \A a : Sites!Children(a) = Kids(areas, a)
    /\ \A roots : Sites!Below(roots) = Under(areas, roots)
BY DEF Sites!Areas, Sites!Children, Sites!Below, Kids, Under

\* The page shows every area.
LEMMA SitesShow == ASSUME SiteInv PROVE Sites!AreasShown
<1> SUFFICES ASSUME ~astray, NEW a \in DOMAIN areas
             PROVE  a \in Sites!Tree(areas[a].site) /\ Sites!PathEnds(a)
    BY DEF Sites!AreasShown, Sites!Areas, SiteInv
<1>1. Path(areas, a) BY DEF SiteInv, Straightened
<1>2. Sites!PathEnds(a) BY <1>1, TreeTerms DEF Path, Sites!PathEnds
<1>3. ASSUME NEW S,
             \A b \in DOMAIN areas :
               areas[b].site = areas[a].site /\ areas[b].parent \in S \cup {None} => b \in S
      PROVE  a \in S
    BY <1>1, <1>3, PathShown DEF SiteInv, Straightened, AreasTyped
<1>4. a \in Sites!Tree(areas[a].site) BY <1>3 DEF Sites!Tree, Sites!Areas
<1> QED BY <1>2, <1>4

\* A request loads a row.
LEMMA LoadStep ==
    ASSUME SiteInv, NEW p \in Procs, NEW what \in Requests, Fits(what), Asks(what),
           Sites!Load(p, what)
    PROVE  SiteInv'
<1> USE DEF SiteInv
<1>1. /\ request' = [request EXCEPT ![p] = what] /\ ops < MaxOps /\ ops' = ops + 1
      /\ UNCHANGED <<sites, areas, racks, placed, used, astray, swept>>
    BY DEF Sites!Load
<1>2. AreasTyped'
  <2>1. ops' \in 0..MaxOps
      BY <1>1, OperationsAssumption DEF AreasTyped, Assumptions, Sites!Assumptions
  <2> QED BY <1>1, <2>1 DEF AreasTyped
<1>3. RacksTyped' BY <1>1 DEF RacksTyped
<1>4. RequestsHold'
  <2>1. \A q \in Procs : request'[q] = IF q = p THEN what ELSE request[q]
      BY <1>1 DEF RequestsHold
  <2>2. \A q : (Fits(q)' <=> Fits(q)) /\ (Asks(q)' <=> Asks(q))
      BY <1>1 DEF Fits, Asks, Sites!Children, Sites!Areas
  <2>3. request' \in [Procs -> Requests] BY <1>1 DEF RequestsHold
  <2>4. \A q \in Procs : Fits(request'[q]) /\ Asks(request'[q]) BY <2>1 DEF RequestsHold
  <2> QED BY <1>1, <2>3, <2>4 DEF RequestsHold, Fits, Asks, Sites!Children, Sites!Areas
<1>5. Straightened' BY <1>1 DEF Straightened
<1> QED BY <1>1, <1>2, <1>3, <1>4, <1>5

\* A request ends, and the areas stay.
LEMMA RequestEnds ==
    ASSUME SiteInv, NEW p \in Procs, request' = Sites!Done(p),
           UNCHANGED <<areas, used, ops, astray, swept>>,
           sites \subseteq sites', sites' \subseteq SiteIds, RacksTyped'
    PROVE  SiteInv'
<1> USE DEF SiteInv
<1>1. /\ request' = [request EXCEPT ![p] = Sites!Idle] /\ Sites!Idle \in Requests
      /\ Sites!Idle \notin AreaRequests /\ Sites!Idle \notin DeleteRequests
    BY DEF Sites!Done, Sites!Idle, Requests, AreaRequests, DeleteRequests, OtherRequests
<1>2. AreasTyped' BY DEF AreasTyped
<1>3. RequestsHold'
  <2>1. \A q \in Procs : request'[q] = IF q = p THEN Sites!Idle ELSE request[q]
      BY <1>1 DEF RequestsHold
  <2>2. request' \in [Procs -> Requests] BY <1>1 DEF RequestsHold
  <2>3. \A q \in Procs : Fits(request'[q]) /\ Asks(request'[q])
      BY <1>1, <2>1 DEF RequestsHold, Fits, Asks
  <2> QED BY <2>2, <2>3 DEF RequestsHold, Fits, Asks, Sites!Children, Sites!Areas
<1>4. Straightened' BY DEF Straightened
<1> QED BY <1>2, <1>3, <1>4

\* None is no area.
LEMMA NoneNoArea == SiteInv => None \notin DOMAIN areas /\ None \notin used
BY OperationsAssumption DEF Assumptions, Sites!Assumptions, SiteInv, AreasTyped

\* The requests, by what they load.
LEMMA LoadSteps ==
    ASSUME SiteInv, NEW p \in Procs,
           \/ Sites!CreateArea(p) \/ Sites!UpdateArea(p) \/ Sites!DeleteArea(p)
           \/ Sites!EditArea(p) \/ Sites!CreateSite(p) \/ Sites!UpdateSite(p)
           \/ Sites!DeleteSite(p) \/ Sites!CreateRack(p) \/ Sites!UpdateRack(p)
           \/ Sites!DeleteRack(p) \/ Sites!EditRack(p) \/ Sites!DropAreas(p)
    PROVE  SiteInv'
<1> DEFINE A == DOMAIN areas
<1>1. /\ A \subseteq AreaIds /\ A \subseteq used /\ sites \subseteq SiteIds
      /\ DOMAIN racks \subseteq RackIds /\ \A r \in DOMAIN racks : racks[r] \in A
      /\ None \notin A /\ None \notin used
      /\ \A a \in A : areas[a] \in AreaRows /\ areas[a].parent \in A \cup {None}
    BY NoneNoArea DEF SiteInv, AreasTyped, RacksTyped
<1>2. \A a \in A : ~astray /\ areas[a].parent # None =>
                     areas[areas[a].parent].site = areas[a].site
    BY DEF SiteInv, Straightened
<1>3. ASSUME NEW what \in OtherRequests, Sites!Load(p, what) PROVE SiteInv'
  <2>1. what \in Requests /\ Fits(what) /\ Asks(what)
      BY DEF OtherRequests, AreaRequests, DeleteRequests, Requests, Fits, Asks
  <2> QED BY <1>3, <2>1, LoadStep
<1>4. ASSUME NEW what \in AreaRequests, Sites!Load(p, what),
             what.row.parent \in A \cup {None}, what.kind # "create area" => what.area \in A,
             ~astray /\ what.row.parent \in A => areas[what.row.parent].site = what.row.site
      PROVE  SiteInv'
  <2>1. what \in Requests /\ what \notin DeleteRequests
      BY DEF AreaRequests, DeleteRequests, Requests
  <2>2. Fits(what) /\ Asks(what) BY <1>1, <1>4, <2>1 DEF Fits, Asks
  <2> QED BY <1>4, <2>1, <2>2, LoadStep
<1>5. CASE Sites!CreateArea(p)
  <2>1. PICK s \in sites : \E parent \in {None} \cup {a \in A : areas[a].site = s} :
          Sites!Load(p, [kind |-> "create area", row |-> [site |-> s, parent |-> parent]])
      BY <1>5 DEF Sites!CreateArea, Sites!Areas
  <2>2. PICK parent \in {None} \cup {a \in A : areas[a].site = s} :
          Sites!Load(p, [kind |-> "create area", row |-> [site |-> s, parent |-> parent]])
      BY <2>1
  <2> DEFINE what == [kind |-> "create area", row |-> [site |-> s, parent |-> parent]]
  <2>3. what \in AreaRequests BY <1>1 DEF AreaRequests, AreaRows
  <2> QED BY <1>1, <1>4, <2>2, <2>3
<1>6. CASE Sites!UpdateArea(p)
  <2>1. PICK a \in A : Sites!Load(p, [kind |-> "save area", area |-> a, row |-> areas[a]])
      BY <1>6 DEF Sites!UpdateArea, Sites!Areas
  <2> DEFINE what == [kind |-> "save area", area |-> a, row |-> areas[a]]
  <2>2. what \in AreaRequests BY <1>1 DEF AreaRequests
  <2> QED BY <1>1, <1>2, <1>4, <2>1, <2>2
<1>7. CASE Sites!DeleteArea(p)
  <2>1. PICK a \in A : /\ Sites!Children(a) = {}
                       /\ Sites!Load(p, [kind |-> "delete area", area |-> a, new |-> {}])
      BY <1>7 DEF Sites!DeleteArea, Sites!Areas
  <2> DEFINE what == [kind |-> "delete area", area |-> a, new |-> {}]
  <2>2. what \in DeleteRequests /\ what \notin AreaRequests /\ what \in Requests
      BY <1>1 DEF DeleteRequests, AreaRequests, Requests
  <2>3. Fits(what) /\ Asks(what) BY <1>1, <2>1, <2>2 DEF Fits, Asks
  <2> QED BY <2>1, <2>2, <2>3, LoadStep
<1>8. CASE Sites!EditArea(p)
  <2>1. PICK a \in A, s \in sites, parent \in {None} \cup A :
          /\ \/ Sites!AdminAllows(a, [site |-> s, parent |-> parent])
             \/ Sites!ApiAllows(a, [site |-> s, parent |-> parent])
          /\ Sites!Load(p, [kind |-> "move area", area |-> a,
                            row |-> [site |-> s, parent |-> parent]])
      BY <1>8 DEF Sites!EditArea, Sites!Areas
  <2> DEFINE row == [site |-> s, parent |-> parent]
             what == [kind |-> "move area", area |-> a, row |-> row]
  <2>2. what \in AreaRequests BY <1>1 DEF AreaRequests, AreaRows
  <2>3. parent # None => areas[parent].site = s
      BY <2>1 DEF Sites!AdminAllows, Sites!ApiAllows
  <2> QED BY <1>1, <1>4, <2>1, <2>2, <2>3
<1>9. CASE Sites!CreateSite(p) \/ Sites!UpdateSite(p)
  <2>1. PICK s \in SiteIds : Sites!Load(p, [kind |-> "save site", site |-> s])
      BY <1>1, <1>9 DEF Sites!CreateSite, Sites!UpdateSite
  <2>2. [kind |-> "save site", site |-> s] \in OtherRequests BY DEF OtherRequests
  <2> QED BY <1>3, <2>1, <2>2
<1>10. CASE Sites!DeleteSite(p)
  <2>1. PICK s \in SiteIds : Sites!Load(p, [kind |-> "delete site", site |-> s])
      BY <1>1, <1>10 DEF Sites!DeleteSite
  <2>2. [kind |-> "delete site", site |-> s] \in OtherRequests BY DEF OtherRequests
  <2> QED BY <1>3, <2>1, <2>2
<1>11. CASE Sites!CreateRack(p) \/ Sites!UpdateRack(p) \/ Sites!EditRack(p)
  <2>1. PICK r \in RackIds, a \in AreaIds :
          Sites!Load(p, [kind |-> "save rack", rack |-> r, area |-> a])
      BY <1>1, <1>11 DEF Sites!CreateRack, Sites!UpdateRack, Sites!EditRack, Sites!Areas
  <2>2. [kind |-> "save rack", rack |-> r, area |-> a] \in OtherRequests BY DEF OtherRequests
  <2> QED BY <1>3, <2>1, <2>2
<1>12. CASE Sites!DeleteRack(p)
  <2>1. PICK r \in RackIds : Sites!Load(p, [kind |-> "delete rack", rack |-> r])
      BY <1>1, <1>12 DEF Sites!DeleteRack
  <2>2. [kind |-> "delete rack", rack |-> r] \in OtherRequests BY DEF OtherRequests
  <2> QED BY <1>3, <2>1, <2>2
<1>13. CASE Sites!DropAreas(p)
  <2>1. PICK roots \in SUBSET A : Sites!Load(p, [kind |-> "drop areas", areas |-> roots])
      BY <1>13 DEF Sites!DropAreas, Sites!Areas
  <2>2. [kind |-> "drop areas", areas |-> roots] \in OtherRequests BY <1>1 DEF OtherRequests
  <2> QED BY <1>3, <2>1, <2>2
<1> QED BY <1>5, <1>6, <1>7, <1>8, <1>9, <1>10, <1>11, <1>12, <1>13

\* An area is saved. If nothing goes astray with it, it hides nothing: its parent is
\* of its site and not below it, its children are of its site, and so are the ones
\* that other requests are about to hang below it.
LEMMA PutStep ==
    ASSUME SiteInv, NEW p \in Procs, NEW a \in AreaIds, NEW row \in AreaRows,
           Sites!PutArea(a, row), used' = used \cup {a},
           request' = [Sites!Note(a, row.parent) EXCEPT ![p] = Sites!Idle],
           UNCHANGED <<sites, racks, placed, ops, swept>>,
           astray' \in BOOLEAN, astray => astray', row.parent \in used \cup {None},
           ~astray' =>
             \/ areas' = areas
             \/ /\ row.parent \notin Under(areas, {a})
                /\ row.parent \in DOMAIN areas => areas[row.parent].site = row.site
                /\ \A c \in Kids(areas, a) : areas[c].site = row.site
                /\ \A q \in Procs \ {p} :
                     request[q] \in AreaRequests => request[q].row.parent # a
    PROVE  SiteInv'
<1> USE DEF SiteInv
<1>1. /\ DOMAIN areas' = {a} \cup DOMAIN areas /\ areas'[a] = row
      /\ \A x \in DOMAIN areas \ {a} : areas'[x] = areas[x]
      /\ row.site \in sites /\ row.parent \in DOMAIN areas \cup {a, None}
    BY DEF Sites!PutArea, Sites!Put, Sites!Exists, Sites!Areas
<1>2. /\ Sites!Idle \in Requests
      /\ Sites!Idle \notin AreaRequests /\ Sites!Idle \notin DeleteRequests
    BY DEF Sites!Idle, Requests, AreaRequests, DeleteRequests, OtherRequests
<1>3. \A q \in Procs :
        request'[q] = IF q = p THEN Sites!Idle
                      ELSE IF request[q].kind = "delete area" /\ row.parent = request[q].area
                      THEN [request[q] EXCEPT !.new = @ \cup {a}] ELSE request[q]
    BY DEF Sites!Note
<1>4. AreasTyped'
  <2>1. areas' = [x \in {a} \cup DOMAIN areas |-> IF x = a THEN row ELSE areas[x]]
      BY DEF Sites!PutArea, Sites!Put
  <2>2. areas' \in [DOMAIN areas' -> AreaRows] BY <2>1 DEF AreasTyped
  <2> QED BY <1>1, <2>2 DEF AreasTyped
<1>5. RacksTyped' BY <1>1 DEF RacksTyped
<1>6. RequestsHold'
  <2>1. ASSUME NEW q \in Procs PROVE request'[q] \in Requests /\ Fits(request[q])' /\ Asks(request[q])'
    <3>1. request[q] \in Requests /\ Fits(request[q]) /\ Asks(request[q]) BY DEF RequestsHold
    <3>2. CASE q = p BY <1>2, <1>3, <3>2 DEF Fits, Asks
    <3>3. CASE q # p /\ request[q] \in DeleteRequests
      <4>1. /\ request[q].kind = "delete area" /\ request[q].new \in SUBSET AreaIds
            /\ request[q].area \in AreaIds
          BY <3>3 DEF DeleteRequests
      <4> DEFINE e == [request[q] EXCEPT !.new = @ \cup {a}]
      <4>2. /\ e \in DeleteRequests /\ e.area = request[q].area
            /\ e.new = request[q].new \cup {a}
          BY <3>3, <4>1 DEF DeleteRequests
      <4>3. request'[q] = IF row.parent = request[q].area THEN e ELSE request[q]
          BY <1>3, <3>3, <4>1
      <4> HIDE DEF e
      <4>4. /\ request'[q] \in DeleteRequests /\ request'[q].area = request[q].area
            /\ request[q].new \subseteq request'[q].new
            /\ row.parent = request[q].area => a \in request'[q].new
          BY <3>3, <4>2, <4>3
      <4>5. Sites!Children(request[q].area) \subseteq request[q].new
          BY <3>1, <3>3 DEF Asks
      <4>6. \A c \in DOMAIN areas' : areas'[c].parent = request'[q].area => c \in request'[q].new
        <5> SUFFICES ASSUME NEW c \in DOMAIN areas', areas'[c].parent = request'[q].area
                     PROVE  c \in request'[q].new
            OBVIOUS
        <5>1. CASE c = a BY <1>1, <4>4, <5>1
        <5>2. CASE c # a
          <6>1. c \in Sites!Children(request[q].area)
              BY <1>1, <4>4, <5>2 DEF Sites!Children, Sites!Areas
          <6> QED BY <4>4, <4>5, <6>1
        <5> QED BY <5>1, <5>2
      <4>7. request'[q] \notin AreaRequests BY <4>4 DEF DeleteRequests, AreaRequests
      <4>8. request'[q].area \in used' BY <3>1, <3>3, <4>4 DEF Asks
      <4> QED BY <4>4, <4>6, <4>7, <4>8 DEF Fits, Asks, Requests, Sites!Children, Sites!Areas
    <3>4. CASE q # p /\ request[q] \notin DeleteRequests
      <4>1. request[q].kind # "delete area"
          BY <3>1, <3>4 DEF Requests, AreaRequests, DeleteRequests, OtherRequests
      <4>2. request'[q] = request[q] BY <1>3, <3>4, <4>1
      <4>3. ASSUME ~astray', request[q] \in AreaRequests,
                   request[q].row.parent \in DOMAIN areas'
            PROVE  areas'[request[q].row.parent].site = request[q].row.site
        <5>1. CASE areas' = areas BY <3>1, <4>3, <5>1 DEF Fits
        <5>2. CASE areas' # areas
          <6>1. request[q].row.parent # a BY <3>4, <4>3, <5>2
          <6> QED BY <1>1, <3>1, <4>3, <6>1 DEF Fits
        <5> QED BY <5>1, <5>2
      <4>4. Fits(request[q])'
        <5> SUFFICES ASSUME request[q] \in AreaRequests
                     PROVE  /\ request[q].row.parent \in used' \cup {None}
                            /\ request[q].kind # "create area" => request[q].area \in used'
                            /\ ~astray' /\ request[q].row.parent \in DOMAIN areas' =>
                                 areas'[request[q].row.parent].site = request[q].row.site
            BY <4>2 DEF Fits
        <5> QED BY <3>1, <4>3 DEF Fits
      <4> QED BY <3>1, <3>4, <4>2, <4>4 DEF Asks
    <3> QED BY <3>2, <3>3, <3>4
  <2>2. request' \in [Procs -> Requests]
    <3>1. request' = [q \in Procs |-> request'[q]] BY DEF Sites!Note
    <3> QED BY <2>1, <3>1
  <2> QED BY <2>1, <2>2 DEF RequestsHold
<1>7. Straightened'
  <2> SUFFICES ASSUME ~astray', areas' # areas
               PROVE  /\ \A b \in DOMAIN areas' : Path(areas', b)
                      /\ \A b \in DOMAIN areas' : areas'[b].parent # None =>
                           areas'[areas'[b].parent].site = areas'[b].site
      BY DEF Straightened
  <2>1. /\ row.parent \notin Under(areas, {a})
        /\ row.parent \in DOMAIN areas => areas[row.parent].site = row.site
        /\ \A c \in Kids(areas, a) : areas[c].site = row.site
      OBVIOUS
  <2>2. row.parent # a BY <2>1, UnderRoots
  <2>3. row.parent = None \/ row.parent \in DOMAIN areas BY <1>1, <2>2
  <2>4. \A b \in DOMAIN areas : Path(areas, b) BY DEF Straightened
  <2>5. \A b \in DOMAIN areas' : Path(areas', b) BY <1>1, <2>1, <2>3, <2>4, PutPaths
  <2>6. ASSUME NEW b \in DOMAIN areas', areas'[b].parent # None
        PROVE  areas'[areas'[b].parent].site = areas'[b].site
    <3>1. CASE b = a BY <1>1, <2>1, <2>2, <2>3, <2>6, <3>1
    <3>2. CASE b # a /\ areas[b].parent = a
      <4>1. b \in Kids(areas, a) BY <1>1, <3>2 DEF Kids
      <4> QED BY <1>1, <2>1, <3>2, <4>1
    <3>3. CASE b # a /\ areas[b].parent # a
      <4>1. b \in DOMAIN areas /\ areas'[b] = areas[b] BY <1>1, <3>3
      <4>2. areas[b].parent \in DOMAIN areas BY <2>6, <4>1 DEF AreasTyped
      <4> QED BY <1>1, <2>6, <3>3, <4>1, <4>2 DEF Straightened
    <3> QED BY <3>1, <3>2, <3>3
  <2> QED BY <2>5, <2>6
<1> QED BY <1>4, <1>5, <1>6, <1>7

\* A new area is saved.
LEMMA SaveNewAreaStep ==
    ASSUME SiteInv, NEW p \in Procs, Sites!SaveNewArea(p) PROVE SiteInv'
<1> DEFINE row == request[p].row
<1>1. PICK a \in AreaIds \ used :
        /\ Sites!PutArea(a, row) /\ used' = used \cup {a}
        /\ request' = [Sites!Note(a, row.parent) EXCEPT ![p] = Sites!Idle]
    BY DEF Sites!SaveNewArea
<1>2. request[p].kind = "create area" /\ UNCHANGED <<sites, racks, placed, ops, astray, swept>>
    BY DEF Sites!SaveNewArea
<1>3. request[p] \in AreaRequests /\ row \in AreaRows
  <2>1. request[p] \in Requests BY DEF SiteInv, RequestsHold
  <2>2. request[p] \in AreaRequests
      BY <1>2, <2>1 DEF Requests, AreaRequests, DeleteRequests, OtherRequests
  <2> QED BY <2>2 DEF AreaRequests
<1>4. Fits(request[p]) /\ \A q \in Procs : Fits(request[q]) BY DEF SiteInv, RequestsHold
<1>5. row.parent \in used \cup {None} BY <1>3, <1>4 DEF Fits
<1>6. a # None /\ None \notin DOMAIN areas /\ None \notin used
    BY NoneNoArea, OperationsAssumption DEF Assumptions, Sites!Assumptions
<1>7. Kids(areas, a) = {} BY <1>6 DEF Kids, SiteInv, AreasTyped
<1>8. row.parent \notin Under(areas, {a})
  <2>1. Under(areas, {a}) \subseteq {a} BY <1>7, UnderLeast
  <2> QED BY <1>5, <1>6, <2>1
<1>9. ~astray /\ row.parent \in DOMAIN areas => areas[row.parent].site = row.site
    BY <1>3, <1>4 DEF Fits
<1>10. \A q \in Procs \ {p} : request[q] \in AreaRequests => request[q].row.parent # a
    BY <1>4, <1>6 DEF Fits
<1>11. astray \in BOOLEAN BY DEF SiteInv, AreasTyped
<1> QED BY <1>1, <1>2, <1>3, <1>5, <1>7, <1>8, <1>9, <1>10, <1>11, PutStep

\* An area is saved again: as it was loaded, or moved.
LEMMA SaveAreaStep ==
    ASSUME SiteInv, NEW p \in Procs, Sites!SaveArea(p) PROVE SiteInv'
<1> DEFINE row == request[p].row
           a == request[p].area
           moves == a \in DOMAIN areas => row # areas[a]
<1>1. /\ request[p].kind \in {"save area", "move area"}
      /\ Sites!PutArea(a, row) /\ used' = used
      /\ request' = [Sites!Note(a, row.parent) EXCEPT ![p] = Sites!Idle]
      /\ astray' = (astray \/ (moves /\ (~Sites!Alone(p) \/ Sites!Hides(a, row))))
      /\ UNCHANGED <<sites, racks, placed, ops, swept>>
    BY DEF Sites!SaveArea, Sites!Areas
<1>2. request[p] \in AreaRequests /\ row \in AreaRows /\ a \in AreaIds
  <2>1. request[p] \in Requests BY DEF SiteInv, RequestsHold
  <2>2. request[p] \in AreaRequests
      BY <1>1, <2>1 DEF Requests, AreaRequests, DeleteRequests, OtherRequests
  <2> QED BY <1>1, <2>2 DEF AreaRequests
<1>3. Fits(request[p]) BY DEF SiteInv, RequestsHold
<1>4. row.parent \in used \cup {None} /\ a \in used BY <1>1, <1>2, <1>3 DEF Fits
<1>5. astray \in BOOLEAN /\ astray' \in BOOLEAN BY <1>1 DEF SiteInv, AreasTyped
<1>6. ~astray /\ row.parent \in DOMAIN areas => areas[row.parent].site = row.site
    BY <1>2, <1>3 DEF Fits
<1>7. ASSUME ~astray', moves
      PROVE  /\ row.parent \notin Under(areas, {a})
             /\ \A c \in Kids(areas, a) : areas[c].site = row.site
             /\ \A q \in Procs \ {p} : request[q] \notin AreaRequests
  <2>1. Sites!Alone(p) /\ ~Sites!Hides(a, row) BY <1>1, <1>7
  <2>2. \A q \in Procs \ {p} : request[q] = Sites!Idle BY <2>1 DEF Sites!Alone
  <2>3. Sites!Idle \notin AreaRequests BY DEF Sites!Idle, AreaRequests
  <2> QED BY <2>1, <2>2, <2>3, TreeTerms DEF Sites!Hides
<1>8. ASSUME ~moves PROVE areas' = areas
  <2>1. a \in DOMAIN areas /\ row = areas[a] BY <1>8
  <2>2. areas' = [x \in {a} \cup DOMAIN areas |-> IF x = a THEN row ELSE areas[x]]
      BY <1>1 DEF Sites!PutArea, Sites!Put
  <2>3. {a} \cup DOMAIN areas = DOMAIN areas BY <2>1
  <2>4. areas' = [x \in DOMAIN areas |-> areas[x]] BY <2>1, <2>2, <2>3
  <2>5. areas = [x \in DOMAIN areas |-> areas[x]]
      BY DEF SiteInv, AreasTyped
  <2> QED BY <2>4, <2>5
<1>9. used' = used \cup {a} BY <1>1, <1>4
<1> HIDE DEF moves
<1> QED BY <1>1, <1>2, <1>4, <1>5, <1>6, <1>7, <1>8, <1>9, PutStep

\* Rows go with what hangs below them, if nothing protects it.
LEMMA CascadeStep ==
    ASSUME SiteInv, NEW p \in Procs, NEW goneSites, NEW roots, NEW rackRoots,
           Sites!Cascade(goneSites, roots, rackRoots),
           \A a \in DOMAIN areas : areas[a].site \in goneSites => a \in roots,
           request' = Sites!Done(p), UNCHANGED <<placed, used, ops, astray>>, swept' = {}
    PROVE  SiteInv'
<1> USE DEF SiteInv
<1> DEFINE gone == Under(areas, roots) \cap DOMAIN areas
           goneRacks == rackRoots \cup {r \in DOMAIN racks : racks[r] \in gone}
<1>1. CASE UNCHANGED <<sites, areas, racks>>
  <2>1. RacksTyped' BY <1>1 DEF RacksTyped
  <2>2. sites' \subseteq SiteIds BY <1>1 DEF AreasTyped
  <2> QED BY <1>1, <2>1, <2>2, RequestEnds
<1>2. CASE /\ sites' = sites \ goneSites /\ areas' = Sites!Without(areas, gone)
           /\ racks' = Sites!Without(racks, goneRacks)
           /\ ~Sites!Protected(goneSites, gone, goneRacks)
  <2>1. /\ DOMAIN areas' = DOMAIN areas \ gone /\ \A x \in DOMAIN areas' : areas'[x] = areas[x]
        /\ DOMAIN racks' = DOMAIN racks \ goneRacks
        /\ \A r \in DOMAIN racks' : racks'[r] = racks[r]
      BY <1>2 DEF Sites!Without
  <2>2. \A b \in gone : Kids(areas, b) \subseteq gone
    <3>1. \A b \in Under(areas, roots) : Kids(areas, b) \subseteq Under(areas, roots)
        BY UnderKids
    <3> QED BY <3>1 DEF Kids
  <2>3. \A a \in DOMAIN areas : areas[a].site \in goneSites => a \in gone BY UnderRoots
  <2>4. \A d \in DOMAIN placed : /\ placed[d].site \notin goneSites /\ placed[d].area \notin gone
                                 /\ placed[d].rack \notin goneRacks
      BY <1>2 DEF Sites!Protected
  <2> HIDE DEF gone
  <2>5. \A a \in DOMAIN areas' : areas'[a].parent \in DOMAIN areas' \cup {None}
    <3> SUFFICES ASSUME NEW a \in DOMAIN areas', areas[a].parent \in gone PROVE FALSE
        BY <2>1 DEF AreasTyped
    <3>1. a \in Kids(areas, areas[a].parent) BY <2>1 DEF Kids
    <3> QED BY <2>1, <2>2, <3>1
  <2>6. AreasTyped'
    <3>1. areas' \in [DOMAIN areas' -> AreaRows] BY <1>2, <2>1 DEF AreasTyped, Sites!Without
    <3> QED BY <1>2, <2>1, <2>3, <2>5, <3>1 DEF AreasTyped
  <2>7. RacksTyped' BY <1>2, <2>1, <2>4 DEF RacksTyped
  <2>8. RequestsHold'
    <3>1. /\ request' = [request EXCEPT ![p] = Sites!Idle] /\ Sites!Idle \in Requests
          /\ Sites!Idle \notin AreaRequests /\ Sites!Idle \notin DeleteRequests
        BY DEF Sites!Done, Sites!Idle, Requests, AreaRequests, DeleteRequests, OtherRequests
    <3>2. \A q \in Procs : request'[q] = IF q = p THEN Sites!Idle ELSE request[q]
        BY <3>1 DEF RequestsHold
    <3>3. request' \in [Procs -> Requests] BY <3>1 DEF RequestsHold
    <3>4. ASSUME NEW q \in Procs PROVE Fits(request[q])' /\ Asks(request[q])'
      <4>1. CASE q = p BY <3>1, <3>2, <4>1 DEF Fits, Asks
      <4>2. CASE q # p
        <5>1. request'[q] = request[q] /\ Fits(request[q]) /\ Asks(request[q])
            BY <3>2, <4>2 DEF RequestsHold
        <5>2. Fits(request[q])' BY <2>1, <5>1 DEF Fits
        <5>3. Asks(request[q])' BY <2>1, <5>1 DEF Asks, Sites!Children, Sites!Areas
        <5> QED BY <5>2, <5>3
      <4> QED BY <4>1, <4>2
    <3> QED BY <3>3, <3>4 DEF RequestsHold
  <2>9. Straightened'
    <3> SUFFICES ASSUME ~astray
                 PROVE  /\ \A b \in DOMAIN areas' : Path(areas', b)
                        /\ \A b \in DOMAIN areas' : areas'[b].parent # None =>
                             areas'[areas'[b].parent].site = areas'[b].site
        BY DEF Straightened
    <3>1. \A b \in DOMAIN areas : Path(areas, b) BY DEF Straightened
    <3>2. \A b \in DOMAIN areas' : Path(areas', b) BY <2>1, <2>2, <3>1, RemovePaths
    <3>3. \A b \in DOMAIN areas' : areas'[b].parent # None =>
            areas'[areas'[b].parent].site = areas'[b].site
        BY <2>1, <2>5 DEF Straightened
    <3> QED BY <3>2, <3>3
  <2> QED BY <2>6, <2>7, <2>8, <2>9
<1> QED BY <1>1, <1>2, TreeTerms DEF Sites!Cascade, Sites!Areas

\* A page deletes an area: what goes with it hangs below what came after its check.
LEMMA RemoveAreaStep ==
    ASSUME SiteInv, NEW p \in Procs, Sites!RemoveArea(p) PROVE SiteInv'
<1> DEFINE a == request[p].area
           new == request[p].new
           low == {a} \cup Under(areas, new)
<1>1. /\ request[p].kind = "delete area" /\ Sites!Cascade({}, {a}, {})
      /\ request' = Sites!Done(p) /\ UNCHANGED <<placed, used, ops, astray>>
      /\ swept' = swept \cup ((DOMAIN areas \ DOMAIN areas') \ low)
    BY TreeTerms DEF Sites!RemoveArea
<1>2. Kids(areas, a) \subseteq new
  <2>1. request[p] \in Requests BY DEF SiteInv, RequestsHold
  <2>2. request[p] \in DeleteRequests
      BY <1>1, <2>1 DEF Requests, AreaRequests, OtherRequests
  <2>3. Sites!Children(a) \subseteq new BY <2>2 DEF SiteInv, RequestsHold, Asks
  <2> QED BY <2>3, TreeTerms
<1>3. Under(areas, {a}) \subseteq low
  <2>1. \A b \in Under(areas, new) : Kids(areas, b) \subseteq Under(areas, new) BY UnderKids
  <2>2. new \subseteq Under(areas, new) BY UnderRoots
  <2>3. \A b \in low : Kids(areas, b) \subseteq low BY <1>2, <2>1, <2>2
  <2> HIDE DEF low
  <2>4. {a} \subseteq low BY DEF low
  <2> QED BY <2>3, <2>4, UnderLeast
<1>4. DOMAIN areas \ DOMAIN areas' \subseteq Under(areas, {a})
    BY <1>1, TreeTerms DEF Sites!Cascade, Sites!Without, Sites!Areas
<1>5. swept' = {} BY <1>1, <1>3, <1>4 DEF SiteInv
<1> QED BY <1>1, <1>5, CascadeStep

\* A site goes with its areas, areas with what hangs below them, a rack alone.
LEMMA RemoveRootStep ==
    ASSUME SiteInv, NEW p \in Procs,
           Sites!RemoveSite(p) \/ Sites!RemoveRack(p) \/ Sites!RemoveTrees(p)
    PROVE  SiteInv'
<1>1. swept = {} BY DEF SiteInv
<1>2. CASE Sites!RemoveSite(p)
  <2> DEFINE roots == {a \in DOMAIN areas : areas[a].site = request[p].site}
  <2>1. /\ Sites!Cascade({request[p].site}, roots, {}) /\ request' = Sites!Done(p)
        /\ UNCHANGED <<placed, used, ops, astray, swept>>
      BY <1>2 DEF Sites!RemoveSite, Sites!Areas
  <2>2. \A a \in DOMAIN areas : areas[a].site \in {request[p].site} => a \in roots OBVIOUS
  <2> HIDE DEF roots
  <2> QED BY <1>1, <2>1, <2>2, CascadeStep
<1>3. CASE Sites!RemoveRack(p)
  <2> DEFINE goneRacks == {request[p].rack} \cap DOMAIN racks
  <2>1. /\ Sites!Cascade({}, {}, goneRacks) /\ request' = Sites!Done(p)
        /\ UNCHANGED <<placed, used, ops, astray, swept>>
      BY <1>3 DEF Sites!RemoveRack
  <2> HIDE DEF goneRacks
  <2> QED BY <1>1, <2>1, CascadeStep
<1>4. CASE Sites!RemoveTrees(p)
  <2> DEFINE roots == request[p].areas
  <2>1. /\ Sites!Cascade({}, roots, {}) /\ request' = Sites!Done(p)
        /\ UNCHANGED <<placed, used, ops, astray, swept>>
      BY <1>4 DEF Sites!RemoveTrees
  <2> HIDE DEF roots
  <2> QED BY <1>1, <2>1, CascadeStep
<1> QED BY <1>2, <1>3, <1>4

\* A site or a rack is saved, or the request refused.
LEMMA OtherRequestStep ==
    ASSUME SiteInv, NEW p \in Procs,
           Sites!SaveSite(p) \/ Sites!SaveRack(p) \/ Sites!Refused(p)
    PROVE  SiteInv'
<1>1. AreasTyped /\ RacksTyped /\ request[p] \in Requests BY DEF SiteInv, RequestsHold
<1>2. CASE Sites!SaveSite(p)
  <2>1. /\ request[p].kind = "save site" /\ sites' = sites \cup {request[p].site}
        /\ request' = Sites!Done(p) /\ UNCHANGED <<areas, racks, placed, used, ops, astray, swept>>
      BY <1>2 DEF Sites!SaveSite
  <2>2. request[p].site \in SiteIds
      BY <1>1, <2>1 DEF Requests, AreaRequests, DeleteRequests, OtherRequests
  <2>3. sites \subseteq sites' /\ sites' \subseteq SiteIds BY <1>1, <2>1, <2>2 DEF AreasTyped
  <2>4. RacksTyped' BY <1>1, <2>1 DEF RacksTyped
  <2> QED BY <2>1, <2>3, <2>4, RequestEnds
<1>3. CASE Sites!SaveRack(p)
  <2> DEFINE r == request[p].rack
             a == request[p].area
  <2>1. /\ request[p].kind = "save rack" /\ a \in DOMAIN areas /\ racks' = Sites!Put(racks, r, a)
        /\ request' = Sites!Done(p) /\ UNCHANGED <<sites, areas, placed, used, ops, astray, swept>>
      BY <1>3 DEF Sites!SaveRack, Sites!PutRack, Sites!Areas
  <2>2. r \in RackIds
      BY <1>1, <2>1 DEF Requests, AreaRequests, DeleteRequests, OtherRequests
  <2>3. /\ DOMAIN racks' = {r} \cup DOMAIN racks
        /\ \A k \in DOMAIN racks' : racks'[k] = IF k = r THEN a ELSE racks[k]
      BY <2>1 DEF Sites!Put
  <2>4. RacksTyped' BY <1>1, <2>1, <2>2, <2>3 DEF RacksTyped
  <2>5. sites' \subseteq SiteIds BY <1>1, <2>1 DEF AreasTyped
  <2> QED BY <2>1, <2>4, <2>5, RequestEnds
<1>4. CASE Sites!Refused(p)
  <2>1. /\ request' = Sites!Done(p)
        /\ UNCHANGED <<sites, areas, racks, placed, used, ops, astray, swept>>
      BY <1>4 DEF Sites!Refused
  <2>2. RacksTyped' /\ sites' \subseteq SiteIds BY <1>1, <2>1 DEF RacksTyped, AreasTyped
  <2> QED BY <2>1, <2>2, RequestEnds
<1> QED BY <1>2, <1>3, <1>4

\* A device is placed.
LEMMA PlaceStep ==
    ASSUME SiteInv, NEW d \in PlacedDevices, Sites!Place(d) PROVE SiteInv'
<1>1. PICK a \in {None} \cup DOMAIN areas, s \in sites :
        \E r \in {None} \cup {k \in DOMAIN racks : racks[k] = a} :
          placed' = Sites!Put(placed, d, [site |-> s, area |-> a, rack |-> r])
    BY DEF Sites!Place, Sites!Areas
<1>2. PICK r \in {None} \cup DOMAIN racks :
        placed' = Sites!Put(placed, d, [site |-> s, area |-> a, rack |-> r])
    BY <1>1
<1>3. UNCHANGED <<sites, areas, racks, request, used, ops, astray, swept>> BY DEF Sites!Place
<1>4. RacksTyped' BY <1>1, <1>2, <1>3 DEF SiteInv, RacksTyped, Sites!Put
<1>5. AreasTyped' /\ Straightened' BY <1>3 DEF SiteInv, AreasTyped, Straightened
<1>6. RequestsHold'
    BY <1>3 DEF SiteInv, RequestsHold, Fits, Asks, Sites!Children, Sites!Areas
<1> QED BY <1>3, <1>4, <1>5, <1>6 DEF SiteInv

\* Nothing has happened yet.
LEMMA SitesInit == ASSUME Sites!Init PROVE SiteInv
<1> USE DEF Sites!Init
<1>1. AreasTyped /\ RacksTyped
  <2>1. DOMAIN areas = {} /\ DOMAIN racks = {} /\ DOMAIN placed = {} OBVIOUS
  <2>2. areas \in [DOMAIN areas -> AreaRows] BY <2>1
  <2>3. 0 \in 0..MaxOps BY OperationsAssumption DEF Assumptions, Sites!Assumptions
  <2> QED BY <2>1, <2>2, <2>3 DEF AreasTyped, RacksTyped
<1>2. RequestsHold
  <2>1. /\ Sites!Idle \in Requests
        /\ Sites!Idle \notin AreaRequests /\ Sites!Idle \notin DeleteRequests
      BY DEF Sites!Idle, Requests, AreaRequests, DeleteRequests, OtherRequests
  <2> QED BY <2>1 DEF RequestsHold, Fits, Asks
<1>3. Straightened
  <2>1. DOMAIN areas = {} OBVIOUS
  <2> QED BY <2>1 DEF Straightened
<1> QED BY <1>1, <1>2, <1>3 DEF SiteInv

\* Each step of the sites keeps the invariant.
LEMMA SitesStep == ASSUME SiteInv, Sites!Next PROVE SiteInv'
<1>1. ASSUME NEW p \in Procs,
             \/ Sites!CreateArea(p) \/ Sites!UpdateArea(p) \/ Sites!DeleteArea(p)
             \/ Sites!EditArea(p) \/ Sites!CreateSite(p) \/ Sites!UpdateSite(p)
             \/ Sites!DeleteSite(p) \/ Sites!CreateRack(p) \/ Sites!UpdateRack(p)
             \/ Sites!DeleteRack(p) \/ Sites!EditRack(p) \/ Sites!DropAreas(p)
      PROVE  SiteInv'
    BY <1>1, LoadSteps
<1>2. ASSUME NEW p \in Procs, Sites!SaveNewArea(p) PROVE SiteInv' BY <1>2, SaveNewAreaStep
<1>3. ASSUME NEW p \in Procs, Sites!SaveArea(p) PROVE SiteInv' BY <1>3, SaveAreaStep
<1>4. ASSUME NEW p \in Procs, Sites!RemoveArea(p) PROVE SiteInv' BY <1>4, RemoveAreaStep
<1>5. ASSUME NEW p \in Procs,
             Sites!RemoveSite(p) \/ Sites!RemoveRack(p) \/ Sites!RemoveTrees(p)
      PROVE  SiteInv'
    BY <1>5, RemoveRootStep
<1>6. ASSUME NEW p \in Procs, Sites!SaveSite(p) \/ Sites!SaveRack(p) \/ Sites!Refused(p)
      PROVE  SiteInv'
    BY <1>6, OtherRequestStep
<1>7. ASSUME NEW d \in PlacedDevices, Sites!Place(d) PROVE SiteInv' BY <1>7, PlaceStep
<1> QED BY <1>1, <1>2, <1>3, <1>4, <1>5, <1>6, <1>7 DEF Sites!Next

\* A step that leaves the sites alone keeps it.
LEMMA SitesStutter == ASSUME SiteInv, UNCHANGED siteVars PROVE SiteInv'
<1> USE DEF siteVars
<1>1. AreasTyped' /\ RacksTyped' BY DEF SiteInv, AreasTyped, RacksTyped
<1>2. RequestsHold' BY DEF SiteInv, RequestsHold, Fits, Asks, Sites!Children, Sites!Areas
<1>3. Straightened' BY DEF SiteInv, Straightened
<1> QED BY <1>1, <1>2, <1>3 DEF SiteInv

\* So it always holds.
LEMMA SitesAlways == Spec => [](part = "sites" => SiteInv)
<1> DEFINE I == part = "sites" => SiteInv
<1>1. Init => I BY SitesInit DEF Init
<1>2. I /\ [Next]_vars => I'
  <2> SUFFICES ASSUME I, [Next]_vars, part' = "sites" PROVE SiteInv' OBVIOUS
  <2>1. part = "sites" BY DEF Next, vars
  <2>2. CASE UNCHANGED vars BY <2>1, <2>2, SitesStutter DEF vars
  <2>3. CASE Next
    <3>1. Sites!Next BY <2>1, <2>3 DEF Next
    <3> QED BY <2>1, <3>1, SitesStep
  <2> QED BY <2>2, <2>3
<1> QED BY <1>1, <1>2, PTL DEF Spec

\* The sites' variables have their types.
LEMMA SitesTypeOK == ASSUME SiteInv PROVE Sites!TypeOK
<1>1. DOMAIN request = Procs BY DEF SiteInv, RequestsHold
<1>2. \A a \in DOMAIN areas : Sites!Exists(areas[a].parent, DOMAIN areas)
    BY DEF SiteInv, AreasTyped, Sites!Exists
<1>3. \A d \in DOMAIN placed : /\ Sites!Exists(placed[d].area, DOMAIN areas)
                               /\ Sites!Exists(placed[d].rack, DOMAIN racks)
    BY DEF SiteInv, RacksTyped, Sites!Exists
<1> QED BY <1>1, <1>2, <1>3 DEF SiteInv, AreasTyped, RacksTyped, Sites!TypeOK, Sites!Areas

\* A site's page shows each of its areas, whatever its requests, the administration
\* and the API do, until a move or an overlap hides one; and its delete takes nothing
\* that hung below the area when it asked for a leaf.
THEOREM AreasAlwaysShown == Spec => []AreasShown
<1>1. (part = "sites" => SiteInv) => AreasShown BY SitesShow DEF AreasShown
<1> QED BY <1>1, SitesAlways, PTL

-----------------------------------------------------------------------------
\* The variables of the six components have their types, whatever any number of
\* processes does to them.
THEOREM TypesAlwaysHold == Spec => []TypeOK
<1>1. /\ part = "schedule" => ScheduleInv
      /\ part = "runtime" => RuntimeInv
      /\ part = "neighbours" => NeighbourInv
      /\ part = "sync" => SyncInv
      /\ part = "space" => SpaceInv
      /\ part = "sites" => SiteInv
      => TypeOK
    BY ScheduleTypeOK, RuntimeTypeOK, NeighbourTypeOK, SyncTypeOK, SpaceTypeOK, SitesTypeOK
    DEF TypeOK
<1> QED BY <1>1, ScheduleAlways, RuntimeAlways, NeighboursAlways, SyncAlways, SpaceAlways,
           SitesAlways, PTL
=============================================================================
