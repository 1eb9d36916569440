------------------------ MODULE ConfigHistoryProofs ------------------------
(***************************************************************************)
(* Proofs about ConfigHistory, for every number of backup and              *)
(* synchronization workers, every set of configurations and every bound.   *)
(*                                                                         *)
(* The invariant IInv adds to the properties what a collection under way   *)
(* knows: its previous is a committed row; if it is alone, that row is     *)
(* newer than all others; and a row collected alone is not newer than the  *)
(* previous of any collection still under way.                             *)
(***************************************************************************)
EXTENDS ConfigHistory, TLAPS

HasNewest(S) == S = {} \/ \E m \in S : \A r \in S : r.at <= m.at
Linked(c) == task[c].at \in {"create", "commit"}

RowsDistinct == \A r, q \in rows : r.at = q.at => r = q
RowsPast == \A r \in rows : r.at <= clock
Inserted ==
    \A c \in Collectors :
        IF task[c].at = "commit"
        THEN c \in Syncs /\ task[c].latest < task[c].row /\ task[c].row <= clock
        ELSE task[c].row = 0
InsertedApart ==
    \A c \in Collectors : task[c].at = "commit" =>
        /\ \A r \in rows : r.at # task[c].row
        /\ \A d \in Collectors \ {c} : task[d].row # task[c].row
LatestExists ==
    \A c \in Collectors : Linked(c) =>
        /\ task[c].latest <= clock
        /\ task[c].latest # 0 => \E p \in rows : p.at = task[c].latest
ReadKnown == \A c \in Collectors :
    task[c].at = "failed" => task[c].read = NoText
BackupsRead == \A c \in Backups :
    task[c].at \in {"read", "create"} => task[c].read # NoText
AloneIsAlone ==
    \A c \in alone : \A d \in Collectors \ {c} : task[d].at = "idle"
AloneSawAll ==
    \A c \in alone : Linked(c) =>
        \A r \in rows : r.at <= task[c].latest
AfterAlone ==
    \A c \in Collectors : Linked(c) => \A r \in rows : r.alone => r.at <= task[c].latest
AloneLinks ==
    \A r, q \in rows : r.alone /\ r.previous # 0 /\ q.at < r.at => q.at <= r.previous
LinksAfterAlone ==
    \A r, q \in rows : r.alone /\ r.at < q.at /\ q.previous # 0 => r.at <= q.previous

IInv == /\ TypeOK /\ HasNewest(rows) /\ HasNewest(Successes)
        /\ RowsDistinct /\ RowsPast /\ PreviousIsOlder
        /\ Inserted /\ InsertedApart /\ LatestExists /\ ReadKnown /\ BackupsRead
        /\ AloneIsAlone /\ AloneSawAll /\ AfterAlone /\ AloneLinks /\ LinksAfterAlone
        /\ NewestIsLastRead

(***************************************************************************)
(* The newest row                                                          *)
(***************************************************************************)

\* Newest, which stands for .order_by("-collected_at").first(), is the
\* collected_at of a row and bounds those of all rows.
LEMMA NewestIsMax ==
  ASSUME NEW S, HasNewest(S), \A r \in S : r.at \in Nat
  PROVE  /\ S = {} => Newest(S) = 0
         /\ S # {} => \E m \in S : m.at = Newest(S)
         /\ \A r \in S : r.at <= Newest(S)
         /\ Newest(S) \in Nat
<1>1. CASE S = {}  BY <1>1 DEF Newest
<1>2. CASE S # {}
  <2>1. PICK m \in S : \A r \in S : r.at <= m.at  BY <1>2 DEF HasNewest
  <2>2. \E t \in {r.at : r \in S} : \A r \in S : r.at <= t  BY <2>1
  <2>3. Newest(S) \in {r.at : r \in S} /\ \A r \in S : r.at <= Newest(S)
    BY <1>2, <2>2 DEF Newest
  <2> QED BY <1>2, <2>3
<1> QED BY <1>1, <1>2

\* Newest is the only such number.
LEMMA NewestUnique ==
  ASSUME NEW S, HasNewest(S), \A r \in S : r.at \in Nat,
         NEW x \in S, \A r \in S : r.at <= x.at
  PROVE  Newest(S) = x.at
<1>1. x.at <= Newest(S) /\ Newest(S) \in Nat  BY NewestIsMax
<1>2. PICK m \in S : m.at = Newest(S)  BY NewestIsMax
<1> QED BY <1>1, <1>2

\* A set of rows with a newest one still has one when a row is added.
LEMMA HasNewestAdd ==
  ASSUME NEW S, HasNewest(S), \A r \in S : r.at \in Nat, NEW x, x.at \in Nat
  PROVE  HasNewest(S \cup {x})
<1>1. CASE S = {}  BY <1>1 DEF HasNewest
<1>2. CASE S # {}
  <2>1. PICK m \in S : \A r \in S : r.at <= m.at  BY <1>2 DEF HasNewest
  <2>2. CASE x.at <= m.at  BY <2>1, <2>2 DEF HasNewest
  <2>3. CASE m.at < x.at  BY <2>1, <2>3 DEF HasNewest
  <2> QED BY <2>1, <2>2, <2>3
<1> QED BY <1>1, <1>2

(***************************************************************************)
(* Steps that add no row                                                   *)
(***************************************************************************)

\* Reconfigure preserves the inductive invariant: it touches no row and no task.
LEMMA ReconfigureInv ==
  ASSUME IInv, Reconfigure
  PROVE  IInv'
BY DEF IInv, Reconfigure, TypeOK, HasNewest, Successes, RowsDistinct, RowsPast, PreviousIsOlder,
       Inserted, InsertedApart, LatestExists, ReadKnown, BackupsRead, AloneIsAlone, AloneSawAll,
       AfterAlone, AloneLinks, LinksAfterAlone, NewestIsLastRead, Linked

\* Collect preserves the inductive invariant.
LEMMA CollectInv ==
  ASSUME IInv, NEW c \in Collectors, Collect(c)
  PROVE  IInv'
<1> USE ConfigsAssumption, CollectorsAssumption, BoundsAssumption DEF IInv
<1>a. UNCHANGED <<running, rows, clock, faults, settled>> /\ running \in Configs
      /\ task[c].at = "idle" /\ alone' \in SUBSET Collectors
      /\ \A e \in alone' : e = c /\ \A d \in Collectors : task[d].at = "idle"
  BY DEF Collect, TypeOK
<1>b. /\ task' \in [Collectors -> TaskType]
      /\ task'[c].at \in {"read", "failed"} /\ task'[c].row = 0
      /\ (task'[c].at = "failed") <=> (task'[c].read = NoText)
      /\ \A e \in Collectors \ {c} : task'[e] = task[e]
  BY <1>a DEF Collect, Task, TypeOK, TaskType, Idle
<1>1. TypeOK'  BY <1>a, <1>b DEF TypeOK, Collectors
<1>2. HasNewest(rows)'  BY <1>a, <1>b DEF HasNewest
<1>3. HasNewest(Successes)'  BY <1>a, <1>b DEF HasNewest, Successes
<1>4. RowsDistinct'  BY <1>a, <1>b DEF RowsDistinct
<1>5. RowsPast'  BY <1>a, <1>b DEF RowsPast
<1>6. PreviousIsOlder'  BY <1>a, <1>b DEF PreviousIsOlder
<1>7. Inserted'  BY <1>a, <1>b DEF Inserted, TypeOK, TaskType
<1>8. InsertedApart'  BY <1>a, <1>b DEF InsertedApart, Inserted, TypeOK, TaskType, Collectors
<1>9. LatestExists'  BY <1>a, <1>b DEF LatestExists, Linked
<1>10. ReadKnown'  BY <1>a, <1>b DEF ReadKnown
<1>11. BackupsRead'  BY <1>a, <1>b DEF BackupsRead, Collectors
<1>12. AloneIsAlone'  BY <1>a, <1>b DEF AloneIsAlone
<1>13. AloneSawAll'  BY <1>a, <1>b DEF AloneSawAll, Linked, AloneIsAlone
<1>14. AfterAlone'  BY <1>a, <1>b DEF AfterAlone, Linked
<1>15. AloneLinks'  BY <1>a, <1>b DEF AloneLinks
<1>16. LinksAfterAlone'  BY <1>a, <1>b DEF LinksAfterAlone
<1>17. NewestIsLastRead'  BY <1>a, <1>b DEF NewestIsLastRead, Successes
<1> QED BY <1>1, <1>2, <1>3, <1>4, <1>5, <1>6, <1>7, <1>8, <1>9,
           <1>10, <1>11, <1>12, <1>13, <1>14, <1>15, <1>16, <1>17

\* PersistRaises preserves the inductive invariant.
LEMMA PersistRaisesInv ==
  ASSUME IInv, NEW c \in Collectors, PersistRaises(c)
  PROVE  IInv'
<1> USE ConfigsAssumption, CollectorsAssumption, BoundsAssumption DEF IInv
<1>a. /\ UNCHANGED <<running, rows, clock, alone, settled>> /\ faults' \in 0..MaxFaults
      /\ c \in Backups /\ task[c].at \in {"read", "create"}
  BY DEF PersistRaises, Raises, TypeOK
<1>b. /\ task' \in [Collectors -> TaskType]
      /\ task'[c].at = "failed" /\ task'[c].read = NoText
      /\ task'[c].latest = 0 /\ task'[c].row = 0
      /\ \A e \in Collectors \ {c} : task'[e] = task[e]
  BY <1>a DEF PersistRaises, Raises, Task, TypeOK, TaskType, Idle
<1>1. TypeOK'  BY <1>a, <1>b DEF TypeOK, Collectors
<1>2. HasNewest(rows)'  BY <1>a, <1>b DEF HasNewest
<1>3. HasNewest(Successes)'  BY <1>a, <1>b DEF HasNewest, Successes
<1>4. RowsDistinct'  BY <1>a, <1>b DEF RowsDistinct
<1>5. RowsPast'  BY <1>a, <1>b DEF RowsPast
<1>6. PreviousIsOlder'  BY <1>a, <1>b DEF PreviousIsOlder
<1>7. Inserted'  BY <1>a, <1>b DEF Inserted, TypeOK, TaskType
<1>8. InsertedApart'  BY <1>a, <1>b DEF InsertedApart, Inserted, TypeOK, TaskType, Collectors
<1>9. LatestExists'  BY <1>a, <1>b DEF LatestExists, Linked
<1>10. ReadKnown'  BY <1>a, <1>b DEF ReadKnown
<1>11. BackupsRead'  BY <1>a, <1>b DEF BackupsRead, Collectors
<1>12. AloneIsAlone'  BY <1>a, <1>b DEF AloneIsAlone
<1>13. AloneSawAll'  BY <1>a, <1>b DEF AloneSawAll, Linked, AloneIsAlone
<1>14. AfterAlone'  BY <1>a, <1>b DEF AfterAlone, Linked
<1>15. AloneLinks'  BY <1>a, <1>b DEF AloneLinks
<1>16. LinksAfterAlone'  BY <1>a, <1>b DEF LinksAfterAlone
<1>17. NewestIsLastRead'  BY <1>a, <1>b DEF NewestIsLastRead, Successes
<1> QED BY <1>1, <1>2, <1>3, <1>4, <1>5, <1>6, <1>7, <1>8, <1>9,
           <1>10, <1>11, <1>12, <1>13, <1>14, <1>15, <1>16, <1>17

\* Stops preserves the inductive invariant.
LEMMA StopsInv ==
  ASSUME IInv, NEW c \in Collectors, Stops(c)
  PROVE  IInv'
<1> USE ConfigsAssumption, CollectorsAssumption, BoundsAssumption DEF IInv
<1>a. /\ UNCHANGED <<running, rows, clock, settled>> /\ faults' \in 0..MaxFaults /\ alone' = {}
  BY DEF Stops, Raises, TypeOK
<1>b. /\ task' \in [Collectors -> TaskType]
      /\ task'[c].at = "idle" /\ task'[c].read = NoText
      /\ task'[c].latest = 0 /\ task'[c].row = 0
      /\ \A e \in Collectors \ {c} : task'[e] = task[e]
  BY <1>a DEF Stops, Raises, Task, TypeOK, TaskType, Idle
<1>1. TypeOK'  BY <1>a, <1>b DEF TypeOK, Collectors
<1>2. HasNewest(rows)'  BY <1>a, <1>b DEF HasNewest
<1>3. HasNewest(Successes)'  BY <1>a, <1>b DEF HasNewest, Successes
<1>4. RowsDistinct'  BY <1>a, <1>b DEF RowsDistinct
<1>5. RowsPast'  BY <1>a, <1>b DEF RowsPast
<1>6. PreviousIsOlder'  BY <1>a, <1>b DEF PreviousIsOlder
<1>7. Inserted'  BY <1>a, <1>b DEF Inserted, TypeOK, TaskType
<1>8. InsertedApart'  BY <1>a, <1>b DEF InsertedApart, Inserted, TypeOK, TaskType, Collectors
<1>9. LatestExists'  BY <1>a, <1>b DEF LatestExists, Linked
<1>10. ReadKnown'  BY <1>a, <1>b DEF ReadKnown
<1>11. BackupsRead'  BY <1>a, <1>b DEF BackupsRead, Collectors
<1>12. AloneIsAlone'  BY <1>a, <1>b DEF AloneIsAlone
<1>13. AloneSawAll'  BY <1>a, <1>b DEF AloneSawAll, Linked, AloneIsAlone
<1>14. AfterAlone'  BY <1>a, <1>b DEF AfterAlone, Linked
<1>15. AloneLinks'  BY <1>a, <1>b DEF AloneLinks
<1>16. LinksAfterAlone'  BY <1>a, <1>b DEF LinksAfterAlone
<1>17. NewestIsLastRead'  BY <1>a, <1>b DEF NewestIsLastRead, Successes
<1> QED BY <1>1, <1>2, <1>3, <1>4, <1>5, <1>6, <1>7, <1>8, <1>9,
           <1>10, <1>11, <1>12, <1>13, <1>14, <1>15, <1>16, <1>17

\* FindPrevious preserves the inductive invariant.
LEMMA FindPreviousInv ==
  ASSUME IInv, NEW c \in Collectors, FindPrevious(c)
  PROVE  IInv'
<1> USE ConfigsAssumption, CollectorsAssumption, BoundsAssumption DEF IInv
<1>c. /\ Newest(rows) \in 0..MaxRows /\ Newest(rows) <= clock
      /\ \A r \in rows : r.at <= Newest(rows)
      /\ Newest(rows) # 0 => \E p \in rows : p.at = Newest(rows)
  <2>1. \A r \in rows : r.at \in Nat /\ r.at <= MaxRows  BY DEF TypeOK, RowType
  <2>2. /\ rows = {} => Newest(rows) = 0
        /\ rows # {} => \E m \in rows : m.at = Newest(rows)
        /\ \A r \in rows : r.at <= Newest(rows)
        /\ Newest(rows) \in Nat
    BY <2>1, NewestIsMax
  <2>3. clock \in 0..MaxRows  BY DEF TypeOK
  <2> QED BY <2>1, <2>2, <2>3 DEF RowsPast
<1>a. UNCHANGED <<running, rows, clock, faults, alone, settled>> /\ c \in Syncs /\ task[c].at # "idle"
  BY <1>c DEF FindPrevious, Continues, TypeOK
<1>b. /\ task' \in [Collectors -> TaskType]
      /\ task'[c].at = "create" /\ task'[c].read = task[c].read
      /\ task'[c].latest = Newest(rows) /\ task'[c].row = 0
      /\ \A e \in Collectors \ {c} : task'[e] = task[e]
  BY <1>a, <1>c DEF FindPrevious, Continues, Task, TypeOK, TaskType, Idle
<1>1. TypeOK'  BY <1>a, <1>b DEF TypeOK, Collectors
<1>2. HasNewest(rows)'  BY <1>a, <1>b DEF HasNewest
<1>3. HasNewest(Successes)'  BY <1>a, <1>b DEF HasNewest, Successes
<1>4. RowsDistinct'  BY <1>a, <1>b DEF RowsDistinct
<1>5. RowsPast'  BY <1>a, <1>b DEF RowsPast
<1>6. PreviousIsOlder'  BY <1>a, <1>b DEF PreviousIsOlder
<1>7. Inserted'  BY <1>a, <1>b DEF Inserted, TypeOK, TaskType
<1>8. InsertedApart'  BY <1>a, <1>b DEF InsertedApart, Inserted, TypeOK, TaskType, Collectors
<1>9. LatestExists'  BY <1>a, <1>b, <1>c DEF LatestExists, Linked
<1>10. ReadKnown'  BY <1>a, <1>b DEF ReadKnown
<1>11. BackupsRead'  BY <1>a, <1>b DEF BackupsRead, Collectors
<1>12. AloneIsAlone'  BY <1>a, <1>b DEF AloneIsAlone
<1>13. AloneSawAll'  BY <1>a, <1>b, <1>c DEF AloneSawAll, Linked, AloneIsAlone
<1>14. AfterAlone'  BY <1>a, <1>b, <1>c DEF AfterAlone, Linked
<1>15. AloneLinks'  BY <1>a, <1>b DEF AloneLinks
<1>16. LinksAfterAlone'  BY <1>a, <1>b DEF LinksAfterAlone
<1>17. NewestIsLastRead'  BY <1>a, <1>b DEF NewestIsLastRead, Successes
<1> QED BY <1>1, <1>2, <1>3, <1>4, <1>5, <1>6, <1>7, <1>8, <1>9,
           <1>10, <1>11, <1>12, <1>13, <1>14, <1>15, <1>16, <1>17

\* Insert preserves the inductive invariant.
LEMMA InsertInv ==
  ASSUME IInv, NEW c \in Collectors, Insert(c)
  PROVE  IInv'
<1> USE ConfigsAssumption, CollectorsAssumption, BoundsAssumption DEF IInv
<1>a. /\ UNCHANGED <<running, rows, faults, alone, settled>> /\ c \in Syncs
      /\ task[c].at = "create" /\ clock' = clock + 1 /\ clock' \in 0..MaxRows /\ clock \in Nat
  BY DEF Insert, Continues, Tick, TypeOK
<1>b. /\ task' \in [Collectors -> TaskType]
      /\ task'[c].at = "commit" /\ task'[c].read = task[c].read
      /\ task'[c].latest = task[c].latest /\ task'[c].row = clock'
      /\ \A e \in Collectors \ {c} : task'[e] = task[e]
  BY <1>a DEF Insert, Continues, Tick, Task, TypeOK, TaskType, Idle
<1>1. TypeOK'  BY <1>a, <1>b DEF TypeOK, Collectors
<1>2. HasNewest(rows)'  BY <1>a, <1>b DEF HasNewest
<1>3. HasNewest(Successes)'  BY <1>a, <1>b DEF HasNewest, Successes
<1>4. RowsDistinct'  BY <1>a, <1>b DEF RowsDistinct
<1>5. RowsPast'  BY <1>a, <1>b DEF RowsPast, TypeOK, RowType
<1>6. PreviousIsOlder'  BY <1>a, <1>b DEF PreviousIsOlder
<1>7. Inserted'  BY <1>a, <1>b DEF Inserted, TypeOK, TaskType, LatestExists, Linked
<1>8. InsertedApart'  BY <1>a, <1>b DEF InsertedApart, Inserted, TypeOK, TaskType, RowsPast, RowType
<1>9. LatestExists'  BY <1>a, <1>b DEF LatestExists, Linked, TypeOK, TaskType
<1>10. ReadKnown'  BY <1>a, <1>b DEF ReadKnown
<1>11. BackupsRead'  BY <1>a, <1>b DEF BackupsRead, Collectors
<1>12. AloneIsAlone'  BY <1>a, <1>b DEF AloneIsAlone
<1>13. AloneSawAll'  BY <1>a, <1>b DEF AloneSawAll, Linked, AloneIsAlone
<1>14. AfterAlone'  BY <1>a, <1>b DEF AfterAlone, Linked
<1>15. AloneLinks'  BY <1>a, <1>b DEF AloneLinks
<1>16. LinksAfterAlone'  BY <1>a, <1>b DEF LinksAfterAlone
<1>17. NewestIsLastRead'  BY <1>a, <1>b DEF NewestIsLastRead, Successes
<1> QED BY <1>1, <1>2, <1>3, <1>4, <1>5, <1>6, <1>7, <1>8, <1>9,
           <1>10, <1>11, <1>12, <1>13, <1>14, <1>15, <1>16, <1>17

\* Compare preserves the inductive invariant.
LEMMA CompareInv ==
  ASSUME IInv, NEW c \in Collectors, Compare(c)
  PROVE  IInv'
<1> USE ConfigsAssumption, CollectorsAssumption, BoundsAssumption DEF IInv
<1>c. /\ Newest(rows) \in 0..MaxRows /\ Newest(rows) <= clock
      /\ \A r \in rows : r.at <= Newest(rows)
      /\ Newest(rows) # 0 => \E p \in rows : p.at = Newest(rows)
  <2>1. \A r \in rows : r.at \in Nat /\ r.at <= MaxRows  BY DEF TypeOK, RowType
  <2>2. /\ rows = {} => Newest(rows) = 0
        /\ rows # {} => \E m \in rows : m.at = Newest(rows)
        /\ \A r \in rows : r.at <= Newest(rows)
        /\ Newest(rows) \in Nat
    BY <2>1, NewestIsMax
  <2>3. clock \in 0..MaxRows  BY DEF TypeOK
  <2> QED BY <2>1, <2>2, <2>3 DEF RowsPast
<1>d. CASE \E r \in rows : r.at = Newest(rows) /\ r.hash = Hash(c, task[c].read)
  <2>a. UNCHANGED <<running, rows, clock, faults>> /\ alone' = {} /\ settled' \in Configs \cup {NoText}
    BY <1>d DEF Compare, Ends, TypeOK, TaskType
  <2>b. /\ task' \in [Collectors -> TaskType]
        /\ task'[c].at = "idle" /\ task'[c].read = NoText
        /\ task'[c].latest = 0 /\ task'[c].row = 0
        /\ \A e \in Collectors \ {c} : task'[e] = task[e]
    BY <1>d DEF Compare, Ends, Task, TypeOK, TaskType, Idle
  <2>1. TypeOK'  BY <2>a, <2>b DEF TypeOK, Collectors
  <2>2. HasNewest(rows)'  BY <2>a, <2>b DEF HasNewest
  <2>3. HasNewest(Successes)'  BY <2>a, <2>b DEF HasNewest, Successes
  <2>4. RowsDistinct'  BY <2>a, <2>b DEF RowsDistinct
  <2>5. RowsPast'  BY <2>a, <2>b DEF RowsPast
  <2>6. PreviousIsOlder'  BY <2>a, <2>b DEF PreviousIsOlder
  <2>7. Inserted'  BY <2>a, <2>b DEF Inserted, TypeOK, TaskType
  <2>8. InsertedApart'  BY <2>a, <2>b DEF InsertedApart, Inserted, TypeOK, TaskType, Collectors
  <2>9. LatestExists'  BY <2>a, <2>b DEF LatestExists, Linked
  <2>10. ReadKnown'  BY <2>a, <2>b DEF ReadKnown
  <2>11. BackupsRead'  BY <2>a, <2>b DEF BackupsRead, Collectors
  <2>12. AloneIsAlone'  BY <2>a, <2>b DEF AloneIsAlone
  <2>13. AloneSawAll'  BY <2>a, <2>b DEF AloneSawAll, Linked, AloneIsAlone
  <2>14. AfterAlone'  BY <2>a, <2>b DEF AfterAlone, Linked
  <2>15. AloneLinks'  BY <2>a, <2>b DEF AloneLinks
  <2>16. LinksAfterAlone'  BY <2>a, <2>b DEF LinksAfterAlone
  <2>17. NewestIsLastRead'
    <3>1. PICK r \in rows : r.at = Newest(rows) /\ r.hash = Hash(c, task[c].read)
      BY <1>d
    <3>2. c \in Backups /\ task[c].at = "read" /\ task[c].read # NoText
      BY DEF Compare, BackupsRead
    <3>3. r.hash.text = task[c].read /\ r.hash # NoHash
      BY <3>1, <3>2 DEF Hash, NoHash
    <3>4. r \in Successes
      BY <3>3 DEF Successes, TypeOK
    <3>5. \A q \in Successes : q.at \in Nat /\ q.at <= r.at
      BY <1>c, <3>1 DEF Successes, TypeOK, RowType
    <3>6. Newest(Successes) = r.at
      BY <3>4, <3>5, NewestUnique
    <3>7. settled' = IF c \in alone THEN task[c].read ELSE NoText
      BY <1>d, <3>2 DEF Compare, Ends
    <3>8. Newest(Successes)' = Newest(Successes)
      BY <2>a DEF Successes
    <3> QED BY <2>a, <3>3, <3>6, <3>7, <3>8 DEF NewestIsLastRead
  <2> QED BY <2>1, <2>2, <2>3, <2>4, <2>5, <2>6, <2>7, <2>8, <2>9,
             <2>10, <2>11, <2>12, <2>13, <2>14, <2>15, <2>16, <2>17
<1>e. CASE ~\E r \in rows : r.at = Newest(rows) /\ r.hash = Hash(c, task[c].read)
  <2>a. UNCHANGED <<running, rows, clock, faults, alone, settled>> /\ c \in Backups /\ task[c].at = "read"
    BY <1>e DEF Compare, Continues, TypeOK
  <2>b. /\ task' \in [Collectors -> TaskType]
        /\ task'[c].at = "create" /\ task'[c].read = task[c].read
        /\ task'[c].latest = Newest(rows) /\ task'[c].row = 0
        /\ \A e \in Collectors \ {c} : task'[e] = task[e]
    BY <1>e, <2>a, <1>c DEF Compare, Continues, Task, TypeOK, TaskType, Idle
  <2>1. TypeOK'  BY <2>a, <2>b DEF TypeOK, Collectors
  <2>2. HasNewest(rows)'  BY <2>a, <2>b DEF HasNewest
  <2>3. HasNewest(Successes)'  BY <2>a, <2>b DEF HasNewest, Successes
  <2>4. RowsDistinct'  BY <2>a, <2>b DEF RowsDistinct
  <2>5. RowsPast'  BY <2>a, <2>b DEF RowsPast
  <2>6. PreviousIsOlder'  BY <2>a, <2>b DEF PreviousIsOlder
  <2>7. Inserted'  BY <2>a, <2>b DEF Inserted, TypeOK, TaskType
  <2>8. InsertedApart'  BY <2>a, <2>b DEF InsertedApart, Inserted, TypeOK, TaskType, Collectors
  <2>9. LatestExists'  BY <2>a, <2>b, <1>c DEF LatestExists, Linked
  <2>10. ReadKnown'  BY <2>a, <2>b DEF ReadKnown
  <2>11. BackupsRead'  BY <2>a, <2>b DEF BackupsRead, Collectors
  <2>12. AloneIsAlone'  BY <2>a, <2>b DEF AloneIsAlone
  <2>13. AloneSawAll'  BY <2>a, <2>b, <1>c DEF AloneSawAll, Linked, AloneIsAlone
  <2>14. AfterAlone'  BY <2>a, <2>b, <1>c DEF AfterAlone, Linked
  <2>15. AloneLinks'  BY <2>a, <2>b DEF AloneLinks
  <2>16. LinksAfterAlone'  BY <2>a, <2>b DEF LinksAfterAlone
  <2>17. NewestIsLastRead'  BY <2>a, <2>b DEF NewestIsLastRead, Successes
  <2> QED BY <2>1, <2>2, <2>3, <2>4, <2>5, <2>6, <2>7, <2>8, <2>9,
             <2>10, <2>11, <2>12, <2>13, <2>14, <2>15, <2>16, <2>17
<1> QED BY <1>d, <1>e

(***************************************************************************)
(* Steps that add a row                                                    *)
(***************************************************************************)

\* A collection that ends by adding a row preserves the inductive invariant:
\* the row has a collected_at of its own, its previous is what the collection
\* saw, and no row collected alone is newer.
LEMMA RowAddedInv ==
  ASSUME IInv, NEW c \in Collectors, NEW x \in RowType,
         task[c].at # "idle", Ends(c),
         rows' = rows \cup {x}, x.ok <=> x.hash # NoHash, x.alone <=> c \in alone,
         clock' \in clock..MaxRows, x.at <= clock',
         \A r \in rows : r.at # x.at,
         \A d \in Collectors \ {c} : task[d].row # x.at,
         \/ x.previous = 0 /\ \A r \in rows : r.at < x.at
         \/ Linked(c) /\ x.previous = task[c].latest /\ task[c].latest < x.at,
         IF task[c].read = NoText THEN x.hash = NoHash ELSE x.hash.text = task[c].read,
         UNCHANGED <<running, faults>>
  PROVE  IInv'
<1> USE ConfigsAssumption, CollectorsAssumption, BoundsAssumption DEF IInv
<1>a. /\ task' \in [Collectors -> TaskType]
      /\ task'[c].at = "idle" /\ task'[c].read = NoText
      /\ task'[c].latest = 0 /\ task'[c].row = 0
      /\ \A e \in Collectors \ {c} : task'[e] = task[e]
  BY DEF Ends, Task, TypeOK, TaskType, Idle
<1>b. /\ alone' = {} /\ running' = running /\ faults' = faults
      /\ settled' = IF task[c].read = NoText THEN settled
                    ELSE IF c \in alone THEN task[c].read ELSE NoText
  BY DEF Ends
<1>c. /\ \A r \in rows' : r \in RowType /\ r.at \in Nat /\ r.previous \in Nat
      /\ clock \in 0..MaxRows /\ x.at \in Nat
      /\ \A r \in rows : r.at \in Nat
  BY DEF TypeOK, RowType
<1>d. \A r \in rows : r.alone => r.at < x.at
  BY <1>c DEF AfterAlone, TypeOK, TaskType
<1>e. c \in alone => \A r \in rows : r.at < x.at
  BY <1>c DEF AloneSawAll, TypeOK, TaskType
<1>f. ASSUME task[c].read = NoText
      PROVE  HasNewest(Successes)' /\ NewestIsLastRead'
  <2>1. Successes' = Successes  BY <1>f DEF Successes
  <2>2. HasNewest(Successes)'  BY <2>1 DEF HasNewest
  <2>3. Newest(Successes)' = Newest(Successes)  BY <2>1
  <2>4. NewestIsLastRead'  BY <1>f, <1>b, <2>3 DEF NewestIsLastRead
  <2> QED BY <2>2, <2>4
<1>g. ASSUME task[c].read # NoText
      PROVE  HasNewest(Successes)' /\ NewestIsLastRead'
  <2>1. x.ok /\ x.hash.text = task[c].read  BY <1>g DEF NoHash
  <2>2. Successes' = Successes \cup {x}  BY <2>1 DEF Successes
  <2>3. \A r \in Successes : r.at \in Nat  BY <1>c DEF Successes
  <2>4. HasNewest(Successes)'
    <3>1. HasNewest(Successes \cup {x})  BY <1>c, <2>3, HasNewestAdd
    <3> QED BY <2>2, <3>1 DEF HasNewest
  <2>5. NewestIsLastRead'
    <3>1. CASE c \notin alone  BY <1>b, <1>g, <3>1 DEF NewestIsLastRead
    <3>2. CASE c \in alone
      <4>1. \A r \in Successes \cup {x} : r.at \in Nat /\ r.at <= x.at
        BY <1>c, <1>e, <3>2 DEF Successes
      <4>2. HasNewest(Successes \cup {x})  BY <1>c, <2>3, HasNewestAdd
      <4>3. Newest(Successes \cup {x}) = x.at  BY <4>1, <4>2, NewestUnique
      <4>4. Newest(Successes)' = x.at  BY <2>2, <4>3
      <4> QED BY <1>b, <1>g, <2>1, <3>2, <4>4 DEF NewestIsLastRead
    <3> QED BY <3>1, <3>2
  <2> QED BY <2>4, <2>5, <2>2
<1>1. TypeOK'
  <2>1. rows' \subseteq RowType /\ \A r \in rows' : r.ok <=> r.hash # NoHash
    BY DEF TypeOK
  <2>2. settled' \in Configs \cup {NoText} /\ clock' \in 0..MaxRows
    BY <1>b, <1>c DEF TypeOK, TaskType
  <2> QED BY <1>a, <1>b, <2>1, <2>2 DEF TypeOK, Collectors
<1>2. HasNewest(rows)'
  <2>1. HasNewest(rows \cup {x})  BY <1>c, HasNewestAdd
  <2> QED BY <2>1 DEF HasNewest
<1>3. HasNewest(Successes)'  BY <1>f, <1>g
<1>4. RowsDistinct'  BY DEF RowsDistinct
<1>5. RowsPast'  BY <1>c DEF RowsPast
<1>6. PreviousIsOlder'  BY <1>c DEF PreviousIsOlder, LatestExists
<1>7. Inserted'  BY <1>a, <1>c DEF Inserted, TypeOK, TaskType
<1>8. InsertedApart'  BY <1>a DEF InsertedApart, Inserted, TypeOK, TaskType
<1>9. LatestExists'  BY <1>a, <1>c DEF LatestExists, Linked, TypeOK, TaskType
<1>10. ReadKnown'  BY <1>a DEF ReadKnown
<1>11. BackupsRead'  BY <1>a DEF BackupsRead, Collectors
<1>12. AloneIsAlone'  BY <1>b DEF AloneIsAlone
<1>13. AloneSawAll'  BY <1>b DEF AloneSawAll
<1>14. AfterAlone'  BY <1>a DEF AfterAlone, Linked, AloneIsAlone
<1>15. AloneLinks'
  <2>1. x.alone /\ x.previous # 0 => \A q \in rows : q.at <= x.previous
    BY DEF AloneSawAll
  <2>2. \A r \in rows : r.alone => ~(x.at < r.at)  BY <1>c, <1>d
  <2> QED BY <1>c, <2>1, <2>2 DEF AloneLinks
<1>16. LinksAfterAlone'
  <2>1. x.previous # 0 => \A r \in rows : r.alone => r.at <= x.previous
    BY DEF AfterAlone
  <2>2. x.alone => \A q \in rows : ~(x.at < q.at)  BY <1>c, <1>e
  <2> QED BY <1>c, <2>1, <2>2 DEF LinksAfterAlone
<1>17. NewestIsLastRead'  BY <1>f, <1>g
<1> QED BY <1>1, <1>2, <1>3, <1>4, <1>5, <1>6, <1>7, <1>8, <1>9,
           <1>10, <1>11, <1>12, <1>13, <1>14, <1>15, <1>16, <1>17

\* Create preserves the inductive invariant.
LEMMA CreateInv ==
  ASSUME IInv, NEW c \in Collectors, Create(c)
  PROVE  IInv'
<1> USE ConfigsAssumption, CollectorsAssumption, BoundsAssumption
<1> DEFINE x == Row(c, clock', Hash(c, task[c].read), task[c].latest)
<1>1. /\ clock \in 0..MaxRows /\ clock' = clock + 1 /\ clock' \in clock..MaxRows
      /\ \A r \in rows : r.at \in Nat /\ r.at <= clock
      /\ \A d \in Collectors : task[d].row \in Nat /\ task[d].row <= clock
  <2>1. clock \in 0..MaxRows /\ clock' = clock + 1 /\ clock' \in clock..MaxRows
    BY DEF Create, Tick, IInv, TypeOK
  <2>2. \A r \in rows : r.at \in Nat /\ r.at <= clock  BY DEF IInv, TypeOK, RowType, RowsPast
  <2>3. \A d \in Collectors : task[d].row \in Nat /\ task[d].row <= clock
    BY <2>1 DEF IInv, TypeOK, TaskType, Inserted
  <2> QED BY <2>1, <2>2, <2>3
<1>2. /\ c \in Backups /\ task[c].at = "create" /\ rows' = rows \cup {x} /\ Ends(c)
      /\ UNCHANGED <<running, faults>>
  BY DEF Create
<1>3. task[c].read \in Configs /\ task[c].latest \in 0..MaxRows /\ task[c].latest <= clock
  BY <1>2 DEF IInv, TypeOK, TaskType, BackupsRead, LatestExists, Linked
<1>h. \A t \in Configs :
        /\ Hash(c, t) \in [text : Configs \cup {NoText}, raw : BOOLEAN]
        /\ Hash(c, t).text = t
  BY DEF Hash
<1>4. x \in RowType  BY <1>1, <1>3, <1>h DEF Row, RowType
<1>5. /\ x.at = clock' /\ x.previous = task[c].latest /\ x.hash = Hash(c, task[c].read)
      /\ x.ok <=> x.hash # NoHash
      /\ x.alone <=> c \in alone
  BY DEF Row
<1> HIDE DEF x
<1>6. task[c].read # NoText /\ x.hash.text = task[c].read  BY <1>3, <1>5, <1>h
<1> QED BY <1>1, <1>2, <1>3, <1>4, <1>5, <1>6, RowAddedInv DEF Linked

\* CreateFailure preserves the inductive invariant.
LEMMA CreateFailureInv ==
  ASSUME IInv, NEW c \in Collectors, CreateFailure(c)
  PROVE  IInv'
<1> USE ConfigsAssumption, CollectorsAssumption, BoundsAssumption
<1> DEFINE x == Row(c, clock', NoHash, 0)
<1>1. /\ clock \in 0..MaxRows /\ clock' = clock + 1 /\ clock' \in clock..MaxRows
      /\ \A r \in rows : r.at \in Nat /\ r.at <= clock
      /\ \A d \in Collectors : task[d].row \in Nat /\ task[d].row <= clock
  <2>1. clock \in 0..MaxRows /\ clock' = clock + 1 /\ clock' \in clock..MaxRows
    BY DEF CreateFailure, Tick, IInv, TypeOK
  <2>2. \A r \in rows : r.at \in Nat /\ r.at <= clock  BY DEF IInv, TypeOK, RowType, RowsPast
  <2>3. \A d \in Collectors : task[d].row \in Nat /\ task[d].row <= clock
    BY <2>1 DEF IInv, TypeOK, TaskType, Inserted
  <2> QED BY <2>1, <2>2, <2>3
<1>2. /\ c \in Backups /\ task[c].at = "failed" /\ rows' = rows \cup {x} /\ Ends(c)
      /\ UNCHANGED <<running, faults>>
  BY DEF CreateFailure
<1>3. task[c].read = NoText  BY <1>2 DEF IInv, ReadKnown
<1>4. x \in RowType  BY <1>1 DEF Row, RowType, NoHash
<1>5. /\ x.at = clock' /\ x.previous = 0 /\ x.hash = NoHash
      /\ x.ok <=> x.hash # NoHash
      /\ x.alone <=> c \in alone
  BY DEF Row
<1> HIDE DEF x
<1> QED BY <1>1, <1>2, <1>3, <1>4, <1>5, RowAddedInv

\* Commit preserves the inductive invariant.
LEMMA CommitInv ==
  ASSUME IInv, NEW c \in Collectors, Commit(c)
  PROVE  IInv'
<1> USE ConfigsAssumption, CollectorsAssumption, BoundsAssumption
<1> DEFINE x == Row(c, task[c].row, SyncHash(c), task[c].latest)
<1>1. /\ c \in Syncs /\ task[c].at = "commit" /\ rows' = rows \cup {x} /\ Ends(c)
      /\ UNCHANGED <<running, clock, faults>>
  BY DEF Commit
<1>2. /\ task[c].read \in Configs \cup {NoText} /\ task[c].latest \in 0..MaxRows
      /\ task[c].row \in 1..MaxRows /\ clock \in 0..MaxRows
      /\ task[c].latest < task[c].row /\ task[c].row <= clock
      /\ \A r \in rows : r.at # task[c].row
      /\ \A d \in Collectors \ {c} : task[d].row # task[c].row
  BY <1>1 DEF IInv, TypeOK, TaskType, Inserted, InsertedApart
<1>h. \A t \in Configs :
        /\ Hash(c, t) \in [text : Configs \cup {NoText}, raw : BOOLEAN]
        /\ Hash(c, t).text = t
  BY DEF Hash
<1>3. /\ SyncHash(c) \in [text : Configs \cup {NoText}, raw : BOOLEAN]
      /\ IF task[c].read = NoText THEN SyncHash(c) = NoHash ELSE SyncHash(c).text = task[c].read
  BY <1>2, <1>h DEF SyncHash, NoHash
<1>4. x \in RowType  BY <1>2, <1>3 DEF Row, RowType
<1>5. /\ x.at = task[c].row /\ x.previous = task[c].latest /\ x.hash = SyncHash(c)
      /\ x.ok <=> x.hash # NoHash
      /\ x.alone <=> c \in alone
  BY DEF Row
<1> HIDE DEF x
<1>6. clock' \in clock..MaxRows  BY <1>1, <1>2
<1> QED BY <1>1, <1>2, <1>3, <1>4, <1>5, <1>6, RowAddedInv DEF Linked

(***************************************************************************)
(* The theorems                                                            *)
(***************************************************************************)

\* IInv holds before any collection, and every step preserves it.
LEMMA Inductive == Spec => []IInv
<1>1. Init => IInv
  <2> SUFFICES ASSUME Init
               PROVE  IInv
    OBVIOUS
  <2>1. TypeOK
    BY ConfigsAssumption, BoundsAssumption DEF Init, TypeOK, TaskType, Task, Idle
  <2>2. \A c \in Collectors : task[c].at = "idle" /\ task[c].row = 0
    BY DEF Init, Task, Idle
  <2> QED
    BY <2>1, <2>2
    DEF Init, IInv, Collectors, HasNewest, Successes, RowsDistinct, RowsPast,
      PreviousIsOlder, Inserted, InsertedApart, LatestExists, ReadKnown, BackupsRead,
      AloneIsAlone, AloneSawAll, AfterAlone, AloneLinks, LinksAfterAlone, NewestIsLastRead, Linked
<1>2. IInv /\ [Next]_vars => IInv'
  <2> SUFFICES ASSUME IInv, [Next]_vars
               PROVE  IInv'
    OBVIOUS
  <2>1. CASE Next
    BY <2>1, ReconfigureInv, CollectInv, CompareInv, CreateInv, PersistRaisesInv,
       CreateFailureInv, FindPreviousInv, InsertInv, CommitInv, StopsInv
    DEF Next
  <2>2. CASE UNCHANGED vars
    BY <2>2 DEF vars, IInv, TypeOK, HasNewest, Successes, RowsDistinct, RowsPast,
       PreviousIsOlder, Inserted, InsertedApart, LatestExists, ReadKnown, BackupsRead,
       AloneIsAlone, AloneSawAll, AfterAlone, AloneLinks, LinksAfterAlone, NewestIsLastRead, Linked
  <2> QED BY <2>1, <2>2
<1> QED BY <1>1, <1>2, PTL DEF Spec

\* The types of all rows and collections.
THEOREM TypeCorrect == Spec => []TypeOK
<1>1. IInv => TypeOK  BY DEF IInv
<1> QED BY <1>1, Inductive, PTL

\* previous is always an existing row collected earlier, with any number of
\* backups and synchronizations of the device at once.
THEOREM LineageIsAcyclic == Spec => []PreviousIsOlder
<1>1. IInv => PreviousIsOlder  BY DEF IInv
<1> QED BY <1>1, Inductive, PTL

\* A fork of the lineage has both branches collected during an overlap.
THEOREM ForksNeedOverlap == Spec => []ForksMeanOverlap
<1>1. IInv => ForksMeanOverlap
  <2> SUFFICES ASSUME IInv, NEW r \in rows, NEW q \in rows, r # q,
                      r.previous = q.previous, r.previous # 0, r.alone
               PROVE  FALSE
    BY DEF ForksMeanOverlap
  <2>1. /\ r.at \in Nat /\ q.at \in Nat /\ r.at # q.at /\ r.previous \in Nat
        /\ r.previous < r.at /\ q.previous < q.at
    BY DEF IInv, TypeOK, RowType, RowsDistinct, PreviousIsOlder
  <2>2. CASE q.at < r.at  BY <2>1, <2>2 DEF IInv, AloneLinks
  <2>3. CASE r.at < q.at  BY <2>1, <2>3 DEF IInv, LinksAfterAlone
  <2> QED BY <2>1, <2>2, <2>3
<1> QED BY <1>1, Inductive, PTL

\* After an undisturbed collection the newest success is what it read.
THEOREM NewestIsCurrent == Spec => []NewestIsLastRead
<1>1. IInv => NewestIsLastRead  BY DEF IInv
<1> QED BY <1>1, Inductive, PTL
=============================================================================
