------------------------- MODULE SerialCustodyProofs -------------------------
(***************************************************************************)
(* Proofs about SerialCustody, for any devices, slots, serial numbers,     *)
(* tags, processes and bounds: types first, then that a replacement keeps  *)
(* one of its devices, and what a plan knows of the serials it claims,     *)
(* which is why it implements the ledger.                                  *)
(***************************************************************************)
EXTENDS SerialCustody, FiniteSetTheorems, TLAPS

(***************************************************************************)
(* Primary keys for new rows                                               *)
(***************************************************************************)

\* If there are enough keys, Fresh gives each new row one of its own.
LEMMA FreshKeys ==
  ASSUME NEW set, NEW free, IsFiniteSet(set), IsFiniteSet(free), Enough(set, free)
  PROVE  /\ Fresh(set, free) \in [set -> free]
         /\ \A a, b \in set : Fresh(set, free)[a] = Fresh(set, free)[b] => a = b
<1> DEFINE m == Cardinality(set)
           n == Cardinality(free)
<1>1. m \in Nat /\ n \in Nat /\ m <= n  BY FS_CardinalityType DEF Enough
<1>2. PICK f \in Bijection(1..m, set) : TRUE  BY FS_CardinalityType DEF ExistsBijection
<1>3. PICK g \in Bijection(1..n, free) : TRUE  BY FS_CardinalityType DEF ExistsBijection
<1> HIDE DEF m, n
<1> DEFINE h == [a \in set |-> g[CHOOSE k \in 1..m : f[k] = a]]
<1>4. \A a \in set : \E k \in 1..m : f[k] = a
  BY <1>2 DEF Bijection, Surjection
<1>5. h \in [set -> free] /\ \A a, b \in set : h[a] = h[b] => a = b
  <2>1. g \in [1..n -> free] /\ \A i, j \in 1..n : g[i] = g[j] => i = j
    BY <1>3 DEF Bijection, Injection, IsInjective
  <2>2. \A a \in set : /\ (CHOOSE k \in 1..m : f[k] = a) \in 1..m
                       /\ f[CHOOSE k \in 1..m : f[k] = a] = a
    BY <1>4
  <2>3. \A k \in 1..m : k \in 1..n  BY <1>1
  <2>4. \A a \in set : h[a] \in free  BY <2>1, <2>2, <2>3
  <2>5. ASSUME NEW a \in set, NEW b \in set, h[a] = h[b] PROVE a = b
    <3>1. (CHOOSE k \in 1..m : f[k] = a) = (CHOOSE k \in 1..m : f[k] = b)
      BY <2>1, <2>2, <2>3, <2>5
    <3> QED BY <2>2, <3>1
  <2> QED BY <2>4, <2>5
<1> QED BY <1>5 DEF Fresh, Enough

(***************************************************************************)
(* Types, and what a plan is                                               *)
(***************************************************************************)

Kinds == {"none", "module", "item", "import", "sync", "retire", "replace"}
Chosen == Lines \cup [id : Rows \cup {0}, tag : Tags \cup {None}, serial : Serials \cup {None}]
PlanType == [at : Stages, kind : Kinds, device : Devices \cup {None}, old : Devices \cup {None},
             out : SUBSET Rows, new : SUBSET ModuleRows,
             outItems : SUBSET Rows, newItems : SUBSET ItemRows, gone : SUBSET Devices,
             claims : SUBSET Serials, late : SUBSET Serials, chosen : SUBSET Chosen]

RowsTyped(there, ms, is) ==
    /\ there \subseteq Devices /\ ms \subseteq ModuleRows /\ is \subseteq ItemRows
    /\ \A m \in ms : m.device \in there
    /\ \A m, n \in ms : m.id = n.id => m = n
    /\ \A i, j \in is : i.id = j.id => i = j

\* What each kind of request or task is about, and the steps it is in.
Shape(plan) ==
    /\ plan.at = "idle" <=> plan.kind = "none"
    /\ plan.at = "chosen" => plan.kind = "retire"
    /\ plan.at \in {"saved", "pushed", "synced", "abandon"} => plan.kind = "replace"
    /\ plan.kind = "replace" =>
         /\ plan.at \in {"ready", "saved", "pushed", "synced", "abandon"}
         /\ plan.device \in Devices /\ plan.old \in Devices
    /\ plan.at # "ready" => plan.out = {} /\ plan.new = {} /\ plan.newItems = {}
                            /\ plan.claims = {}
    /\ plan.kind \in {"none", "item", "import", "retire"} => plan.out = {} /\ plan.new = {}
    /\ plan.kind \in {"none", "module", "sync", "replace"} => plan.newItems = {}
    /\ plan.kind = "module" => plan.outItems = {}
    /\ plan.gone = IF plan.kind = "retire" THEN {plan.device} ELSE {}
    /\ plan.kind = "retire" => IsFiniteSet(plan.chosen)

\* Rows that are to be written: each has a key of its own and a serial that the
\* plan claims; a synchronization is about one device and has a row for each
\* serial it claims.
Writes(plan) ==
    /\ \A m, n \in plan.new : m.id = n.id => m = n
    /\ \A i, j \in plan.newItems : i.id = j.id => i = j
    /\ Ids(plan.newItems) \subseteq plan.outItems
    /\ SerialsOf(plan.new \cup plan.newItems) \subseteq plan.claims
    /\ plan.late \subseteq plan.claims
    /\ plan.kind \in {"sync", "replace"} =>
         /\ plan.claims \subseteq SerialsOf(plan.new)
         /\ \A m \in plan.new : m.device = plan.device

\* A retirement and an import write every row that they are to write.
Whole(plan) ==
    plan.at = "ready" /\ plan.kind \in {"retire", "import"} =>
        \A r \in plan.chosen : \E i \in plan.newItems : i.tag = r.tag /\ i.serial = r.serial

\* Of a serial that it claims and nobody else has committed since, the plan
\* knows every row: it deletes or rewrites them all.
Knows(plan, ms, is) ==
    plan.at = "ready" => \A s \in plan.claims \ plan.late :
        /\ \A m \in ms : m.serial = s => m.id \in plan.out \/ m.device \in plan.gone
        /\ \A i \in is : i.serial = s => i.id \in plan.outItems /\ plan.kind # "retire"

\* The keys of rows to be inserted are nobody else's.
KeysApart(plans, ms) ==
    \A p \in Procs : \A m \in plans[p].new :
        m.id \in plans[p].out
        \/ /\ m.id \notin Ids(ms)
           /\ \A q \in Procs \ {p} : m.id \notin plans[q].out \cup Ids(plans[q].new)

PlanTyped(plan, ms, is) ==
    plan \in PlanType /\ Shape(plan) /\ Writes(plan) /\ Whole(plan) /\ Knows(plan, ms, is)

Counted ==
    /\ writes \in 0..MaxWrites /\ deletes \in 0..MaxDeletes
    /\ disputed \subseteq Serials /\ dropped \subseteq Devices
    /\ started \subseteq Devices \X Devices

Types ==
    /\ RowsTyped(present, modules, items)
    /\ proc \in [Procs -> PlanType]
    /\ \A p \in Procs : PlanTyped(proc[p], modules, items)
    /\ KeysApart(proc, modules)
    /\ Counted

\* TypeOK is a part of it.
LEMMA TypesImplyTypeOK == Types => TypeOK
<1> SUFFICES ASSUME Types PROVE TypeOK  OBVIOUS
<1>1. ASSUME NEW p \in Procs
      PROVE  /\ proc[p].at \in Stages
             /\ proc[p].new \subseteq ModuleRows /\ proc[p].newItems \subseteq ItemRows
             /\ proc[p].late \subseteq proc[p].claims /\ proc[p].claims \subseteq Serials
  <2>1. proc[p] \in PlanType /\ Writes(proc[p])  BY DEF Types, PlanTyped
  <2> QED BY <2>1 DEF PlanType, Writes
<1> QED BY <1>1 DEF Types, TypeOK, RowsTyped, Counted

\* The plan of an idle process.
LEMMA IdleTyped ==
  ASSUME NEW ms, NEW is
  PROVE  PlanTyped(Idle, ms, is) /\ Idle \in PlanType
<1>1. Idle \in PlanType  BY DEF Idle, PlanType, Stages, Kinds
<1>2. Shape(Idle)  BY DEF Idle, Shape
<1>3. Writes(Idle)  BY DEF Idle, Writes, Ids, SerialsOf
<1>4. Whole(Idle) /\ Knows(Idle, ms, is)  BY DEF Idle, Whole, Knows
<1> QED BY <1>1, <1>2, <1>3, <1>4 DEF PlanTyped

\* A plan is made of the rows there are.
Sound(plan) ==
    /\ PlanTyped(plan, modules, items)
    /\ plan.out \subseteq Ids(modules)
    /\ Ids(plan.new) \subseteq plan.out \cup FreeRows

\* A process that makes a plan, or takes a further step of one.
LEMMA PlanStep ==
  ASSUME Types, NEW p \in Procs, NEW plan, Plans(p, plan), Sound(plan),
         writes' \in 0..MaxWrites
  PROVE  Types'
<1>1. /\ modules' = modules /\ items' = items /\ present' = present
      /\ proc \in [Procs -> PlanType] /\ plan \in PlanType
      /\ proc' \in [Procs -> PlanType]
      /\ proc'[p] = plan
      /\ \A q \in Procs \ {p} : proc'[q] = proc[q]
  BY DEF Plans, rows, Types, Sound, PlanTyped
<1>2. Counted'  BY DEF Types, Counted, Plans, rows, history
<1>3. \A q \in Procs : PlanTyped(proc'[q], modules', items')
  BY <1>1 DEF Types, Sound
<1>4. KeysApart(proc', modules')
  <2> SUFFICES ASSUME NEW q \in Procs, NEW m \in proc'[q].new, m.id \notin proc'[q].out
               PROVE  /\ m.id \notin Ids(modules)
                      /\ \A r \in Procs \ {q} : m.id \notin proc'[r].out \cup Ids(proc'[r].new)
    BY <1>1 DEF KeysApart
  <2>1. CASE q = p
    <3>1. m.id \in FreeRows
      <4>1. m \in plan.new /\ m.id \notin plan.out  BY <1>1, <2>1
      <4> QED BY <4>1 DEF Sound, Ids
    <3> QED BY <1>1, <2>1, <3>1 DEF FreeRows
  <2>2. CASE q # p
    <3>1. /\ m.id \notin Ids(modules)
          /\ \A r \in Procs \ {q} : m.id \notin proc[r].out \cup Ids(proc[r].new)
      BY <1>1, <2>2 DEF Types, KeysApart
    <3>2. m.id \notin FreeRows
      <4>1. m.id \in Ids(proc[q].new)  BY <1>1, <2>2 DEF Ids
      <4> QED BY <4>1 DEF FreeRows
    <3>3. m.id \notin plan.out \cup Ids(plan.new)  BY <3>1, <3>2 DEF Sound
    <3> QED BY <1>1, <3>1, <3>3
  <2> QED BY <2>1, <2>2
<1>5. RowsTyped(present', modules', items')  BY <1>1 DEF Types
<1> QED BY <1>1, <1>2, <1>3, <1>4, <1>5 DEF Types

\* There are finitely many rows.
LEMMA ModulesFinite == ASSUME Types PROVE IsFiniteSet(modules)
<1> DEFINE key == [m \in modules |-> m.id]
<1>1. modules \subseteq ModuleRows /\ \A m, n \in modules : m.id = n.id => m = n
  BY DEF Types, RowsTyped
<1>2. key \in Injection(modules, Rows)
  BY <1>1 DEF Injection, IsInjective, ModuleRows
<1> QED BY <1>2, FS_Injection, FiniteAssumption

\* Neither are there infinitely many keys.
LEMMA FreeFinite == IsFiniteSet(FreeRows) /\ IsFiniteSet(FreeItems)
<1>1. FreeRows \in SUBSET Rows /\ FreeItems \in SUBSET Rows  BY DEF FreeRows, FreeItems
<1> QED BY <1>1, FS_Subset, FiniteAssumption

\* A request or task that starts with a plan that is sound.
LEMMA LookStep ==
  ASSUME Types, NEW p \in Procs, NEW plan, Looks(p, plan), Sound(plan)
  PROVE  Types'
<1>1. Plans(p, plan) /\ writes' \in 0..MaxWrites
  BY BoundsAssumption DEF Looks, MayLook, Types, Counted
<1> QED BY <1>1, PlanStep

\* Rows 0 does not exist.
LEMMA NoRowZero == 0 \notin Rows
BY BoundsAssumption

\* The modules that a form adds.
LEMMA AddModulesTyped ==
  ASSUME Types, NEW p \in Procs, NEW d \in Devices, NEW wanted \in Forms,
         AddModules(p, d, wanted)
  PROVE  Types'
<1> DEFINE id == Fresh(DOMAIN wanted, FreeRows)
           new == {[id |-> id[k], device |-> d, slot |-> wanted[k][1], serial |-> wanted[k][2]] :
                     k \in DOMAIN wanted}
           plan == [Idle EXCEPT !.at = "ready", !.kind = "module", !.new = new,
                    !.claims = SerialsOf(new)]
<1>1. /\ IsFiniteSet(DOMAIN wanted)
      /\ \A k \in DOMAIN wanted : wanted[k][1] \in Slots /\ wanted[k][2] \in Serials \cup {None}
  <2>1. CASE wanted \in {<<row>> : row \in Slots \X (Serials \cup {None})}
    <3>1. PICK row \in Slots \X (Serials \cup {None}) : wanted = <<row>>  BY <2>1
    <3>2. DOMAIN wanted = 1..1 /\ wanted[1] = row  BY <3>1
    <3>3. IsFiniteSet(1..1)
      <4>1. 1 \in Int  OBVIOUS
      <4> QED BY <4>1, FS_Interval, Zenon
    <3> QED BY <3>2, <3>3
  <2>2. CASE wanted \in {<<<<a, s>>, <<b, s>>>> : a, b \in Slots, s \in Serials}
    <3>1. PICK a \in Slots, b \in Slots, s \in Serials : wanted = <<<<a, s>>, <<b, s>>>>
      BY <2>2
    <3>2. DOMAIN wanted = 1..2 /\ wanted[1] = <<a, s>> /\ wanted[2] = <<b, s>>  BY <3>1
    <3>3. IsFiniteSet(1..2)
      <4>1. 1 \in Int /\ 2 \in Int  OBVIOUS
      <4> QED BY <4>1, FS_Interval, Zenon
    <3> QED BY <3>2, <3>3
  <2> QED BY <2>1, <2>2 DEF Forms
<1>2. /\ id \in [DOMAIN wanted -> FreeRows]
      /\ \A a, b \in DOMAIN wanted : id[a] = id[b] => a = b
  BY <1>1, FreshKeys, FreeFinite DEF AddModules
<1>3. new \subseteq ModuleRows /\ Ids(new) \subseteq FreeRows
  <2>1. ASSUME NEW k \in DOMAIN wanted
        PROVE  /\ [id |-> id[k], device |-> d, slot |-> wanted[k][1], serial |-> wanted[k][2]]
                      \in ModuleRows
               /\ id[k] \in FreeRows
    <3>1. id[k] \in FreeRows /\ FreeRows \subseteq Rows  BY <1>2 DEF FreeRows
    <3> HIDE DEF id
    <3> QED BY <1>1, <3>1 DEF ModuleRows
  <2> QED BY <2>1 DEF Ids
<1>4. \A m, n \in new : m.id = n.id => m = n  BY <1>2
<1>5. \A s \in SerialsOf(new) : /\ ~\E m \in modules : m.serial = s
                                /\ ~\E i \in items : i.serial = s
  <2> SUFFICES ASSUME NEW k \in DOMAIN wanted, wanted[k][2] # None
               PROVE  /\ ~\E m \in modules : m.serial = wanted[k][2]
                      /\ ~\E i \in items : i.serial = wanted[k][2]
    BY DEF SerialsOf
  <2>1. FreeForModule(wanted[k][2], 0)  BY DEF AddModules
  <2>2. \A m \in modules : m.id # 0  BY NoRowZero DEF Types, RowsTyped, ModuleRows
  <2> QED BY <2>1, <2>2 DEF FreeForModule
<1>6. Looks(p, plan)  BY DEF AddModules
<1> HIDE DEF new, id
<1>7. SerialsOf(new) \subseteq Serials  BY <1>3 DEF ModuleRows, SerialsOf
<1>8. plan \in PlanType  BY <1>3, <1>7 DEF PlanType, Idle, Stages, Kinds
<1>9. Shape(plan) /\ Whole(plan)  BY DEF Shape, Whole, Idle
<1>10. Writes(plan)  BY <1>4 DEF Writes, Idle, SerialsOf, Ids
<1>11. Knows(plan, modules, items)  BY <1>5 DEF Knows, Idle
<1>12. plan.out = {} /\ plan.new = new  BY DEF Idle
<1> HIDE DEF plan
<1>13. Sound(plan)  BY <1>3, <1>8, <1>9, <1>10, <1>11, <1>12 DEF Sound, PlanTyped
<1> QED BY <1>6, <1>13, LookStep

\* A module that is edited.
LEMMA EditModuleTyped ==
  ASSUME Types, NEW p \in Procs, NEW m \in modules, NEW d \in Devices,
         NEW s \in Serials \cup {None}, EditModule(p, m, d, s)
  PROVE  Types'
<1> DEFINE row == [id |-> m.id, device |-> d, slot |-> m.slot, serial |-> s]
           plan == [Idle EXCEPT !.at = "ready", !.kind = "module", !.out = {m.id},
                    !.new = {row}, !.claims = {s} \ {None}]
<1>1. m \in ModuleRows /\ row \in ModuleRows /\ m.id \in Rows
  BY DEF Types, RowsTyped, ModuleRows
<1>2. Looks(p, plan) /\ FreeForModule(s, m.id)  BY DEF EditModule
<1>3. SerialsOf({row}) = {s} \ {None} /\ Ids({row}) = {m.id} /\ m.id \in Ids(modules)
  BY DEF SerialsOf, Ids
<1> HIDE DEF row
<1>4. plan \in PlanType  BY <1>1 DEF PlanType, Idle, Stages, Kinds
<1>5. Shape(plan) /\ Whole(plan)  BY DEF Shape, Whole, Idle
<1>6. Writes(plan)
  <2>1. SerialsOf({row} \cup {}) \subseteq {s} \ {None}  BY <1>3
  <2> QED BY <2>1 DEF Writes, Idle, Ids
<1>7. Knows(plan, modules, items)  BY <1>2 DEF Knows, Idle, FreeForModule
<1>8. plan.out = {m.id} /\ plan.new = {row}  BY DEF Idle
<1> HIDE DEF plan
<1>9. Sound(plan)  BY <1>3, <1>4, <1>5, <1>6, <1>7, <1>8 DEF Sound, PlanTyped
<1> QED BY <1>2, <1>9, LookStep

\* An item that a form adds or edits.
LEMMA SaveItemTyped ==
  ASSUME Types, NEW p \in Procs, NEW id \in Rows, NEW tag \in Tags \cup {None},
         NEW s \in Serials \cup {None}, SaveItem(p, id, tag, s)
  PROVE  Types'
<1> DEFINE row == [id |-> id, tag |-> tag, serial |-> s]
           plan == [Idle EXCEPT !.at = "ready", !.kind = "item", !.outItems = {id},
                    !.newItems = {row}, !.claims = {s} \ {None}]
<1>1. row \in ItemRows /\ row.id = id /\ row.serial = s  BY DEF ItemRows
<1>2. Looks(p, plan) /\ FreeForItem(items, row)  BY DEF SaveItem
<1>3. SerialsOf({row}) = {s} \ {None} /\ Ids({row}) = {id}  BY DEF SerialsOf, Ids
<1> HIDE DEF row
<1>4. plan \in PlanType  BY <1>1 DEF PlanType, Idle, Stages, Kinds
<1>5. Shape(plan) /\ Whole(plan)  BY DEF Shape, Whole, Idle
<1>6. Writes(plan)
  <2>1. SerialsOf({} \cup {row}) \subseteq {s} \ {None}  BY <1>3
  <2> QED BY <1>3, <2>1 DEF Writes, Idle
<1>7. Knows(plan, modules, items)  BY <1>1, <1>2 DEF Knows, Idle, FreeForItem
<1>8. plan.out = {} /\ plan.new = {}  BY DEF Idle
<1> HIDE DEF plan
<1>9. Sound(plan)  BY <1>4, <1>5, <1>6, <1>7, <1>8 DEF Sound, PlanTyped, Ids
<1> QED BY <1>2, <1>9, LookStep

(***************************************************************************)
(* The import of a file                                                    *)
(***************************************************************************)

\* What holds after some lines of the file were saved: their rows are in the
\* stock and are the rows saved, no later line overwrote an earlier one, and every
\* row that was there and bears a serial of the file was.
Imported(acc, lines) ==
    /\ acc.stock \subseteq ItemRows /\ acc.free \subseteq Rows
    /\ \A i, j \in acc.stock : i.id = j.id => i = j
    /\ acc.free \cap Ids(acc.stock) = {} /\ acc.saved \subseteq Ids(acc.stock)
    /\ \A i \in items : i \in acc.stock \/ i.id \in acc.saved
    /\ \A i \in acc.stock : i.id \in acc.saved => \E l \in lines : i.serial = l.serial
    /\ \A l \in lines :
         /\ l.tag \in acc.tags /\ l.serial \in acc.serials
         /\ \E i \in acc.stock : i.id \in acc.saved /\ i.tag = l.tag /\ i.serial = l.serial
         /\ l.serial # None => /\ ~\E m \in modules : m.serial = l.serial
                               /\ \A i \in items : i.serial = l.serial => i.id \in acc.saved

AccType == [ok : BOOLEAN, stock : SUBSET ItemRows, free : SUBSET Rows, saved : SUBSET Rows,
            tags : SUBSET (Tags \cup {None}), serials : SUBSET (Serials \cup {None})]

\* One line.
LEMMA ImportLineKeeps ==
  ASSUME NEW acc \in AccType, NEW lines, NEW line \in Lines, Imported(acc, lines),
         ImportLine(acc, line).ok
  PROVE  /\ acc.ok /\ ImportLine(acc, line) \in AccType
         /\ Imported(ImportLine(acc, line), lines \cup {line})
<1> DEFINE found == Matches(acc.stock, line)
           id == IF found = {} THEN CHOOSE n \in acc.free : TRUE ELSE CHOOSE n \in Ids(found) : TRUE
           row == [id |-> id, tag |-> line.tag, serial |-> line.serial]
           stock == {i \in acc.stock : i.id # id} \cup {row}
           next == [ok |-> acc.ok /\ FreeForItem(acc.stock, row),
                    stock |-> stock, free |-> acc.free \ {id}, saved |-> acc.saved \cup {id},
                    tags |-> acc.tags \cup {line.tag}, serials |-> acc.serials \cup {line.serial}]
<1>1. OnceInFile(acc, line) /\ ~(found = {} /\ acc.free = {}) /\ ImportLine(acc, line) = next
  <2>1. ~(~OnceInFile(acc, line) \/ Cardinality(found) > 1 \/ (found = {} /\ acc.free = {}))
    BY DEF ImportLine, AccType
  <2> QED BY <2>1 DEF ImportLine
<1>2. acc.ok /\ FreeForItem(acc.stock, row)
  <2>1. next.ok  BY <1>1
  <2>2. next.ok <=> (acc.ok /\ FreeForItem(acc.stock, row))  BY Zenon
  <2> QED BY <2>1, <2>2
<1>3. /\ found \subseteq acc.stock
      /\ found = {} => id \in acc.free
      /\ found # {} => \E f \in found : f.id = id
  BY <1>1 DEF Matches, Ids
<1>4. id \in Rows  BY <1>3 DEF Imported, ItemRows
<1> HIDE DEF found, id
<1>5. line.tag \in Tags \cup {None} /\ line.serial \in Serials \cup {None}  BY DEF Lines
<1>6. row \in ItemRows /\ row.id = id /\ row.tag = line.tag /\ row.serial = line.serial
  BY <1>4, <1>5 DEF ItemRows
<1> HIDE DEF row
<1>7. stock \subseteq ItemRows /\ \A i, j \in stock : i.id = j.id => i = j
  BY <1>6 DEF Imported
<1>8. (acc.free \ {id}) \cap Ids(stock) = {}  BY <1>6 DEF Imported, Ids
<1>9. acc.saved \cup {id} \subseteq Ids(stock)
  BY <1>6 DEF Imported, Ids
<1>10. ASSUME NEW l \in lines, NEW i \in acc.stock, i.id \in acc.saved,
              i.tag = l.tag, i.serial = l.serial
       PROVE  i.id # id
  <2>1. CASE found = {}
    <3>1. id \notin Ids(acc.stock)  BY <1>3, <2>1 DEF Imported
    <3> QED BY <3>1 DEF Ids
  <2>2. CASE found # {}
    <3>1. PICK f \in found : f.id = id  BY <1>3, <2>2
    <3>2. l.tag \in acc.tags /\ l.serial \in acc.serials  BY DEF Imported
    <3>3. i \notin found  BY <1>1, <1>10, <3>2 DEF OnceInFile, Matches, found
    <3>4. f \in acc.stock /\ (i.id = f.id => i = f)  BY <1>3 DEF Imported
    <3> QED BY <3>1, <3>3, <3>4
  <2> QED BY <2>1, <2>2
<1>11. \A i \in items : i \in stock \/ i.id \in acc.saved \cup {id}  BY DEF Imported
<1>12. \A i \in stock : i.id \in acc.saved \cup {id} => \E l \in lines \cup {line} : i.serial = l.serial
  BY <1>6 DEF Imported
<1>13. ASSUME NEW l \in lines \cup {line}
       PROVE  /\ l.tag \in acc.tags \cup {line.tag} /\ l.serial \in acc.serials \cup {line.serial}
              /\ \E i \in stock : i.id \in acc.saved \cup {id} /\ i.tag = l.tag /\ i.serial = l.serial
              /\ l.serial # None =>
                   /\ ~\E m \in modules : m.serial = l.serial
                   /\ \A i \in items : i.serial = l.serial => i.id \in acc.saved \cup {id}
  <2>1. CASE l \in lines
    <3>1. PICK i \in acc.stock : i.id \in acc.saved /\ i.tag = l.tag /\ i.serial = l.serial
      BY <2>1 DEF Imported
    <3>2. i \in stock  BY <1>10, <2>1, <3>1
    <3> QED BY <2>1, <3>1, <3>2 DEF Imported
  <2>2. CASE l = line
    <3>1. l.serial # None => /\ ~\E m \in modules : m.serial = l.serial
                             /\ \A i \in acc.stock : i.serial = l.serial => i.id = id
      BY <1>2, <1>6, <2>2 DEF FreeForItem
    <3>2. row \in stock  OBVIOUS
    <3> QED BY <1>6, <2>2, <3>1, <3>2 DEF Imported
  <2> QED BY <2>1, <2>2
<1> HIDE DEF stock
<1>14. next \in AccType  BY <1>4, <1>5, <1>7, <1>2 DEF AccType
<1>15. Imported(next, lines \cup {line})
  <2>1. /\ next.stock = stock /\ next.free = acc.free \ {id} /\ next.saved = acc.saved \cup {id}
        /\ next.tags = acc.tags \cup {line.tag} /\ next.serials = acc.serials \cup {line.serial}
    OBVIOUS
  <2> HIDE DEF next
  <2>2. acc.free \ {id} \subseteq Rows  BY DEF AccType
  <2> QED BY <2>1, <2>2, <1>7, <1>8, <1>9, <1>11, <1>12, <1>13 DEF Imported
<1> QED BY <1>1, <1>2, <1>14, <1>15

\* The file has one line or two.
LEMMA ImportTyped ==
  ASSUME Types, NEW p \in Procs, NEW file \in Files, Import(p, file)
  PROVE  Types'
<1> DEFINE acc == [ok |-> TRUE, stock |-> items, free |-> FreeItems,
                   saved |-> {}, tags |-> {}, serials |-> {}]
           first == ImportLine(acc, file[1])
           end == IF Len(file) = 1 THEN first ELSE ImportLine(first, file[2])
           new == {i \in end.stock : i.id \in end.saved}
           plan == [Idle EXCEPT !.at = "ready", !.kind = "import", !.outItems = Ids(new),
                    !.newItems = new, !.chosen = ToSet(file),
                    !.claims = SerialsOf(ToSet(file))]
<1>1. end.ok /\ Looks(p, plan)  BY DEF Import
<1>2. acc \in AccType /\ Imported(acc, {})
  <2>1. items \subseteq ItemRows /\ FreeItems \subseteq Rows /\ FreeItems \cap Ids(items) = {}
        /\ \A i, j \in items : i.id = j.id => i = j
    BY DEF Types, RowsTyped, FreeItems
  <2>2. Imported(acc, {})  BY <2>1 DEF Imported
  <2> QED BY <2>1, <2>2 DEF AccType
<1> HIDE DEF acc
<1>3. /\ ToSet(file) \subseteq Lines
      /\ end \in AccType /\ Imported(end, ToSet(file))
  <2>1. CASE file \in {<<l>> : l \in Lines}
    <3>1. PICK l \in Lines : file = <<l>>  BY <2>1
    <3>2. file[1] = l /\ Len(file) = 1 /\ ToSet(file) = {l}  BY <3>1 DEF ToSet
    <3>3. end = first /\ first = ImportLine(acc, l)  BY <3>2
    <3> HIDE DEF first, end
    <3>4. {} \cup {l} = {l}  OBVIOUS
    <3> QED BY <1>1, <1>2, <3>2, <3>3, <3>4, ImportLineKeeps
  <2>2. CASE file \in Lines \X Lines
    <3>1. PICK k \in Lines, l \in Lines : file = <<k, l>>  BY <2>2
    <3>2. file[1] = k /\ file[2] = l /\ Len(file) = 2 /\ ToSet(file) = {k, l}
      BY <3>1 DEF ToSet
    <3>3. end = ImportLine(first, l) /\ first = ImportLine(acc, k)  BY <3>2
    <3>4. first.ok /\ ImportLine(first, l).ok
      <4>1. ImportLine(first, l).ok  BY <1>1, <3>3
      <4> HIDE DEF first, end
      <4>2. CASE first.ok  BY <4>1, <4>2
      <4>3. CASE ~first.ok  BY <4>1, <4>3, <3>3 DEF ImportLine
      <4> QED BY <4>1, <4>2, <4>3
    <3> HIDE DEF first, end
    <3>5. first \in AccType /\ Imported(first, {} \cup {k})
      BY <1>2, <3>3, <3>4, ImportLineKeeps
    <3>6. end \in AccType /\ Imported(end, ({} \cup {k}) \cup {l})
      BY <3>3, <3>4, <3>5, ImportLineKeeps
    <3>7. ({} \cup {k}) \cup {l} = {k, l}  OBVIOUS
    <3> QED BY <3>2, <3>6, <3>7
  <2> QED BY <2>1, <2>2 DEF Files
<1> HIDE DEF end, first
<1>4. new \subseteq ItemRows /\ Ids(new) \subseteq Rows
  BY <1>3 DEF AccType, ItemRows, Ids
<1>5. SerialsOf(new) \subseteq SerialsOf(ToSet(file)) /\ SerialsOf(ToSet(file)) \subseteq Serials
  BY <1>3 DEF Imported, SerialsOf, Lines
<1>6. \A i, j \in new : i.id = j.id => i = j  BY <1>3 DEF Imported
<1>7. \A l \in ToSet(file) : \E i \in new : i.tag = l.tag /\ i.serial = l.serial
  BY <1>3 DEF Imported
<1>8. \A s \in SerialsOf(ToSet(file)) :
         (\A m \in modules : m.serial # s) /\ (\A i \in items : i.serial = s => i.id \in Ids(new))
  <2>1. end.saved \subseteq Ids(new)  BY <1>3 DEF Imported, Ids
  <2> HIDE DEF new
  <2> QED BY <1>3, <2>1 DEF Imported, SerialsOf
<1> HIDE DEF new
<1>9. plan \in PlanType  BY <1>3, <1>4, <1>5 DEF PlanType, Idle, Stages, Kinds, Chosen
<1>10. Shape(plan)  BY DEF Shape, Idle
<1>11. Whole(plan)  BY <1>7 DEF Whole, Idle
<1>12. Writes(plan)
  <2>1. SerialsOf({} \cup new) \subseteq SerialsOf(ToSet(file))
    <3>1. {} \cup new = new  OBVIOUS
    <3> QED BY <1>5, <3>1
  <2> QED BY <1>6, <2>1 DEF Writes, Idle
<1>13. Knows(plan, modules, items)  BY <1>8 DEF Knows, Idle
<1>14. plan.out = {} /\ plan.new = {}  BY DEF Idle
<1> HIDE DEF plan
<1>15. Sound(plan)  BY <1>9, <1>10, <1>11, <1>12, <1>13, <1>14 DEF Sound, PlanTyped, Ids
<1> QED BY <1>1, <1>15, LookStep

(***************************************************************************)
(* Synchronization                                                         *)
(***************************************************************************)

\* What a report is, slot by slot.
LEMMA PartialTyped ==
  ASSUME NEW names, NEW f \in Partial(names)
  PROVE  DOMAIN f \subseteq names /\ \A x \in DOMAIN f : f[x] \in Serials \cup {None}
<1>1. PICK set \in SUBSET names : f \in [set -> Serials \cup {None}]  BY DEF Partial
<1> QED BY <1>1

\* A synchronization, alone or as a step of a replacement: it knows every row of
\* the serials that it was told, and has a row for each of them.
LEMMA SyncPlanSound ==
  ASSUME Types, NEW d \in Devices, NEW inventory \in Partial(Cards), NEW optics \in Partial(Optics),
         SyncPlan(d, inventory, optics).fits,
         NEW kind \in {"sync", "replace"}, NEW old \in Devices \cup {None},
         kind = "replace" => old \in Devices
  PROVE  /\ Sound([SyncPlan(d, inventory, optics).plan EXCEPT !.kind = kind, !.old = old])
         /\ SyncPlan(d, inventory, optics).plan.old = None
         /\ SyncPlan(d, inventory, optics).plan \in PlanType
<1> DEFINE cards == {c \in DOMAIN inventory : inventory[c] # None}
           named == [slot \in cards \cup DOMAIN optics |->
                    IF slot \in cards THEN inventory[slot] ELSE optics[slot]]
           claims == {named[slot] : slot \in DOMAIN named} \ {None}
           settled == {slot \in DOMAIN named : slot \in cards =>
                      ~\E o \in DOMAIN optics : optics[o] = named[slot]}
           reconciled == {Reconcile(d, slot, named[slot]) :
                         slot \in {t \in DOMAIN named : named[t] # None}}
           deleted == UNION {r.out : r \in reconciled}
           mine == {m \in modules : m.device = d /\ m.id \notin deleted}
           stale == {m \in mine :
                    \/ /\ cards # {} /\ m.slot \in Cards /\ m.serial # None
                       /\ ~(m.slot \in cards /\ inventory[m.slot] = m.serial)
                    \/ m.serial = None /\ m.slot \in DOMAIN inventory \ cards
                    \/ optics # <<>> /\ m.slot \in Optics \ DOMAIN optics}
           at(slot) == {m \in mine \ stale : m.slot = slot
                                          /\ (slot \in cards => m.serial = named[slot])}
           added == {slot \in settled : at(slot) = {}}
           id == Fresh(added, FreeRows)
           key(slot) == IF slot \in added THEN id[slot] ELSE CHOOSE n \in Ids(at(slot)) : TRUE
           row(slot) == [id |-> key(slot), device |-> d, slot |-> slot, serial |-> named[slot]]
           out == deleted \cup Ids(stale) \cup UNION {Ids(at(slot)) : slot \in settled}
           outItems == UNION {r.items : r \in reconciled}
           new == {row(slot) : slot \in settled}
           base == [Idle EXCEPT !.at = "ready", !.device = d, !.claims = claims,
                       !.out = out, !.outItems = outItems, !.new = new]
<1>1. SyncPlan(d, inventory, optics).plan = base /\ Enough(added, FreeRows)
  BY DEF SyncPlan
<1>2. /\ DOMAIN inventory \subseteq Cards /\ DOMAIN optics \subseteq Optics
      /\ \A x \in DOMAIN inventory : inventory[x] \in Serials \cup {None}
      /\ \A x \in DOMAIN optics : optics[x] \in Serials \cup {None}
  BY PartialTyped
<1>3. /\ DOMAIN named = cards \cup DOMAIN optics
      /\ cards \subseteq Cards /\ cards \cap DOMAIN optics = {}
      /\ \A slot \in DOMAIN named : named[slot] \in Serials \cup {None}
      /\ \A o \in DOMAIN optics : named[o] = optics[o] /\ o \in settled
  BY <1>2, SlotsAssumption
<1>4. \A m \in modules : m \in ModuleRows /\ m.id \in Rows  BY DEF Types, RowsTyped, ModuleRows
<1>5. \A slot \in DOMAIN named : named[slot] # None =>
        /\ \A m \in modules : m.serial = named[slot] /\ ~(m.device = d /\ m.slot = slot)
                                => m.id \in deleted
        /\ \A i \in items : i.serial = named[slot] => i.id \in outItems
  <2> SUFFICES ASSUME NEW slot \in DOMAIN named, named[slot] # None
               PROVE  /\ \A m \in modules : m.serial = named[slot] /\ ~(m.device = d /\ m.slot = slot)
                                              => m.id \in deleted
                      /\ \A i \in items : i.serial = named[slot] => i.id \in outItems
    OBVIOUS
  <2> DEFINE r == Reconcile(d, slot, named[slot])
  <2>1. r \in reconciled  OBVIOUS
  <2> HIDE DEF reconciled, named
  <2>2. r.out \subseteq deleted /\ r.items \subseteq outItems  BY <2>1
  <2> HIDE DEF deleted, outItems
  <2> QED BY <2>2 DEF Reconcile, Ids
<1>6. deleted \subseteq Ids(modules) /\ outItems \subseteq Ids(items)
  <2>1. ASSUME NEW r \in reconciled
        PROVE  r.out \subseteq Ids(modules) /\ r.items \subseteq Ids(items)
    <3>1. PICK slot : r = Reconcile(d, slot, named[slot])  OBVIOUS
    <3> HIDE DEF named, reconciled
    <3> QED BY <3>1 DEF Reconcile, Ids
  <2> HIDE DEF reconciled
  <2> QED BY <2>1
<1>7. \A slot \in settled : \A m \in at(slot) : m \in modules /\ m.slot = slot /\ m.device = d
  OBVIOUS
<1>8. \A slot \in DOMAIN named : \A m \in mine : m.slot = slot /\ m.serial = named[slot]
        => m \in stale \/ m \in at(slot)
  OBVIOUS
<1>9. settled \subseteq DOMAIN named /\ added \subseteq settled
      /\ \A slot \in DOMAIN named \ settled : \E o \in settled : o # slot /\ named[o] = named[slot]
  BY <1>3
<1>10. mine = {m \in modules : m.device = d /\ m.id \notin deleted}  OBVIOUS
<1>11. stale \subseteq mine  OBVIOUS
<1>12. \A slot \in settled : slot \notin added => at(slot) # {}  OBVIOUS
<1> HIDE DEF named, settled, cards, reconciled, deleted, outItems, mine, stale, at, added
<1>13. /\ id \in [added -> FreeRows]
       /\ \A a, b \in added : id[a] = id[b] => a = b
  <2>1. added \in SUBSET (Cards \cup Optics)  BY <1>2, <1>3, <1>9
  <2>2. IsFiniteSet(added)  BY <2>1, FS_Subset, FiniteAssumption
  <2> QED BY <1>1, <2>2, FreshKeys, FreeFinite
<1> HIDE DEF id
<1>14. ASSUME NEW slot \in settled
       PROVE  IF slot \in added THEN key(slot) = id[slot] /\ key(slot) \in FreeRows
              ELSE \E m \in at(slot) : m.id = key(slot)
  BY <1>12, <1>13 DEF Ids
<1>15. FreeRows \subseteq Rows /\ FreeRows \cap Ids(modules) = {}  BY DEF FreeRows
<1> HIDE DEF key
<1>16. ASSUME NEW slot \in settled
       PROVE  key(slot) \in Rows /\ key(slot) \in out \cup FreeRows
  <2>1. CASE slot \in added  BY <1>14, <1>15, <2>1
  <2>2. CASE slot \notin added
    <3>1. PICK m \in at(slot) : m.id = key(slot)  BY <1>14, <2>2
    <3>2. m.id \in Ids(at(slot))  BY DEF Ids
    <3> QED BY <1>4, <1>7, <3>1, <3>2
  <2> QED BY <2>1, <2>2
<1>17. ASSUME NEW a \in settled, NEW b \in settled, key(a) = key(b) PROVE a = b
  <2>1. \A m, n \in modules : m.id = n.id => m = n  BY DEF Types, RowsTyped
  <2>2. CASE a \in added /\ b \in added  BY <1>13, <1>14, <1>17, <2>2
  <2>3. CASE a \notin added /\ b \notin added
    <3>1. PICK m \in at(a) : m.id = key(a)  BY <1>14, <2>3
    <3>2. PICK n \in at(b) : n.id = key(b)  BY <1>14, <2>3
    <3> QED BY <1>7, <1>17, <2>1, <3>1, <3>2
  <2>4. \A s \in settled : s \in added => key(s) \notin Ids(modules)  BY <1>14, <1>15
  <2>5. \A s \in settled : s \notin added => key(s) \in Ids(modules)  BY <1>7, <1>14 DEF Ids
  <2> QED BY <1>17, <2>2, <2>3, <2>4, <2>5
<1>18. out \subseteq Ids(modules)
  <2>1. Ids(stale) \subseteq Ids(modules)  BY <1>10, <1>11 DEF Ids
  <2>2. \A slot \in settled : Ids(at(slot)) \subseteq Ids(modules)  BY <1>7 DEF Ids
  <2> QED BY <1>6, <2>1, <2>2
<1>19. ASSUME NEW slot \in settled
       PROVE  row(slot) \in ModuleRows /\ row(slot).id = key(slot) /\ row(slot).device = d
              /\ row(slot).serial = named[slot]
  <2>1. slot \in Slots /\ named[slot] \in Serials \cup {None}
    BY <1>2, <1>3, <1>9 DEF Slots
  <2> QED BY <1>16, <2>1 DEF ModuleRows
<1> HIDE DEF row
<1>20. /\ new \subseteq ModuleRows /\ Ids(new) \subseteq out \cup FreeRows
       /\ \A m, n \in new : m.id = n.id => m = n
       /\ \A m \in new : m.device = d
  BY <1>16, <1>17, <1>19 DEF Ids
<1>21. SerialsOf(new) = claims
  <2>1. \A s : s \in claims <=> s # None /\ \E slot \in settled : named[slot] = s
    BY <1>9
  <2>2. \A s : s \in SerialsOf(new) <=> s # None /\ \E slot \in settled : named[slot] = s
    BY <1>19 DEF SerialsOf
  <2> QED BY <2>1, <2>2
<1>22. \A s \in claims : /\ \A m \in modules : m.serial = s => m.id \in out
                         /\ \A i \in items : i.serial = s => i.id \in outItems
  <2> SUFFICES ASSUME NEW s \in claims
               PROVE  /\ \A m \in modules : m.serial = s => m.id \in out
                      /\ \A i \in items : i.serial = s => i.id \in outItems
    OBVIOUS
  <2>1. PICK slot \in settled : named[slot] = s /\ s # None  BY <1>9
  <2>2. ASSUME NEW m \in modules, m.serial = s PROVE m.id \in out
    <3>1. CASE ~(m.device = d /\ m.slot = slot)  BY <1>5, <1>9, <2>1, <2>2, <3>1
    <3>2. CASE m.device = d /\ m.slot = slot /\ m.id \notin deleted
      <4>1. m \in stale \/ m \in at(slot)  BY <1>8, <1>9, <1>10, <2>1, <2>2, <3>2
      <4> QED BY <4>1 DEF Ids
    <3> QED BY <3>1, <3>2
  <2> QED BY <1>5, <1>9, <2>1, <2>2
<1>23. claims \subseteq Serials  BY <1>3
<1>24. out \subseteq Rows /\ outItems \subseteq Rows
  <2>1. \A i \in items : i.id \in Rows  BY DEF Types, RowsTyped, ItemRows
  <2> QED BY <1>4, <1>6, <1>18, <2>1 DEF Ids
<1> HIDE DEF new, out, claims
<1>25. base \in PlanType /\ base.old = None
  BY <1>20, <1>23, <1>24 DEF PlanType, Idle, Stages, Kinds
<1> DEFINE plan == [base EXCEPT !.kind = kind, !.old = old]
<1>26. plan = [Idle EXCEPT !.at = "ready", !.device = d, !.claims = claims, !.out = out,
                  !.outItems = outItems, !.new = new, !.kind = kind, !.old = old]
  BY DEF Idle
<1>27. /\ plan.at = "ready" /\ plan.kind = kind /\ plan.device = d /\ plan.old = old
       /\ plan.claims = claims /\ plan.out = out /\ plan.outItems = outItems /\ plan.new = new
       /\ plan.newItems = {} /\ plan.gone = {} /\ plan.late = {} /\ plan.chosen = {}
  BY DEF Idle
<1>28. plan \in PlanType  BY <1>25 DEF PlanType, Kinds
<1> HIDE DEF plan, base
<1>29. Shape(plan) /\ Whole(plan)  BY <1>27 DEF Shape, Whole
<1>30. Writes(plan)
  <2>1. new \cup {} = new  OBVIOUS
  <2> QED BY <1>20, <1>21, <1>27, <2>1 DEF Writes, Ids
<1>31. Knows(plan, modules, items)  BY <1>22, <1>27 DEF Knows
<1>32. Sound(plan)  BY <1>18, <1>20, <1>27, <1>28, <1>29, <1>30, <1>31 DEF Sound, PlanTyped
<1> QED BY <1>1, <1>25, <1>32 DEF plan

\* A synchronization that is not part of a replacement.
LEMMA SyncTyped ==
  ASSUME Types, NEW p \in Procs, NEW d \in Devices, NEW r \in Reports,
         Sync(p, d, r.inventory, r.optics)
  PROVE  Types'
<1> DEFINE plan == SyncPlan(d, r.inventory, r.optics).plan
<1>1. r.inventory \in Partial(Cards) /\ r.optics \in Partial(Optics)  BY DEF Reports
<1>2. SyncPlan(d, r.inventory, r.optics).fits /\ Looks(p, [plan EXCEPT !.kind = "sync"])
  BY DEF Sync
<1>3. /\ Sound([plan EXCEPT !.kind = "sync", !.old = None])
      /\ plan.old = None /\ plan \in PlanType
  BY <1>1, <1>2, SyncPlanSound
<1> HIDE DEF plan
<1>4. [plan EXCEPT !.kind = "sync", !.old = None] = [plan EXCEPT !.kind = "sync"]
  BY <1>3 DEF PlanType
<1> QED BY <1>2, <1>3, <1>4, LookStep

\* The synchronization of a replacement.
LEMMA SyncNewTyped ==
  ASSUME Types, NEW p \in Procs, NEW r \in Reports, SyncNew(p, r.inventory, r.optics)
  PROVE  Types'
<1> DEFINE me == proc[p]
           plan == SyncPlan(me.device, r.inventory, r.optics).plan
<1>1. r.inventory \in Partial(Cards) /\ r.optics \in Partial(Optics)  BY DEF Reports
<1>2. /\ me.at = "pushed" /\ SyncPlan(me.device, r.inventory, r.optics).fits
      /\ Plans(p, [plan EXCEPT !.kind = "replace", !.old = me.old]) /\ writes' = writes
  BY DEF SyncNew
<1>3. me.device \in Devices /\ me.old \in Devices
  BY <1>2 DEF Types, PlanTyped, Shape
<1>4. Sound([plan EXCEPT !.kind = "replace", !.old = me.old])
  BY <1>1, <1>2, <1>3, SyncPlanSound
<1>5. writes' \in 0..MaxWrites  BY <1>2 DEF Types, Counted
<1> QED BY <1>2, <1>4, <1>5, PlanStep

(***************************************************************************)
(* Retirement and replacement                                              *)
(***************************************************************************)

\* What the page of a retirement offers is finite.
LEMMA SourcesFinite ==
  ASSUME Types, NEW d \in Devices, NEW chassis \in Serials \cup {None}
  PROVE  /\ IsFiniteSet(Sources(d, chassis))
         /\ \A r \in Sources(d, chassis) :
               r.id \in Rows \cup {0} /\ r.serial \in Serials \cup {None}
<1> DEFINE mine == {n \in modules : n.device = d}
           rest == {[id |-> m.id, serial |-> m.serial] : m \in mine}
           show == [m \in mine |-> [id |-> m.id, serial |-> m.serial]]
<1>1. IsFiniteSet(mine)
  <2>1. mine \in SUBSET modules  OBVIOUS
  <2> QED BY <2>1, ModulesFinite, FS_Subset
<1>2. show \in Surjection(mine, rest)  BY DEF Surjection
<1>3. IsFiniteSet(rest)  BY <1>1, <1>2, FS_Surjection
<1>4. Sources(d, chassis) = rest \cup {[id |-> 0, serial |-> chassis]}  BY DEF Sources
<1>5. IsFiniteSet(Sources(d, chassis))  BY <1>3, <1>4, FS_AddElement
<1>6. \A m \in modules : m.id \in Rows /\ m.serial \in Serials \cup {None}
  BY DEF Types, RowsTyped, ModuleRows
<1> QED BY <1>5, <1>6 DEF Sources

\* A device is to be retired.
LEMMA RetireTyped ==
  ASSUME Types, NEW p \in Procs, NEW d \in Devices, NEW chassis \in Serials \cup {None},
         NEW kept \in SUBSET Sources(d, chassis), NEW tag \in [kept -> Tags \cup {None}],
         Retire(p, d, kept, tag)
  PROVE  Types'
<1> DEFINE stored == {[id |-> r.id, tag |-> tag[r], serial |-> r.serial] : r \in kept}
           enter == [r \in kept |-> [id |-> r.id, tag |-> tag[r], serial |-> r.serial]]
           plan == [Idle EXCEPT !.at = "chosen", !.kind = "retire", !.device = d,
                    !.gone = {d}, !.chosen = stored]
<1>1. Looks(p, plan)  BY DEF Retire
<1>2. IsFiniteSet(stored)
  <2>1. IsFiniteSet(kept)  BY SourcesFinite, FS_Subset
  <2>2. enter \in Surjection(kept, stored)  BY DEF Surjection
  <2> QED BY <2>1, <2>2, FS_Surjection
<1>3. stored \subseteq Chosen
  <2> SUFFICES ASSUME NEW r \in kept
               PROVE  [id |-> r.id, tag |-> tag[r], serial |-> r.serial] \in Chosen
    OBVIOUS
  <2>1. r.id \in Rows \cup {0} /\ r.serial \in Serials \cup {None}  BY SourcesFinite
  <2> QED BY <2>1 DEF Chosen
<1> HIDE DEF stored
<1>4. plan \in PlanType  BY <1>3 DEF PlanType, Idle, Stages, Kinds
<1>5. Shape(plan)  BY <1>2 DEF Shape, Idle
<1>6. Writes(plan)  BY DEF Writes, Idle, Ids, SerialsOf
<1>7. Whole(plan) /\ Knows(plan, modules, items)  BY DEF Whole, Knows, Idle
<1>8. plan.out = {} /\ plan.new = {}  BY DEF Idle
<1> HIDE DEF plan
<1>9. Sound(plan)  BY <1>4, <1>5, <1>6, <1>7, <1>8 DEF Sound, PlanTyped, Ids
<1> QED BY <1>1, <1>9, LookStep

\* Its parts are to be stored.
LEMMA StoreAllTyped ==
  ASSUME Types, NEW p \in Procs, StoreAll(p)
  PROVE  Types'
<1> DEFINE me == proc[p]
           free(r) == /\ ~\E m \in modules : m.serial = r.serial /\ r.serial # None
                                          /\ m.device # me.device
                      /\ ~\E i \in items : \/ i.serial = r.serial /\ r.serial # None
                                           \/ i.tag = r.tag /\ r.tag # None
           id == Fresh(me.chosen, FreeItems)
           new == {[id |-> id[r], tag |-> r.tag, serial |-> r.serial] : r \in me.chosen}
           plan == [me EXCEPT !.at = "ready", !.newItems = new, !.outItems = Ids(new),
                         !.claims = SerialsOf(new)]
<1>1. /\ me.at = "chosen" /\ Enough(me.chosen, FreeItems) /\ writes' = writes
      /\ Plans(p, Idle) \/ (Plans(p, plan) /\ \A r \in me.chosen : free(r))
  BY DEF StoreAll
<1>2. writes' \in 0..MaxWrites  BY <1>1 DEF Types, Counted
<1>3. CASE Plans(p, Idle)
  <2>1. Sound(Idle)
    <3>1. Idle.out = {} /\ Idle.new = {}  BY DEF Idle
    <3> QED BY <3>1, IdleTyped DEF Sound, Ids
  <2> QED BY <1>2, <1>3, <2>1, PlanStep
<1>4. CASE Plans(p, plan) /\ \A r \in me.chosen : free(r)
  <2>1. /\ me \in PlanType /\ Shape(me) /\ Writes(me) /\ me.kind = "retire"
        /\ IsFiniteSet(me.chosen) /\ me.chosen \subseteq Chosen
    BY <1>1 DEF Types, PlanTyped, Shape, PlanType
  <2>2. /\ id \in [me.chosen -> FreeItems]
        /\ \A a, b \in me.chosen : id[a] = id[b] => a = b
    BY <1>1, <2>1, FreshKeys, FreeFinite
  <2> HIDE DEF id
  <2>3. \A r \in Chosen : r.tag \in Tags \cup {None} /\ r.serial \in Serials \cup {None}
    BY DEF Chosen, Lines
  <2>4. new \subseteq ItemRows /\ Ids(new) \subseteq Rows /\ SerialsOf(new) \subseteq Serials
    <3> SUFFICES ASSUME NEW r \in me.chosen
                 PROVE  /\ [id |-> id[r], tag |-> r.tag, serial |-> r.serial] \in ItemRows
                        /\ id[r] \in Rows /\ r.serial \in Serials \cup {None}
      BY DEF Ids, SerialsOf
    <3>1. id[r] \in Rows  BY <2>2 DEF FreeItems
    <3> QED BY <2>1, <2>3, <3>1 DEF ItemRows
  <2>5. \A i, j \in new : i.id = j.id => i = j  BY <2>2
  <2>6. ASSUME NEW r \in me.chosen PROVE \E i \in new : i.tag = r.tag /\ i.serial = r.serial
    <3> DEFINE i == [id |-> id[r], tag |-> r.tag, serial |-> r.serial]
    <3>1. i \in new /\ i.tag = r.tag /\ i.serial = r.serial  OBVIOUS
    <3> HIDE DEF i, new
    <3> QED BY <3>1
  <2>7. ASSUME NEW s \in SerialsOf(new)
        PROVE  /\ \A m \in modules : m.serial = s => m.device = me.device
               /\ \A i \in items : i.serial # s
    <3>1. PICK r \in me.chosen : r.serial = s /\ s # None  BY DEF SerialsOf
    <3>2. free(r)  BY <1>4
    <3> QED BY <3>1, <3>2
  <2> HIDE DEF new
  <2>8. /\ me.late = {} /\ me.out = {} /\ me.new = {} /\ me.gone = {me.device}
        /\ me.device \in Devices \cup {None}
    BY <1>1, <2>1 DEF Shape, Writes, PlanType
  <2>9. /\ plan \in PlanType /\ plan.at = "ready" /\ plan.kind = "retire"
        /\ plan.newItems = new /\ plan.outItems = Ids(new) /\ plan.claims = SerialsOf(new)
        /\ plan.late = {} /\ plan.out = {} /\ plan.new = {} /\ plan.gone = {me.device}
        /\ plan.device = me.device /\ plan.chosen = me.chosen
    BY <2>1, <2>4, <2>8 DEF PlanType, Stages
  <2> HIDE DEF plan
  <2>10. Shape(plan)  BY <2>1, <2>9 DEF Shape
  <2>11. Writes(plan)
    <3>1. {} \cup new = new  OBVIOUS
    <3> QED BY <2>5, <2>9, <3>1 DEF Writes
  <2>12. Whole(plan)  BY <2>6, <2>9 DEF Whole
  <2>13. Knows(plan, modules, items)  BY <2>7, <2>9 DEF Knows
  <2>14. Sound(plan)  BY <2>9, <2>10, <2>11, <2>12, <2>13 DEF Sound, PlanTyped, Ids
  <2> QED BY <1>2, <1>4, <2>14, PlanStep
<1> QED BY <1>1, <1>3, <1>4

\* The configuration is pushed, or not; the synchronization is skipped; what is left
\* is abandoned.
LEMMA StageTyped ==
  ASSUME Types, NEW p \in Procs, NEW fails \in BOOLEAN,
         Push(p, fails) \/ SkipSync(p, fails) \/ Fails(p)
  PROVE  Types'
<1>1. writes' \in 0..MaxWrites  BY DEF Types, Counted, Push, SkipSync, Fails
<1>2. CASE Fails(p)
  <2>1. Sound(Idle)
    <3>1. Idle.out = {} /\ Idle.new = {}  BY DEF Idle
    <3> QED BY <3>1, IdleTyped DEF Sound, Ids
  <2>2. Plans(p, Idle)  BY <1>2 DEF Fails
  <2> QED BY <1>1, <2>1, <2>2, PlanStep
<1>3. ASSUME NEW at \in {"abandon", "pushed", "synced"}, proc[p].at \in {"saved", "pushed"},
             Plans(p, [proc[p] EXCEPT !.at = at])
      PROVE  Types'
  <2> DEFINE me == proc[p]
             plan == [me EXCEPT !.at = at]
  <2>1. me \in PlanType /\ Shape(me) /\ Writes(me)  BY DEF Types, PlanTyped
  <2> HIDE DEF me
  <2>2. me.at \in {"saved", "pushed"}  BY <1>3 DEF me
  <2>3. /\ plan \in PlanType /\ plan.at = at /\ plan.kind = "replace" /\ me.kind = "replace"
        /\ plan.device = me.device /\ plan.old = me.old /\ plan.out = {} /\ plan.new = {}
        /\ plan.newItems = {} /\ plan.claims = {} /\ plan.late = {} /\ plan.gone = {}
        /\ me.device \in Devices /\ me.old \in Devices
    BY <2>1, <2>2 DEF PlanType, Stages, Shape, Writes
  <2> HIDE DEF plan
  <2>4. Shape(plan) /\ Whole(plan) /\ Knows(plan, modules, items)
    BY <2>3 DEF Shape, Whole, Knows
  <2>5. Writes(plan)  BY <2>3 DEF Writes, Ids, SerialsOf
  <2>6. Sound(plan)  BY <2>3, <2>4, <2>5 DEF Sound, PlanTyped, Ids
  <2> QED BY <1>1, <1>3, <2>6, PlanStep DEF plan, me
<1>4. CASE Push(p, fails)  BY <1>3, <1>4 DEF Push
<1>5. CASE SkipSync(p, fails)  BY <1>3, <1>5 DEF SkipSync
<1> QED BY <1>2, <1>4, <1>5

(***************************************************************************)
(* Rows that change                                                        *)
(***************************************************************************)

\* Knowing every row is not undone by a deletion.
LEMMA KnowsLess ==
  ASSUME NEW plan, NEW ms, NEW is, NEW fewer \in SUBSET ms, NEW less \in SUBSET is,
         PlanTyped(plan, ms, is)
  PROVE  PlanTyped(plan, fewer, less)
BY DEF PlanTyped, Knows

\* Rows are deleted, and a process may end its plan or begin one without rows.
LEMMA DeleteStep ==
  ASSUME Types, modules' \subseteq modules, items' \subseteq items,
         RowsTyped(present', modules', items'), Counted',
         proc' \in [Procs -> PlanType],
         \A q \in Procs : \/ proc'[q] = proc[q]
                          \/ /\ PlanTyped(proc'[q], modules', items')
                             /\ proc'[q].out = {} /\ proc'[q].new = {}
  PROVE  Types'
<1>1. \A q \in Procs : PlanTyped(proc'[q], modules', items')
  BY KnowsLess DEF Types
<1>2. KeysApart(proc', modules')
  <2> SUFFICES ASSUME NEW q \in Procs, NEW m \in proc'[q].new, m.id \notin proc'[q].out
               PROVE  /\ m.id \notin Ids(modules')
                      /\ \A r \in Procs \ {q} : m.id \notin proc'[r].out \cup Ids(proc'[r].new)
    BY DEF KeysApart
  <2>1. proc'[q] = proc[q]  OBVIOUS
  <2>2. /\ m.id \notin Ids(modules)
        /\ \A r \in Procs \ {q} : m.id \notin proc[r].out \cup Ids(proc[r].new)
    BY <2>1 DEF Types, KeysApart
  <2>3. Ids(modules') \subseteq Ids(modules)  BY DEF Ids
  <2>4. \A r \in Procs : \/ proc'[r] = proc[r]
                         \/ proc'[r].out = {} /\ proc'[r].new = {}
    OBVIOUS
  <2> QED BY <2>2, <2>3, <2>4 DEF Ids
<1> QED BY <1>1, <1>2 DEF Types

\* The rest of a replacement.
LEMMA DeleteTyped ==
  ASSUME Types, NEW p \in Procs, NEW d, Delete(p, d)
  PROVE  Types'
<1>1. /\ modules' = {m \in modules : m.device # d} /\ items' = items /\ present' = present \ {d}
      /\ proc' = [proc EXCEPT ![p] = Idle]
  BY DEF Delete
<1>2. RowsTyped(present', modules', items')  BY <1>1 DEF Types, RowsTyped
<1>3. Counted'  BY DEF Types, Counted, Delete, history
<1>4. Idle.out = {} /\ Idle.new = {}  BY DEF Idle
<1>5. proc' \in [Procs -> PlanType] /\ \A q \in Procs : proc'[q] = proc[q] \/ proc'[q] = Idle
  BY <1>1, IdleTyped DEF Types
<1>6. PlanTyped(Idle, modules', items')  BY IdleTyped
<1>7. modules' \subseteq modules /\ items' \subseteq items  BY <1>1
<1> QED BY <1>2, <1>3, <1>4, <1>5, <1>6, <1>7, DeleteStep

\* A replacement begins.
LEMMA ReplaceTyped ==
  ASSUME Types, NEW p \in Procs, NEW old \in Devices, NEW new \in Devices, Replace(p, old, new)
  PROVE  Types'
<1> DEFINE plan == [Idle EXCEPT !.at = "saved", !.kind = "replace", !.device = new, !.old = old]
<1>1. /\ modules' = modules /\ items' = items /\ present' = present \cup {new}
      /\ proc' = [proc EXCEPT ![p] = plan]
  BY DEF Replace
<1>2. RowsTyped(present', modules', items')  BY <1>1 DEF Types, RowsTyped
<1>3. Counted'
  BY BoundsAssumption DEF Types, Counted, Replace, MayLook
<1>4. /\ plan \in PlanType /\ plan.at = "saved" /\ plan.kind = "replace" /\ plan.device = new
      /\ plan.old = old /\ plan.out = {} /\ plan.new = {} /\ plan.newItems = {}
      /\ plan.claims = {} /\ plan.late = {} /\ plan.gone = {}
  BY DEF Idle, PlanType, Stages, Kinds
<1> HIDE DEF plan
<1>5. Shape(plan) /\ Whole(plan) /\ Knows(plan, modules', items')
  BY <1>4 DEF Shape, Whole, Knows
<1>6. Writes(plan)  BY <1>4 DEF Writes, Ids, SerialsOf
<1>7. PlanTyped(plan, modules', items')  BY <1>4, <1>5, <1>6 DEF PlanTyped
<1>8. proc' \in [Procs -> PlanType] /\ \A q \in Procs : proc'[q] = proc[q] \/ proc'[q] = plan
  BY <1>1, <1>4 DEF Types
<1> QED BY <1>1, <1>2, <1>3, <1>4, <1>7, <1>8, DeleteStep

\* One row or one device is deleted, or a device added.
LEMMA OtherTyped ==
  ASSUME Types,
         \/ \E d \in Devices : AddDevice(d) \/ DeleteDevice(d)
         \/ \E m \in modules : DeleteModule(m)
         \/ \E i \in items : DeleteItem(i)
         \/ UNCHANGED vars
  PROVE  Types'
<1>1. proc' = proc /\ modules' \subseteq modules /\ items' \subseteq items
  BY DEF AddDevice, DeleteDevice, DeleteModule, DeleteItem, vars
<1>2. RowsTyped(present', modules', items')
  BY DEF Types, RowsTyped, AddDevice, DeleteDevice, DeleteModule, DeleteItem, vars
<1>3. Counted'
  <2> USE BoundsAssumption DEF Types, Counted
  <2>1. CASE UNCHANGED vars  BY <2>1 DEF vars
  <2>2. ASSUME NEW d \in Devices, AddDevice(d) PROVE Counted'
    BY <2>2 DEF AddDevice, history
  <2>3. ASSUME NEW d \in Devices, DeleteDevice(d) PROVE Counted'
    BY <2>3 DEF DeleteDevice, Deletes
  <2>4. ASSUME NEW m \in modules, DeleteModule(m) PROVE Counted'
    BY <2>4 DEF DeleteModule, Deletes, history
  <2>5. ASSUME NEW i \in items, DeleteItem(i) PROVE Counted'
    BY <2>5 DEF DeleteItem, Deletes, history
  <2> QED BY <2>1, <2>2, <2>3, <2>4, <2>5
<1>4. proc' \in [Procs -> PlanType] /\ \A q \in Procs : proc'[q] = proc[q]
  BY <1>1 DEF Types
<1> QED BY <1>1, <1>2, <1>3, <1>4, DeleteStep

\* What a commit does to the plans.
LEMMA CommitPlans ==
  ASSUME Types, NEW p \in Procs, Commit(p)
  PROVE  LET added == SerialsOf(proc[p].new \cup proc[p].newItems) IN
         /\ proc' \in [Procs -> PlanType]
         /\ \A q \in Procs \ {p} :
               proc'[q] = [proc[q] EXCEPT !.late = proc[q].late \cup (added \cap proc[q].claims)]
         /\ proc'[p].out = {} /\ proc'[p].new = {}
         /\ \A ms, is : PlanTyped(proc'[p], ms, is)
<1> DEFINE me == proc[p]
           added == SerialsOf(me.new \cup me.newItems)
           saved == [Idle EXCEPT !.at = "synced", !.kind = "replace",
                                 !.device = me.device, !.old = me.old]
           after == IF me.kind = "replace" THEN saved ELSE Idle
           told(q) == [proc[q] EXCEPT !.late = proc[q].late \cup (added \cap proc[q].claims)]
<1>1. proc' = [q \in Procs |-> IF q # p THEN told(q) ELSE after]
  BY DEF Commit
<1>2. me \in PlanType /\ Shape(me)  BY DEF Types, PlanTyped
<1>3. ASSUME me.kind = "replace" PROVE saved \in PlanType /\ \A ms, is : PlanTyped(saved, ms, is)
  <2>1. me.device \in Devices /\ me.old \in Devices  BY <1>2, <1>3 DEF Shape
  <2>2. /\ saved \in PlanType /\ saved.at = "synced" /\ saved.kind = "replace"
        /\ saved.device = me.device /\ saved.old = me.old /\ saved.out = {} /\ saved.new = {}
        /\ saved.newItems = {} /\ saved.claims = {} /\ saved.late = {} /\ saved.gone = {}
    BY <2>1 DEF Idle, PlanType, Stages, Kinds
  <2> HIDE DEF saved
  <2>3. Shape(saved) /\ Whole(saved) /\ \A ms, is : Knows(saved, ms, is)
    BY <2>1, <2>2 DEF Shape, Whole, Knows
  <2>4. Writes(saved)  BY <2>2 DEF Writes, Ids, SerialsOf
  <2> QED BY <2>2, <2>3, <2>4 DEF PlanTyped
<1>4. after \in PlanType /\ \A ms, is : PlanTyped(after, ms, is)
  BY <1>3, IdleTyped
<1>5. after.out = {} /\ after.new = {}  BY DEF Idle
<1>6. ASSUME NEW q \in Procs PROVE told(q) \in PlanType
  <2>1. proc[q] \in PlanType  BY DEF Types
  <2>2. proc[q].late \cup (added \cap proc[q].claims) \in SUBSET Serials
    BY <2>1 DEF PlanType
  <2> QED BY <2>1, <2>2 DEF PlanType
<1> HIDE DEF after, told, me
<1>7. proc' \in [Procs -> PlanType] /\ proc'[p] = after
      /\ \A q \in Procs \ {p} : proc'[q] = told(q)
  BY <1>1, <1>4, <1>6
<1> QED BY <1>4, <1>5, <1>7 DEF told, me

\* A plan that another process's commit overtook: of the serials it does not hold
\* against it, every row is an old one.
LEMMA ToldTyped ==
  ASSUME Types, NEW q \in Procs, NEW added, NEW told,
         told = [proc[q] EXCEPT !.late = proc[q].late \cup (added \cap proc[q].claims)],
         NEW ms, NEW is,
         \A m \in ms : m \in modules \/ m.serial = None \/ m.serial \in added,
         \A i \in is : i \in items \/ i.serial = None \/ i.serial \in added
  PROVE  PlanTyped(told, ms, is)
<1> DEFINE me == proc[q]
<1>1. me \in PlanType /\ Shape(me) /\ Writes(me) /\ Whole(me) /\ Knows(me, modules, items)
  BY DEF Types, PlanTyped
<1>2. /\ told.late = me.late \cup (added \cap me.claims)
      /\ told.at = me.at /\ told.kind = me.kind /\ told.device = me.device /\ told.old = me.old
      /\ told.out = me.out /\ told.new = me.new /\ told.outItems = me.outItems
      /\ told.newItems = me.newItems /\ told.gone = me.gone /\ told.claims = me.claims
      /\ told.chosen = me.chosen
  BY <1>1 DEF PlanType
<1>3. told \in PlanType
  <2>1. me.late \cup (added \cap me.claims) \in SUBSET Serials  BY <1>1 DEF PlanType
  <2> QED BY <1>1, <2>1 DEF PlanType
<1> HIDE DEF me
<1>4. Shape(told)  BY <1>1, <1>2 DEF Shape
<1>5. Writes(told) /\ Whole(told)  BY <1>1, <1>2 DEF Writes, Whole
<1>6. Knows(told, ms, is)
  <2>1. None \notin me.claims  BY <1>1, NoneAssumption DEF PlanType
  <2> QED BY <1>1, <1>2, <2>1 DEF Knows
<1> QED BY <1>3, <1>4, <1>5, <1>6 DEF PlanTyped

\* Rows after a commit.
LEMMA CommitRows ==
  ASSUME Types, NEW p \in Procs, Commit(p)
  PROVE  RowsTyped(present', modules', items')
<1> DEFINE me == proc[p]
<1>1. /\ me \in PlanType /\ Shape(me) /\ Writes(me)
      /\ RowsTyped(present, modules, items)
  BY DEF Types, PlanTyped
<1>2. \A m \in me.new : m.id \in me.out \/ m.id \notin Ids(modules)
  BY DEF Types, KeysApart
<1>3. /\ present' = present \ me.gone
      /\ modules' = {m \in modules : m.id \notin me.out /\ m.device \notin me.gone} \cup me.new
      /\ items' = {i \in items : i.id \notin me.outItems} \cup me.newItems
      /\ \A m \in me.new : m.device \in present
  BY DEF Commit, Constrained
<1> HIDE DEF me
<1>4. me.new \subseteq ModuleRows /\ me.newItems \subseteq ItemRows  BY <1>1 DEF PlanType
<1>5. me.new = {} \/ me.gone = {}  BY <1>1 DEF Shape
<1>6. present' \subseteq Devices /\ modules' \subseteq ModuleRows /\ items' \subseteq ItemRows
  BY <1>1, <1>3, <1>4 DEF RowsTyped
<1>7. \A m \in modules' : m.device \in present'
  BY <1>1, <1>3, <1>5 DEF RowsTyped
<1>8. ASSUME NEW m \in modules', NEW n \in modules', m.id = n.id PROVE m = n
  <2>1. CASE m \in modules /\ n \in modules  BY <1>1, <1>8, <2>1 DEF RowsTyped
  <2>2. CASE m \in me.new /\ n \in me.new  BY <1>1, <1>8, <2>2 DEF Writes
  <2>3. ASSUME NEW a \in me.new, NEW b \in modules, b.id \notin me.out PROVE a.id # b.id
    BY <1>2, <2>3 DEF Ids
  <2> QED BY <1>3, <1>8, <2>1, <2>2, <2>3
<1>9. ASSUME NEW i \in items', NEW j \in items', i.id = j.id PROVE i = j
  <2>1. CASE i \in items /\ j \in items  BY <1>1, <1>9, <2>1 DEF RowsTyped
  <2>2. CASE i \in me.newItems /\ j \in me.newItems  BY <1>1, <1>9, <2>2 DEF Writes
  <2>3. \A a \in me.newItems : a.id \in me.outItems  BY <1>1 DEF Writes, Ids
  <2> QED BY <1>3, <1>9, <2>1, <2>2, <2>3
<1> QED BY <1>6, <1>7, <1>8, <1>9 DEF RowsTyped

\* A commit.
LEMMA CommitTyped ==
  ASSUME Types, NEW p \in Procs, Commit(p)
  PROVE  Types'
<1> DEFINE me == proc[p]
           added == SerialsOf(me.new \cup me.newItems)
           told(q) == [proc[q] EXCEPT !.late = proc[q].late \cup (added \cap proc[q].claims)]
<1>1. /\ modules' = {m \in modules : m.id \notin me.out /\ m.device \notin me.gone} \cup me.new
      /\ items' = {i \in items : i.id \notin me.outItems} \cup me.newItems
      /\ disputed' = (disputed \ Settled(me)) \cup (added \cap me.late) \cup Twice(me)
      /\ dropped' = dropped \cup me.gone
      /\ UNCHANGED <<writes, deletes, started>>
  BY DEF Commit
<1>2. /\ proc' \in [Procs -> PlanType]
      /\ \A q \in Procs \ {p} : proc'[q] = told(q)
      /\ proc'[p].out = {} /\ proc'[p].new = {}
      /\ \A ms, is : PlanTyped(proc'[p], ms, is)
  BY CommitPlans
<1>3. me \in PlanType /\ Shape(me) /\ Writes(me)  BY DEF Types, PlanTyped
<1>4. \A q \in Procs : proc[q] \in PlanType  BY DEF Types
<1>5. Counted'
  <2>1. me.late \subseteq Serials /\ me.gone \subseteq Devices  BY <1>3 DEF PlanType
  <2>2. Settled(me) \subseteq Serials /\ Twice(me) \subseteq Serials
    BY <1>3 DEF Settled, Twice, PlanType
  <2> QED BY <1>1, <2>1, <2>2 DEF Types, Counted
<1>6. /\ \A m \in modules' : m \in modules \/ m.serial = None \/ m.serial \in added
      /\ \A i \in items' : i \in items \/ i.serial = None \/ i.serial \in added
  <2>1. \A m \in me.new : m.serial = None \/ m.serial \in added  BY DEF SerialsOf
  <2>2. \A i \in me.newItems : i.serial = None \/ i.serial \in added  BY DEF SerialsOf
  <2> HIDE DEF added, me
  <2> QED BY <1>1, <2>1, <2>2
<1>7. ASSUME NEW q \in Procs PROVE PlanTyped(proc'[q], modules', items')
  <2>1. CASE q = p  BY <1>2, <2>1
  <2>2. CASE q # p
    <3>1. proc'[q] = told(q)  BY <1>2, <2>2
    <3> HIDE DEF added
    <3> QED BY <1>6, <3>1, ToldTyped
  <2> QED BY <2>1, <2>2
<1>8. \A q \in Procs \ {p} : proc'[q].out = proc[q].out /\ proc'[q].new = proc[q].new
  BY <1>2, <1>4 DEF PlanType
<1>9. KeysApart(proc', modules')
  <2> SUFFICES ASSUME NEW q \in Procs, NEW m \in proc'[q].new, m.id \notin proc'[q].out
               PROVE  /\ m.id \notin Ids(modules')
                      /\ \A r \in Procs \ {q} : m.id \notin proc'[r].out \cup Ids(proc'[r].new)
    BY DEF KeysApart
  <2> HIDE DEF me, told
  <2>1. q # p /\ proc'[q].out = proc[q].out /\ proc'[q].new = proc[q].new  BY <1>2, <1>8
  <2>2. /\ m.id \notin Ids(modules)
        /\ \A r \in Procs \ {q} : m.id \notin proc[r].out \cup Ids(proc[r].new)
    BY <2>1 DEF Types, KeysApart
  <2>3. m.id \notin Ids(me.new)  BY <2>1, <2>2 DEF me
  <2>4. m.id \notin Ids(modules')  BY <1>1, <2>2, <2>3 DEF Ids
  <2>5. ASSUME NEW r \in Procs \ {q} PROVE m.id \notin proc'[r].out \cup Ids(proc'[r].new)
    <3>1. CASE r = p  BY <1>2, <3>1 DEF Ids
    <3>2. CASE r # p
      <4>1. proc'[r].out = proc[r].out /\ proc'[r].new = proc[r].new  BY <1>8, <3>2
      <4> QED BY <2>2, <4>1
    <3> QED BY <3>1, <3>2
  <2> QED BY <2>4, <2>5
<1>10. RowsTyped(present', modules', items')  BY CommitRows
<1> QED BY <1>2, <1>5, <1>7, <1>9, <1>10 DEF Types

\* Initially.
LEMMA InitTyped == Init => Types
<1> SUFFICES ASSUME Init PROVE Types  OBVIOUS
<1>1. PICK d \in Devices, c \in Cards, s \in Serials, t \in Serials :
        /\ present = {d}
        /\ modules = {[id |-> 1, device |-> d, slot |-> c, serial |-> s]}
        /\ items = {[id |-> 1, tag |-> None, serial |-> t]}
        /\ disputed = {s} \cap {t}
  BY DEF Init
<1>2. RowsTyped(present, modules, items)
  BY <1>1, BoundsAssumption DEF RowsTyped, ModuleRows, ItemRows, Slots
<1>3. proc = [p \in Procs |-> Idle] /\ proc \in [Procs -> PlanType]
  BY IdleTyped DEF Init
<1>4. \A p \in Procs : proc[p] = Idle  BY <1>3
<1>5. \A p \in Procs : PlanTyped(proc[p], modules, items)  BY <1>4, IdleTyped
<1>6. KeysApart(proc, modules)  BY <1>4 DEF KeysApart, Idle
<1>7. Counted  BY <1>1, BoundsAssumption DEF Counted, Init
<1> QED BY <1>2, <1>3, <1>5, <1>6, <1>7 DEF Types

\* Every step.
LEMMA StepsTyped == Types /\ [Next]_vars => Types'
<1> SUFFICES ASSUME Types, [Next]_vars PROVE Types'  OBVIOUS
<1>1. CASE \/ \E d \in Devices : AddDevice(d) \/ DeleteDevice(d)
           \/ \E m \in modules : DeleteModule(m)
           \/ \E i \in items : DeleteItem(i)
           \/ UNCHANGED vars
  BY <1>1, OtherTyped
<1>2. ASSUME NEW p \in Procs,
             \/ Commit(p) \/ Fails(p) \/ StoreAll(p) \/ DeleteOld(p) \/ DeleteNew(p)
             \/ \E fails \in BOOLEAN : Push(p, fails) \/ SkipSync(p, fails)
             \/ \E r \in Reports : SyncNew(p, r.inventory, r.optics)
      PROVE  Types'
  <2>1. CASE DeleteOld(p) \/ DeleteNew(p)  BY <2>1, DeleteTyped DEF DeleteOld, DeleteNew
  <2>2. CASE Fails(p)  BY <2>2, StageTyped
  <2> QED BY <1>2, <2>1, <2>2, CommitTyped, StoreAllTyped, StageTyped, SyncNewTyped
<1>3. ASSUME NEW p \in Procs, NEW line \in Lines,
             \/ AddItem(p, line.tag, line.serial)
             \/ \E i \in items : SaveItem(p, i.id, line.tag, line.serial)
      PROVE  Types'
  <2>1. line.tag \in Tags \cup {None} /\ line.serial \in Serials \cup {None}  BY DEF Lines
  <2>2. PICK id \in Rows : SaveItem(p, id, line.tag, line.serial)
    <3>1. \A i \in items : i.id \in Rows  BY DEF Types, RowsTyped, ItemRows
    <3>2. FreeItems \subseteq Rows  BY DEF FreeItems
    <3> QED BY <1>3, <3>1, <3>2 DEF AddItem
  <2> QED BY <2>1, <2>2, SaveItemTyped
<1>4. ASSUME NEW p \in Procs, NEW m \in modules, NEW d \in Devices, NEW s \in Serials \cup {None},
             EditModule(p, m, d, s)
      PROVE  Types'
  BY <1>4, EditModuleTyped
<1>5. ASSUME NEW p \in Procs, NEW d \in Devices,
             \/ \E wanted \in Forms : AddModules(p, d, wanted)
             \/ \E r \in Reports : Sync(p, d, r.inventory, r.optics)
             \/ \E old \in Devices : Replace(p, old, d)
             \/ \E chassis \in Serials \cup {None} : \E kept \in SUBSET Sources(d, chassis) :
                   \E tag \in [kept -> Tags \cup {None}] : Retire(p, d, kept, tag)
      PROVE  Types'
  BY <1>5, AddModulesTyped, SyncTyped, ReplaceTyped, RetireTyped
<1>6. ASSUME NEW p \in Procs, NEW file \in Files, Import(p, file) PROVE Types'
  BY <1>6, ImportTyped
<1> QED BY <1>1, <1>2, <1>3, <1>4, <1>5, <1>6 DEF Next

\* Types hold throughout.
LEMMA TypesInvariant == Spec => []Types
BY InitTyped, StepsTyped, PTL DEF Spec

\* Rows have the types of their columns and the devices they name, primary keys
\* are unique, and a plan is about rows and serials that may exist.
THEOREM TypeCorrect == Spec => []TypeOK
BY TypesInvariant, TypesImplyTypeOK, PTL

(***************************************************************************)
(* Replacements                                                            *)
(***************************************************************************)

\* Of the replacements that were begun, those a process still carries out.
Holds(plan, s) == plan.kind = "replace" /\ s = <<plan.old, plan.device>>
Finished(plans, begun) == {s \in begun : \A p \in Procs : ~Holds(plans[p], s)}

\* Without s, what s connects falls into two parts: no device is replaced by two
\* ways from another.
Severed(s, begun, T) ==
    s[2] \in T /\ s[1] \notin T /\ ClosedUnder(T, begun \ {s})

\* A process holds a replacement that was begun, and no other holds it.
HeldOnce(plans, begun) ==
    /\ \A p \in Procs : plans[p].kind = "replace" =>
          <<plans[p].old, plans[p].device>> \in begun
    /\ \A p, q \in Procs : plans[p].kind = "replace" /\ plans[q].kind = "replace"
          /\ plans[p].device = plans[q].device => p = q

Nodes(begun) == UNION {{s[1], s[2]} : s \in begun}
Forest(begun) == \A s \in begun : \E T \in SUBSET Nodes(begun) : Severed(s, begun, T)

\* One of the devices that finished replacements connect is there, unless an
\* operator deleted one.
OneLeft(there, gone, begun, plans) ==
    \A set \in (SUBSET (there \cup Nodes(begun))) \ {{}} :
        ClosedUnder(set, Finished(plans, begun)) /\ set \cap gone = {}
            => set \cap there # {}

ReplaceInv ==
    /\ HeldOnce(proc, started) /\ Forest(started)
    /\ OneLeft(present, dropped, started, proc)

\* It is what the property asks for, and more.
LEMMA ReplaceInvImpliesKeepsOne == ReplaceInv => ReplacementKeepsOne
<1> SUFFICES ASSUME ReplaceInv, NEW set \in (SUBSET Connected) \ {{}},
                    ClosedUnder(set, started), set \cap dropped = {}
             PROVE  set \cap present # {}
  BY DEF ReplacementKeepsOne
<1>1. set \in (SUBSET (present \cup Nodes(started))) \ {{}}  BY DEF Connected, Nodes
<1>2. ClosedUnder(set, Finished(proc, started))  BY DEF ClosedUnder, Finished
<1> QED BY <1>1, <1>2 DEF ReplaceInv, OneLeft

\* A step that leaves the replacements alone, and deletes devices only for an
\* operator.
LEMMA ReplaceSame ==
  ASSUME ReplaceInv, started' = started,
         \A p \in Procs : /\ proc'[p].kind = "replace" <=> proc[p].kind = "replace"
                          /\ proc'[p].kind = "replace" => /\ proc'[p].device = proc[p].device
                                                          /\ proc'[p].old = proc[p].old,
         present \subseteq present' \cup dropped', dropped \subseteq dropped'
  PROVE  ReplaceInv'
<1>1. HeldOnce(proc', started')  BY DEF ReplaceInv, HeldOnce
<1>2. Finished(proc', started') = Finished(proc, started)  BY DEF Finished, Holds
<1>3. OneLeft(present', dropped', started', proc')
  <2> SUFFICES ASSUME NEW set \in (SUBSET (present' \cup Nodes(started))) \ {{}},
                      ClosedUnder(set, Finished(proc, started)), set \cap dropped' = {},
                      set \cap present' = {}
               PROVE  FALSE
    BY <1>2 DEF OneLeft
  <2>1. set \in (SUBSET (present \cup Nodes(started))) \ {{}} /\ set \cap dropped = {}
    OBVIOUS
  <2>2. set \cap present # {}  BY <2>1 DEF ReplaceInv, OneLeft
  <2> QED BY <2>2
<1>4. Forest(started')  BY DEF ReplaceInv
<1> QED BY <1>1, <1>3, <1>4 DEF ReplaceInv

\* A new device is added, for a replacement or alone.
LEMMA ReplaceBegins ==
  ASSUME Types, ReplaceInv, NEW p \in Procs, NEW old \in Devices, NEW new \in Devices,
         Replace(p, old, new)
  PROVE  ReplaceInv'
<1> DEFINE n == <<old, new>>
           plan == [Idle EXCEPT !.at = "saved", !.kind = "replace", !.device = new, !.old = old]
<1>1. /\ old \in present /\ new \notin present \cup dropped \cup Connected
      /\ present' = present \cup {new} /\ dropped' = dropped
      /\ started' = started \cup {n} /\ proc' = [proc EXCEPT ![p] = plan]
      /\ proc[p].at = "idle"
  BY DEF Replace, MayLook
<1>2. /\ proc'[p].kind = "replace" /\ proc'[p].device = new /\ proc'[p].old = old
      /\ \A q \in Procs \ {p} : proc'[q] = proc[q]
      /\ proc[p].kind # "replace"
  BY <1>1 DEF Types, PlanTyped, Shape, Idle
<1>3. \A s \in started : s[1] \in Nodes(started) /\ s[2] \in Nodes(started)
                         /\ s = <<s[1], s[2]>> /\ s # n /\ s[1] # new /\ s[2] # new
  BY <1>1 DEF Types, Counted, Nodes, Connected
<1>4. old # new  BY <1>1
<1> HIDE DEF plan
<1>5. Nodes(started') = Nodes(started) \cup {old, new}
  <2>1. n[1] = old /\ n[2] = new /\ started' = started \cup {n}  BY <1>1
  <2> HIDE DEF n
  <2>2. \A x : x \in Nodes(started') <=> \E s \in started \cup {n} : x \in {s[1], s[2]}
    BY <2>1 DEF Nodes
  <2>3. \A x : x \in Nodes(started) <=> \E s \in started : x \in {s[1], s[2]}  BY DEF Nodes
  <2> QED BY <2>1, <2>2, <2>3
<1>6. HeldOnce(proc', started')
  <2>1. \A q \in Procs \ {p} : proc'[q].kind = "replace" => proc'[q].device # new
    BY <1>2, <1>3 DEF ReplaceInv, HeldOnce
  <2> QED BY <1>1, <1>2, <2>1 DEF ReplaceInv, HeldOnce
<1>7. Forest(started')
  <2> SUFFICES ASSUME NEW s \in started'
               PROVE  \E T \in SUBSET Nodes(started') : Severed(s, started', T)
    BY DEF Forest
  <2>1. CASE s = n
    <3>1. {new} \in SUBSET Nodes(started')
      <4>1. new \in {n[1], n[2]} /\ n \in started'  BY <1>1
      <4> HIDE DEF n
      <4> QED BY <4>1 DEF Nodes
    <3>2. Severed(s, started', {new})  BY <1>1, <1>3, <1>4, <2>1 DEF Severed, ClosedUnder
    <3> QED BY <3>1, <3>2
  <2>2. CASE s \in started
    <3>1. PICK T \in SUBSET Nodes(started) : Severed(s, started, T)
      BY <2>2 DEF ReplaceInv, Forest
    <3> DEFINE U == T \cup IF old \in T THEN {new} ELSE {}
    <3>2. U \in SUBSET Nodes(started')  BY <1>5
    <3>3. new \notin T  BY <1>1 DEF Connected, Nodes
    <3>4. Severed(s, started', U)
      BY <1>1, <1>3, <1>4, <2>2, <3>1, <3>3 DEF Severed, ClosedUnder
    <3> QED BY <3>2, <3>4
  <2> QED BY <1>1, <2>1, <2>2
<1>8. Finished(proc', started') = Finished(proc, started)
  BY <1>1, <1>2, <1>3 DEF Finished, Holds
<1>9. OneLeft(present', dropped', started', proc')
  <2> SUFFICES ASSUME NEW set \in (SUBSET (present' \cup Nodes(started'))) \ {{}},
                      ClosedUnder(set, Finished(proc, started)), set \cap dropped = {},
                      set \cap present' = {}
               PROVE  FALSE
    BY <1>1, <1>8 DEF OneLeft
  <2>1. set \in (SUBSET (present \cup Nodes(started))) \ {{}} /\ set \cap present = {}
    BY <1>1, <1>5
  <2> QED BY <2>1 DEF ReplaceInv, OneLeft
<1> QED BY <1>6, <1>7, <1>9 DEF ReplaceInv

\* A device that nobody replaced is added.
LEMMA ReplaceAddDevice ==
  ASSUME ReplaceInv, NEW d \in Devices, AddDevice(d)
  PROVE  ReplaceInv'
<1>1. present' = present \cup {d} /\ proc' = proc /\ dropped' = dropped /\ started' = started
  BY DEF AddDevice, history
<1> QED BY <1>1, ReplaceSame

\* A replacement ends: the process of s deletes one of its two devices, or none.
LEMMA ReplaceEnds ==
  ASSUME Types, ReplaceInv, NEW p \in Procs, proc[p].kind = "replace",
         proc' = [proc EXCEPT ![p] = Idle], started' = started, dropped' = dropped,
         \/ present' = present
         \/ present' = present \ {proc[p].old}
         \/ present' = present \ {proc[p].device}
  PROVE  ReplaceInv'
<1> DEFINE s == <<proc[p].old, proc[p].device>>
<1>1. /\ s \in started /\ s[1] = proc[p].old /\ s[2] = proc[p].device
      /\ proc'[p].kind = "none" /\ \A q \in Procs \ {p} : proc'[q] = proc[q]
  BY DEF ReplaceInv, HeldOnce, Types, Idle
<1>2. HeldOnce(proc', started')  BY <1>1 DEF ReplaceInv, HeldOnce
<1>3. s \notin Finished(proc, started)  BY DEF Finished, Holds
<1>4. Finished(proc, started) \subseteq Finished(proc', started')
  BY <1>1 DEF Finished, Holds
<1>5. s \in Finished(proc', started')
  <2>1. \A q \in Procs \ {p} : ~Holds(proc[q], s)
    BY DEF ReplaceInv, HeldOnce, Holds
  <2> QED BY <1>1, <2>1 DEF Finished, Holds
<1> HIDE DEF s
<1>6. PICK T \in SUBSET Nodes(started) : Severed(s, started, T)
  BY <1>1 DEF ReplaceInv, Forest
<1>7. ClosedUnder(T, Finished(proc, started))
  BY <1>3, <1>6 DEF Severed, ClosedUnder, Finished
<1>8. OneLeft(present', dropped', started', proc')
  <2> SUFFICES ASSUME NEW set \in (SUBSET (present' \cup Nodes(started))) \ {{}},
                      ClosedUnder(set, Finished(proc', started')), set \cap dropped = {},
                      set \cap present' = {}
               PROVE  FALSE
    BY DEF OneLeft
  <2>1. /\ set \in (SUBSET (present \cup Nodes(started))) \ {{}}
        /\ ClosedUnder(set, Finished(proc, started)) /\ (s[1] \in set <=> s[2] \in set)
    BY <1>4, <1>5 DEF ClosedUnder
  <2>2. set \cap present # {}  BY <2>1 DEF ReplaceInv, OneLeft
  <2>3. s[1] \in set /\ s[2] \in set  BY <1>1, <2>1, <2>2
  <2>4. /\ ClosedUnder(set \cap T, Finished(proc, started))
        /\ ClosedUnder(set \ T, Finished(proc, started))
    BY <1>7, <2>1 DEF ClosedUnder
  <2>5. s[2] \in set \cap T /\ s[1] \in set \ T  BY <1>6, <2>3 DEF Severed
  <2>6. (set \cap T) \cap present # {}
    <3>1. set \cap T \in (SUBSET (present \cup Nodes(started))) \ {{}}
          /\ (set \cap T) \cap dropped = {}
      BY <2>1, <2>5
    <3> QED BY <2>4, <3>1 DEF ReplaceInv, OneLeft
  <2>7. (set \ T) \cap present # {}
    <3>1. set \ T \in (SUBSET (present \cup Nodes(started))) \ {{}}
          /\ (set \ T) \cap dropped = {}
      BY <2>1, <2>5
    <3> QED BY <2>4, <3>1 DEF ReplaceInv, OneLeft
  <2> QED BY <1>1, <2>5, <2>6, <2>7
<1>9. Forest(started')  BY DEF ReplaceInv
<1> QED BY <1>2, <1>8, <1>9 DEF ReplaceInv

\* Any other plan is made, given up or carried out.
LEMMA ReplacePlans ==
  ASSUME Types, ReplaceInv, NEW p \in Procs, NEW plan, Plans(p, plan),
         plan.kind = "replace" <=> proc[p].kind = "replace",
         plan.kind = "replace" => plan.device = proc[p].device /\ plan.old = proc[p].old
  PROVE  ReplaceInv'
<1>1. /\ present' = present /\ dropped' = dropped /\ started' = started
      /\ proc' = [proc EXCEPT ![p] = plan] /\ proc \in [Procs -> PlanType]
  BY DEF Plans, rows, history, Types
<1>2. \A q \in Procs : proc'[q] = IF q = p THEN plan ELSE proc[q]  BY <1>1
<1> QED BY <1>1, <1>2, ReplaceSame

\* A request or task begins, not a replacement.
LEMMA ReplaceLooks ==
  ASSUME Types, ReplaceInv, NEW p \in Procs, NEW plan, Looks(p, plan), plan.kind # "replace"
  PROVE  ReplaceInv'
<1>1. proc[p].at = "idle" /\ Plans(p, plan)  BY DEF Looks, MayLook
<1>2. proc[p].kind # "replace"  BY <1>1 DEF Types, PlanTyped, Shape
<1> QED BY <1>1, <1>2, ReplacePlans

\* A commit: the synchronization of a replacement is one of its steps, a retirement
\* is an operator's.
LEMMA ReplaceCommits ==
  ASSUME Types, ReplaceInv, NEW p \in Procs, Commit(p)
  PROVE  ReplaceInv'
<1> DEFINE me == proc[p]
           added == SerialsOf(me.new \cup me.newItems)
           told(q) == [proc[q] EXCEPT !.late = proc[q].late \cup (added \cap proc[q].claims)]
           saved == [Idle EXCEPT !.at = "synced", !.kind = "replace",
                                 !.device = me.device, !.old = me.old]
           after == IF me.kind = "replace" THEN saved ELSE Idle
<1>1. /\ present' = present \ me.gone /\ dropped' = dropped \cup me.gone /\ started' = started
      /\ proc' = [q \in Procs |-> IF q # p THEN told(q) ELSE after]
  BY DEF Commit
<1>2. /\ after.kind = "replace" <=> me.kind = "replace"
      /\ after.kind = "replace" => after.device = me.device /\ after.old = me.old
  BY DEF Idle
<1>3. ASSUME NEW q \in Procs
      PROVE  told(q).kind = proc[q].kind /\ told(q).device = proc[q].device
             /\ told(q).old = proc[q].old
  <2>1. proc[q] \in PlanType  BY DEF Types
  <2> QED BY <2>1 DEF PlanType
<1> HIDE DEF after, told, me
<1>4. \A q \in Procs : proc'[q] = IF q # p THEN told(q) ELSE after  BY <1>1
<1>5. \A q \in Procs : /\ proc'[q].kind = "replace" <=> proc[q].kind = "replace"
                       /\ proc'[q].kind = "replace" => /\ proc'[q].device = proc[q].device
                                                       /\ proc'[q].old = proc[q].old
  BY <1>2, <1>3, <1>4 DEF me
<1> QED BY <1>1, <1>5, ReplaceSame

\* Steps of one process that are not the beginning of a plan.
LEMMA ReplaceContinues ==
  ASSUME Types, ReplaceInv, NEW p \in Procs,
         \/ Commit(p) \/ Fails(p) \/ StoreAll(p) \/ DeleteOld(p) \/ DeleteNew(p)
         \/ \E fails \in BOOLEAN : Push(p, fails) \/ SkipSync(p, fails)
         \/ \E r \in Reports : SyncNew(p, r.inventory, r.optics)
  PROVE  ReplaceInv'
<1> DEFINE me == proc[p]
<1>1. me \in PlanType /\ Shape(me)  BY DEF Types, PlanTyped
<1>2. Idle.kind = "none"  BY DEF Idle
<1>3. CASE Fails(p)
  <2>1. Plans(p, Idle)  BY <1>3 DEF Fails
  <2>2. CASE me.kind = "replace"
    BY <2>1, <2>2, ReplaceEnds DEF Plans, rows, history
  <2> QED BY <1>2, <2>1, <2>2, ReplacePlans
<1>4. CASE StoreAll(p)
  <2>1. me.at = "chosen" /\ me.kind = "retire"  BY <1>1, <1>4 DEF StoreAll, Shape
  <2>2. \E plan : Plans(p, plan) /\ plan.kind # "replace"
    <3>1. \A new, out, claims : [me EXCEPT !.at = "ready", !.newItems = new, !.outItems = out,
                                    !.claims = claims].kind = "retire"
      BY <1>1, <2>1 DEF PlanType
    <3> HIDE DEF me
    <3> QED BY <1>2, <1>4, <3>1 DEF StoreAll, me
  <2> QED BY <2>1, <2>2, ReplacePlans
<1>5. CASE DeleteOld(p) \/ DeleteNew(p)
  <2>1. me.kind = "replace"  BY <1>1, <1>5 DEF DeleteOld, DeleteNew, Shape
  <2>2. /\ proc' = [proc EXCEPT ![p] = Idle] /\ started' = started /\ dropped' = dropped
        /\ present' = present \ {me.old} \/ present' = present \ {me.device}
    BY <1>5 DEF DeleteOld, DeleteNew, Delete, history
  <2> QED BY <2>1, <2>2, ReplaceEnds
<1>6. ASSUME NEW fails \in BOOLEAN, Push(p, fails) \/ SkipSync(p, fails) PROVE ReplaceInv'
  <2>1. PICK at : Plans(p, [me EXCEPT !.at = at])  BY <1>6 DEF Push, SkipSync
  <2>2. /\ [me EXCEPT !.at = at].kind = me.kind /\ [me EXCEPT !.at = at].device = me.device
        /\ [me EXCEPT !.at = at].old = me.old
    BY <1>1 DEF PlanType
  <2> QED BY <2>1, <2>2, ReplacePlans
<1>7. ASSUME NEW r \in Reports, SyncNew(p, r.inventory, r.optics) PROVE ReplaceInv'
  <2> DEFINE base == SyncPlan(me.device, r.inventory, r.optics).plan
             plan == [base EXCEPT !.kind = "replace", !.old = me.old]
  <2>1. me.at = "pushed" /\ Plans(p, plan)  BY <1>7 DEF SyncNew
  <2>2. me.kind = "replace" /\ me.device \in Devices /\ me.old \in Devices
    BY <1>1, <2>1 DEF Shape
  <2>3. r.inventory \in Partial(Cards) /\ r.optics \in Partial(Optics)  BY DEF Reports
  <2>4. base \in PlanType
    BY <1>7, <2>2, <2>3, SyncPlanSound DEF SyncNew
  <2>5. base.device = me.device  BY DEF SyncPlan, Idle
  <2> HIDE DEF base
  <2>6. plan.kind = "replace" /\ plan.device = me.device /\ plan.old = me.old
    BY <2>4, <2>5 DEF PlanType
  <2> QED BY <2>1, <2>2, <2>6, ReplacePlans
<1> QED BY <1>3, <1>4, <1>5, <1>6, <1>7, ReplaceCommits

\* Requests and tasks that begin.
LEMMA ReplaceOthersBegin ==
  ASSUME Types, ReplaceInv, NEW p \in Procs,
         \/ \E line \in Lines : \/ AddItem(p, line.tag, line.serial)
                                \/ \E i \in items : SaveItem(p, i.id, line.tag, line.serial)
         \/ \E file \in Files : Import(p, file)
         \/ \E m \in modules, d \in Devices, s \in Serials \cup {None} : EditModule(p, m, d, s)
         \/ \E d \in Devices :
              \/ \E wanted \in Forms : AddModules(p, d, wanted)
              \/ \E r \in Reports : Sync(p, d, r.inventory, r.optics)
              \/ \E chassis \in Serials \cup {None} : \E kept \in SUBSET Sources(d, chassis) :
                   \E tag \in [kept -> Tags \cup {None}] : Retire(p, d, kept, tag)
  PROVE  ReplaceInv'
<1>1. \A a, b, c : [Idle EXCEPT !.at = "ready", !.kind = "module", !.out = a, !.new = b,
                            !.claims = c].kind = "module"
  BY DEF Idle
<1>2. ASSUME NEW id, NEW tag, NEW s, SaveItem(p, id, tag, s) PROVE ReplaceInv'
  <2>1. PICK a, b, c : Looks(p, [Idle EXCEPT !.at = "ready", !.kind = "item", !.outItems = a,
                                    !.newItems = b, !.claims = c])
    BY <1>2 DEF SaveItem
  <2>2. [Idle EXCEPT !.at = "ready", !.kind = "item", !.outItems = a, !.newItems = b,
            !.claims = c].kind = "item"
    BY DEF Idle
  <2> QED BY <2>1, <2>2, ReplaceLooks
<1>3. ASSUME NEW file, Import(p, file) PROVE ReplaceInv'
  <2>1. PICK a, b, c, e : Looks(p, [Idle EXCEPT !.at = "ready", !.kind = "import", !.outItems = a,
                                       !.newItems = b, !.chosen = c, !.claims = e])
    BY <1>3 DEF Import
  <2>2. [Idle EXCEPT !.at = "ready", !.kind = "import", !.outItems = a, !.newItems = b,
            !.chosen = c, !.claims = e].kind = "import"
    BY DEF Idle
  <2> QED BY <2>1, <2>2, ReplaceLooks
<1>4. ASSUME NEW m, NEW d, NEW s, EditModule(p, m, d, s) PROVE ReplaceInv'
  <2>1. PICK a, b, c : Looks(p, [Idle EXCEPT !.at = "ready", !.kind = "module", !.out = a,
                                    !.new = b, !.claims = c])
    BY <1>4 DEF EditModule
  <2> QED BY <1>1, <2>1, ReplaceLooks
<1>5. ASSUME NEW d, NEW wanted, AddModules(p, d, wanted) PROVE ReplaceInv'
  <2>1. PICK a, b : Looks(p, [Idle EXCEPT !.at = "ready", !.kind = "module", !.new = a,
                                 !.claims = b])
    BY <1>5 DEF AddModules
  <2>2. [Idle EXCEPT !.at = "ready", !.kind = "module", !.new = a, !.claims = b].kind = "module"
    BY DEF Idle
  <2> QED BY <2>1, <2>2, ReplaceLooks
<1>6. ASSUME NEW d \in Devices, NEW r \in Reports, Sync(p, d, r.inventory, r.optics)
      PROVE  ReplaceInv'
  <2> DEFINE plan == SyncPlan(d, r.inventory, r.optics).plan
  <2>1. r.inventory \in Partial(Cards) /\ r.optics \in Partial(Optics)  BY DEF Reports
  <2>2. SyncPlan(d, r.inventory, r.optics).fits /\ Looks(p, [plan EXCEPT !.kind = "sync"])
    BY <1>6 DEF Sync
  <2>3. plan \in PlanType  BY <2>1, <2>2, SyncPlanSound
  <2> HIDE DEF plan
  <2>4. [plan EXCEPT !.kind = "sync"].kind = "sync"  BY <2>3 DEF PlanType
  <2> QED BY <2>2, <2>4, ReplaceLooks
<1>7. ASSUME NEW d, NEW kept, NEW tag, Retire(p, d, kept, tag) PROVE ReplaceInv'
  <2>1. PICK a : Looks(p, [Idle EXCEPT !.at = "chosen", !.kind = "retire", !.device = d,
                              !.gone = {d}, !.chosen = a])
    BY <1>7 DEF Retire
  <2>2. [Idle EXCEPT !.at = "chosen", !.kind = "retire", !.device = d, !.gone = {d},
            !.chosen = a].kind = "retire"
    BY DEF Idle
  <2> QED BY <2>1, <2>2, ReplaceLooks
<1> QED BY <1>2, <1>3, <1>4, <1>5, <1>6, <1>7 DEF AddItem

\* Every step, and none.
LEMMA ReplaceSteps == Types /\ ReplaceInv /\ [Next]_vars => ReplaceInv'
<1> SUFFICES ASSUME Types, ReplaceInv, [Next]_vars PROVE ReplaceInv'  OBVIOUS
<1>1. ASSUME proc' = proc, started' = started, present \subseteq present' \cup dropped',
             dropped \subseteq dropped'
      PROVE  ReplaceInv'
  BY <1>1, ReplaceSame
<1>2. CASE UNCHANGED vars  BY <1>1, <1>2 DEF vars
<1>3. ASSUME NEW d \in Devices, DeleteDevice(d) PROVE ReplaceInv'
  BY <1>1, <1>3 DEF DeleteDevice
<1>4. ASSUME NEW m \in modules, DeleteModule(m) PROVE ReplaceInv'
  BY <1>1, <1>4 DEF DeleteModule, history
<1>5. ASSUME NEW i \in items, DeleteItem(i) PROVE ReplaceInv'
  BY <1>1, <1>5 DEF DeleteItem, history
<1> QED BY <1>2, <1>3, <1>4, <1>5, ReplaceAddDevice, ReplaceContinues, ReplaceOthersBegin,
           ReplaceBegins DEF Next

\* Initially no replacement was begun.
LEMMA ReplaceInit == Init => ReplaceInv
<1> SUFFICES ASSUME Init PROVE ReplaceInv  OBVIOUS
<1>1. started = {} /\ \A p \in Procs : proc[p].kind = "none"  BY DEF Init, Idle
<1>2. HeldOnce(proc, started) /\ Forest(started)  BY <1>1 DEF HeldOnce, Forest
<1>3. OneLeft(present, dropped, started, proc)  BY <1>1 DEF OneLeft, Nodes
<1> QED BY <1>2, <1>3 DEF ReplaceInv

\* Whatever replacements overlap or follow each other, and however each ends, of
\* the devices they connect one is there, unless an operator deleted one.
THEOREM ReplacementsKeepOne == Spec => []ReplacementKeepsOne
BY TypesInvariant, ReplaceInit, ReplaceSteps, ReplaceInvImpliesKeepsOne, PTL DEF Spec

(***************************************************************************)
(* Retirements and imports are whole                                       *)
(***************************************************************************)

\* A step that changes a plan and rows is a commit or a step of a replacement.
LEMMA PlansOnly ==
  ASSUME [Next]_vars
  PROVE  \/ UNCHANGED proc \/ UNCHANGED rows
         \/ \E q \in Procs : Commit(q) \/ DeleteOld(q) \/ DeleteNew(q)
                             \/ \E old \in Devices, new \in Devices : Replace(q, old, new)
<1>1. \A q, plan : Looks(q, plan) \/ Plans(q, plan) => UNCHANGED rows  BY DEF Looks, Plans
<1>2. \A q, id, tag, s : SaveItem(q, id, tag, s) \/ AddItem(q, tag, s) => UNCHANGED rows
  BY <1>1 DEF SaveItem, AddItem
<1>3. \A q, file : Import(q, file) => UNCHANGED rows  BY <1>1 DEF Import
<1>4. \A q, m, d, s : EditModule(q, m, d, s) => UNCHANGED rows  BY <1>1 DEF EditModule
<1>5. \A q, d, wanted : AddModules(q, d, wanted) => UNCHANGED rows  BY <1>1 DEF AddModules
<1>6. \A q, d, f, g : Sync(q, d, f, g) \/ SyncNew(q, f, g) => UNCHANGED rows
  BY <1>1 DEF Sync, SyncNew
<1>7. \A q, d, kept, tag : Retire(q, d, kept, tag) => UNCHANGED rows  BY <1>1 DEF Retire
<1>8. \A q : StoreAll(q) \/ Fails(q) => UNCHANGED rows  BY <1>1 DEF StoreAll, Fails
<1>9. \A q, fails : Push(q, fails) \/ SkipSync(q, fails) => UNCHANGED rows
  BY <1>1 DEF Push, SkipSync
<1>10. \A x : AddDevice(x) \/ DeleteDevice(x) \/ DeleteModule(x) \/ DeleteItem(x) => UNCHANGED proc
  BY DEF AddDevice, DeleteDevice, DeleteModule, DeleteItem
<1>11. UNCHANGED vars => UNCHANGED rows  BY DEF vars, rows
<1> QED BY <1>2, <1>3, <1>4, <1>5, <1>6, <1>7, <1>8, <1>9, <1>10, <1>11 DEF Next

\* A step of another process, and one that commits nothing, leave the kind of plan
\* that p has; only p's own commit ends a plan that had rows to write.
LEMMA PlanEnds ==
  ASSUME Types, [Next]_vars, NEW p \in Procs,
         proc[p].kind \in {"retire", "import"}, proc'[p].at = "idle",
         present' # present \/ items' # items
  PROVE  Commit(p)
<1>1. \A q \in Procs : proc[q] \in PlanType /\ Shape(proc[q])  BY DEF Types, PlanTyped
<1>2. proc[p].at # "idle" /\ proc[p].at \in {"chosen", "ready"}
  BY <1>1 DEF Shape, PlanType, Stages
<1>3. proc' # proc  BY <1>2
<1>4. ~UNCHANGED rows  BY DEF rows
<1>5. \E q \in Procs : Commit(q) \/ DeleteOld(q) \/ DeleteNew(q)
                       \/ \E old \in Devices, new \in Devices : Replace(q, old, new)
  BY <1>3, <1>4, PlansOnly
<1>6. ASSUME NEW q \in Procs, DeleteOld(q) \/ DeleteNew(q) PROVE FALSE
  <2>1. proc[q].at \in {"synced", "abandon"} /\ proc' = [proc EXCEPT ![q] = Idle]
    BY <1>6 DEF DeleteOld, DeleteNew, Delete
  <2> QED BY <1>2, <2>1 DEF Types
<1>7. ASSUME NEW q \in Procs, NEW old \in Devices, NEW new \in Devices, Replace(q, old, new)
      PROVE  FALSE
  <2>1. proc[q].at = "idle" /\ \E plan : proc' = [proc EXCEPT ![q] = plan]
    BY <1>7 DEF Replace, MayLook
  <2> QED BY <1>2, <2>1 DEF Types
<1>8. ASSUME NEW q \in Procs, Commit(q), q # p PROVE FALSE
  <2> DEFINE added == SerialsOf(proc[q].new \cup proc[q].newItems)
  <2>1. proc'[p] = [proc[p] EXCEPT !.late = proc[p].late \cup (added \cap proc[p].claims)]
    BY <1>8, CommitPlans
  <2> HIDE DEF added
  <2>2. proc'[p].at = proc[p].at  BY <1>1, <2>1 DEF PlanType
  <2> QED BY <1>2, <2>2
<1> QED BY <1>5, <1>6, <1>7, <1>8

\* A retirement that commits has every chosen part in stock.
LEMMA RetireStep ==
  ASSUME Types, [Next]_vars, NEW p \in Procs,
         proc[p].kind = "retire", proc'[p].at = "idle", present' # present
  PROVE  /\ proc[p].device \notin present'
         /\ \A r \in proc[p].chosen : \E i \in items' : i.tag = r.tag /\ i.serial = r.serial
<1>1. Commit(p)  BY PlanEnds
<1>2. Shape(proc[p]) /\ Whole(proc[p])  BY DEF Types, PlanTyped
<1>3. /\ proc[p].at = "ready" /\ present' = present \ proc[p].gone
      /\ proc[p].newItems \subseteq items'
  BY <1>1 DEF Commit
<1> QED BY <1>2, <1>3 DEF Shape, Whole

\* An import that commits has every line of the file in stock.
LEMMA ImportStep ==
  ASSUME Types, [Next]_vars, NEW p \in Procs,
         proc[p].kind = "import", proc'[p].at = "idle", items' # items
  PROVE  \A l \in proc[p].chosen : \E i \in items' : i.tag = l.tag /\ i.serial = l.serial
<1>1. Commit(p)  BY PlanEnds
<1>2. Whole(proc[p])  BY DEF Types, PlanTyped
<1>3. proc[p].at = "ready" /\ proc[p].newItems \subseteq items'  BY <1>1 DEF Commit
<1> QED BY <1>2, <1>3 DEF Whole

\* A retirement removes its device and stores every part that was chosen, or does
\* neither.
THEOREM RetirementsAreWhole == Spec => RetireKeepsChosen
<1>1. Types /\ [Next]_vars =>
        [\A p \in Procs :
           proc[p].kind = "retire" /\ proc'[p].at = "idle" /\ present' # present =>
              /\ proc[p].device \notin present'
              /\ \A r \in proc[p].chosen :
                    \E i \in items' : i.tag = r.tag /\ i.serial = r.serial]_vars
  BY RetireStep
<1> QED BY <1>1, TypesInvariant, PTL DEF Spec, RetireKeepsChosen

\* An import stores every line of its file, or none.
THEOREM ImportsAreWhole == Spec => ImportTakesEveryLine
<1>1. Types /\ [Next]_vars =>
        [\A p \in Procs :
           proc[p].kind = "import" /\ proc'[p].at = "idle" /\ items' # items =>
              \A line \in proc[p].chosen :
                 \E i \in items' : i.tag = line.tag /\ i.serial = line.serial]_vars
  BY ImportStep
<1> QED BY <1>1, TypesInvariant, PTL DEF Spec, ImportTakesEveryLine

(***************************************************************************)
(* The ledger                                                              *)
(***************************************************************************)

\* Rows that bear s.
ModulesOf(ms, s) == {m \in ms : m.serial = s}
ItemsOf(is, s) == {i \in is : i.serial = s}
BearersOf(ms, is, s) ==
    {<<m.device, m.id>> : m \in ModulesOf(ms, s)} \cup {<<None, i.id>> : i \in ItemsOf(is, s)}

\* The mapping to the ledger, now and next.
LEMMA BearersAre ==
  ASSUME NEW s \in Serials
  PROVE  /\ Bearers[s] = BearersOf(modules, items, s)
         /\ Bearers'[s] = BearersOf(modules', items', s)
BY DEF Bearers, BearersOf, ModulesOf, ItemsOf

\* Deleting rows gives serials up.
LEMMA LedgerGivesUp ==
  ASSUME modules' \subseteq modules, items' \subseteq items, disputed' = disputed
  PROVE  Ledger!Next
<1> SUFFICES ASSUME NEW s \in Serials, s \notin disputed PROVE Ledger!GiveUp(s)
  BY DEF Ledger!Next, Ledger!Undisputed
<1>1. BearersOf(modules', items', s) \subseteq BearersOf(modules, items, s)
  BY DEF BearersOf, ModulesOf, ItemsOf
<1> QED BY <1>1, BearersAre DEF Ledger!GiveUp

\* A commit that brings no row of s.
LEMMA LedgerNotAdded ==
  ASSUME Types, NEW p \in Procs, Commit(p), NEW s \in Serials,
         s \notin SerialsOf(proc[p].new \cup proc[p].newItems)
  PROVE  s \in disputed' \/ Ledger!Undisputed(s)
<1> DEFINE me == proc[p]
<1>1. me \in PlanType /\ Writes(me)  BY DEF Types, PlanTyped
<1>2. /\ modules' = {m \in modules : m.id \notin me.out /\ m.device \notin me.gone} \cup me.new
      /\ items' = {i \in items : i.id \notin me.outItems} \cup me.newItems
      /\ disputed \ Settled(me) \subseteq disputed'
  BY DEF Commit
<1>3. \A row \in me.new \cup me.newItems : row.serial # s
  <2>1. s # None  BY NoneAssumption
  <2> QED BY <2>1 DEF SerialsOf
<1> HIDE DEF me
<1>4. BearersOf(modules', items', s) \subseteq BearersOf(modules, items, s)
  BY <1>2, <1>3 DEF BearersOf, ModulesOf, ItemsOf
<1>5. s \notin Settled(me)
  <2>1. SerialsOf(me.new) \subseteq SerialsOf(me.new \cup me.newItems)  BY DEF SerialsOf
  <2> QED BY <1>1, <2>1 DEF Settled, Writes, me
<1>6. Ledger!GiveUp(s)  BY <1>4, BearersAre DEF Ledger!GiveUp
<1> QED BY <1>2, <1>5, <1>6 DEF Ledger!Undisputed

\* A commit that brings a row of s that nobody else has brought meanwhile: it is the
\* only one afterwards.
LEMMA LedgerOneAdded ==
  ASSUME Types, NEW p \in Procs, Commit(p), NEW s \in Serials, s \notin Twice(proc[p]),
         s \in SerialsOf(proc[p].new \cup proc[p].newItems), s \notin proc[p].late
  PROVE  /\ \E row \in BearersOf(proc[p].new, proc[p].newItems, s) :
               BearersOf(modules', items', s) = {row}
         /\ BearersOf(modules', items', s) = BearersOf(proc[p].new, proc[p].newItems, s)
<1> DEFINE me == proc[p]
<1>1. me \in PlanType /\ Shape(me) /\ Writes(me) /\ Knows(me, modules, items)
  BY DEF Types, PlanTyped
<1>2. /\ modules' = {m \in modules : m.id \notin me.out /\ m.device \notin me.gone} \cup me.new
      /\ items' = {i \in items : i.id \notin me.outItems} \cup me.newItems
      /\ me.at = "ready"
      /\ \A i, j \in items' : i # j => i.serial # j.serial \/ i.serial = None
  BY DEF Commit, Constrained
<1> HIDE DEF me
<1>3. s \in me.claims \ me.late /\ s # None  BY <1>1, NoneAssumption DEF Writes, me
<1>4. ModulesOf(modules', s) = ModulesOf(me.new, s)
  BY <1>1, <1>2, <1>3 DEF Knows, ModulesOf
<1>5. ItemsOf(items', s) = ItemsOf(me.newItems, s)
  BY <1>1, <1>2, <1>3 DEF Knows, ItemsOf
<1>6. BearersOf(modules', items', s) = BearersOf(me.new, me.newItems, s)
  BY <1>4, <1>5 DEF BearersOf
<1>7. \A m, n \in ModulesOf(me.new, s) : m = n  BY DEF ModulesOf, Twice, me
<1>8. \A i, j \in ItemsOf(me.newItems, s) : i = j  BY <1>2, <1>3 DEF ItemsOf
<1>9. me.new = {} \/ me.newItems = {}  BY <1>1 DEF Shape, PlanType, Kinds
<1>10. PICK a \in me.new \cup me.newItems : a.serial = s  BY DEF SerialsOf, me
<1>11. CASE a \in me.new
  <2>1. ModulesOf(me.new, s) = {a} /\ ItemsOf(me.newItems, s) = {}
    BY <1>7, <1>9, <1>10, <1>11 DEF ModulesOf, ItemsOf
  <2>2. BearersOf(me.new, me.newItems, s) = {<<a.device, a.id>>}  BY <2>1 DEF BearersOf
  <2> QED BY <1>6, <2>2 DEF me
<1>12. CASE a \in me.newItems
  <2>1. ModulesOf(me.new, s) = {} /\ ItemsOf(me.newItems, s) = {a}
    BY <1>8, <1>9, <1>10, <1>12 DEF ModulesOf, ItemsOf
  <2>2. BearersOf(me.new, me.newItems, s) = {<<None, a.id>>}  BY <2>1 DEF BearersOf
  <2> QED BY <1>6, <2>2 DEF me
<1> QED BY <1>10, <1>11, <1>12

\* What a commit makes of such a serial: a device has reported it, or it goes from
\* a device to a device, stays in the stock, or is stored with its device's end.
LEMMA LedgerAdded ==
  ASSUME Types, NEW p \in Procs, Commit(p), NEW s \in Serials,
         s \in SerialsOf(proc[p].new \cup proc[p].newItems)
  PROVE  s \in disputed' \/ Ledger!Undisputed(s) \/ Ledger!Report(s)
<1> DEFINE me == proc[p]
           old == BearersOf(modules, items, s)
           new == BearersOf(me.new, me.newItems, s)
<1>1. me \in PlanType /\ Shape(me) /\ Writes(me) /\ Knows(me, modules, items)
  BY DEF Types, PlanTyped
<1>2. /\ disputed' = (disputed \ Settled(me))
                      \cup (SerialsOf(me.new \cup me.newItems) \cap me.late) \cup Twice(me)
      /\ me.at = "ready" /\ present' = present \ me.gone
      /\ \A m \in me.new : m.device \in present
      /\ me.kind \in {"sync", "replace", "retire"} => me.device \in present
  BY DEF Commit, Constrained
<1> SUFFICES ASSUME s \notin disputed' PROVE Ledger!Undisputed(s) \/ Ledger!Report(s)
  OBVIOUS
<1>3. s \notin me.late /\ s \notin Twice(me) /\ s \notin disputed \ Settled(me)
  BY <1>2
<1>4. PICK row \in new : /\ Bearers'[s] = {row} /\ new = {row}
  BY <1>3, LedgerOneAdded, BearersAre
<1>5. Bearers[s] = old  BY BearersAre
<1>6. \A m \in ModulesOf(me.new, s) : m.device \in Devices
  BY <1>1 DEF PlanType, ModuleRows, ModulesOf
<1>7. \A m \in ModulesOf(modules, s) : m.device \in Devices
  BY DEF Types, RowsTyped, ModuleRows, ModulesOf
<1> HIDE DEF me
<1>8. s \in me.claims \ me.late  BY <1>1, <1>3 DEF Writes, me
<1>9. CASE me.kind \in {"sync", "replace"}
  <2>1. me.newItems = {} /\ \A m \in me.new : m.device = me.device
    BY <1>1, <1>9 DEF Shape, Writes
  <2>2. row[1] = me.device  BY <1>4, <2>1 DEF BearersOf, ModulesOf, ItemsOf
  <2>3. me.device \in present  BY <1>2, <1>9
  <2>4. row \in Bearers'[s]  BY <1>4
  <2> QED BY <1>4, <2>2, <2>3, <2>4 DEF Ledger!Report
<1>10. s \notin disputed \/ me.kind \in {"sync", "replace"}  BY <1>3 DEF Settled
<1>11. Ledger!AtMostOne(Bearers'[s])  BY <1>4 DEF Ledger!AtMostOne
<1>12. CASE me.kind = "module"
  <2>1. me.newItems = {} /\ me.outItems = {}  BY <1>1, <1>12 DEF Shape
  <2>2. ItemsOf(items, s) = {}  BY <1>1, <1>2, <1>8, <2>1 DEF Knows, ItemsOf
  <2>3. \A r \in old : r[1] \in Devices  BY <1>7, <2>2 DEF BearersOf
  <2>4. \A r \in new : r[1] \in Devices  BY <1>6, <2>1 DEF BearersOf, ItemsOf
  <2>5. \A r \in Bearers[s] \cup Bearers'[s] : r[1] \in Devices
    BY <1>4, <1>5, <2>3, <2>4
  <2>6. Ledger!Move(s)  BY <1>11, <2>5 DEF Ledger!Move
  <2> QED BY <1>10, <1>12, <2>6 DEF Ledger!Undisputed
<1>13. CASE me.kind \in {"item", "import"}
  <2>1. me.new = {} /\ me.out = {} /\ me.gone = {}  BY <1>1, <1>13 DEF Shape
  <2>2. ModulesOf(modules, s) = {}  BY <1>1, <1>2, <1>8, <2>1 DEF Knows, ModulesOf
  <2>3. \A r \in old : r[1] = None  BY <2>2 DEF BearersOf
  <2>4. \A r \in new : r[1] = None  BY <2>1 DEF BearersOf, ModulesOf
  <2>5. Ledger!At(None, Bearers[s] \cup Bearers'[s])
    BY <1>4, <1>5, <2>3, <2>4 DEF Ledger!At
  <2>6. Ledger!Move(s)  BY <1>11, <2>5 DEF Ledger!Move
  <2> QED BY <1>10, <1>13, <2>6 DEF Ledger!Undisputed
<1>14. CASE me.kind = "retire"
  <2>1. me.new = {} /\ me.out = {} /\ me.gone = {me.device}  BY <1>1, <1>14 DEF Shape
  <2>2. /\ \A m \in ModulesOf(modules, s) : m.device = me.device
        /\ ItemsOf(items, s) = {}
    BY <1>1, <1>2, <1>8, <1>14, <2>1 DEF Knows, ModulesOf, ItemsOf
  <2>3. \A r \in old : r[1] = me.device  BY <2>2 DEF BearersOf
  <2>4. \A r \in new : r[1] = None  BY <2>1 DEF BearersOf, ModulesOf
  <2>5. Ledger!At(me.device, Bearers[s]) /\ Ledger!At(None, Bearers'[s])
    BY <1>4, <1>5, <2>3, <2>4 DEF Ledger!At
  <2>6. me.device \in present \ present'  BY <1>2, <1>14, <2>1
  <2>7. Ledger!Store(s)  BY <1>11, <2>5, <2>6 DEF Ledger!Store
  <2> QED BY <1>10, <1>14, <2>7 DEF Ledger!Undisputed
<1>15. me.kind \in Kinds /\ me.kind # "none"  BY <1>1, <1>2 DEF PlanType, Shape, me
<1> QED BY <1>9, <1>12, <1>13, <1>14, <1>15 DEF Kinds

\* Every step is a step of the ledger.
LEMMA LedgerSteps ==
  ASSUME Types, [Next]_vars
  PROVE  Ledger!Next
<1>1. ASSUME modules' \subseteq modules, items' \subseteq items, disputed' = disputed
      PROVE  Ledger!Next
  BY <1>1, LedgerGivesUp
<1>2. CASE \E q \in Procs : Commit(q)
  <2> PICK q \in Procs : Commit(q)  BY <1>2
  <2> QED BY LedgerNotAdded, LedgerAdded DEF Ledger!Next
<1>3. \A q, plan : Looks(q, plan) \/ Plans(q, plan)
         => UNCHANGED <<modules, items, disputed>>
  BY DEF Looks, Plans, rows, history
<1> DEFINE Same == UNCHANGED <<modules, items, disputed>>
           Fewer == modules' \subseteq modules /\ items' \subseteq items /\ disputed' = disputed
<1>4. \A q, id, tag, s : SaveItem(q, id, tag, s) \/ AddItem(q, tag, s) => Same
  BY <1>3 DEF SaveItem, AddItem
<1>5. \A q, file : Import(q, file) => Same  BY <1>3 DEF Import
<1>6. \A q, m, d, s : EditModule(q, m, d, s) => Same  BY <1>3 DEF EditModule
<1>7. \A q, d, wanted : AddModules(q, d, wanted) => Same  BY <1>3 DEF AddModules
<1>8. \A q, d, f, g : Sync(q, d, f, g) \/ SyncNew(q, f, g) => Same  BY <1>3 DEF Sync, SyncNew
<1>9. \A q, d, kept, tag : Retire(q, d, kept, tag) => Same  BY <1>3 DEF Retire
<1>10. \A q : StoreAll(q) \/ Fails(q) => Same  BY <1>3 DEF StoreAll, Fails
<1>11. \A q, fails : Push(q, fails) \/ SkipSync(q, fails) => Same  BY <1>3 DEF Push, SkipSync
<1>12. \A x : AddDevice(x) \/ DeleteDevice(x) \/ DeleteModule(x) \/ DeleteItem(x) => Fewer
  BY DEF AddDevice, DeleteDevice, DeleteModule, DeleteItem, history
<1>13. \A q : DeleteOld(q) \/ DeleteNew(q) => Fewer
  BY DEF DeleteOld, DeleteNew, Delete, history
<1>14. \A q, old, new : Replace(q, old, new) => Same  BY DEF Replace
<1>15. UNCHANGED vars => Same  BY DEF vars
<1>16. Same => Fewer  OBVIOUS
<1> HIDE DEF Same
<1>17. Fewer \/ \E q \in Procs : Commit(q)
  BY <1>4, <1>5, <1>6, <1>7, <1>8, <1>9, <1>10, <1>11, <1>12, <1>13, <1>14, <1>15, <1>16
     DEF Next
<1> QED BY <1>1, <1>2, <1>17

\* In the beginning a serial has one bearer, or is in dispute.
LEMMA LedgerInit == Init => Ledger!Init
<1> SUFFICES ASSUME Init, NEW s \in Serials \ disputed PROVE Ledger!AtMostOne(Bearers[s])
  BY DEF Ledger!Init
<1>1. PICK d \in Devices, c \in Cards, a \in Serials, b \in Serials :
        /\ modules = {[id |-> 1, device |-> d, slot |-> c, serial |-> a]}
        /\ items = {[id |-> 1, tag |-> None, serial |-> b]}
        /\ disputed = {a} \cap {b}
  BY DEF Init
<1>2. Bearers[s] \subseteq {<<d, 1>>} \/ Bearers[s] \subseteq {<<None, 1>>}
  <2>1. Bearers[s] = BearersOf(modules, items, s)  BY BearersAre
  <2>2. s # a \/ s # b  BY <1>1
  <2>3. ModulesOf(modules, s) = {} \/ ItemsOf(items, s) = {}
    BY <1>1, <2>2 DEF ModulesOf, ItemsOf
  <2>4. \A m \in ModulesOf(modules, s) : m.device = d /\ m.id = 1  BY <1>1 DEF ModulesOf
  <2>5. \A i \in ItemsOf(items, s) : i.id = 1  BY <1>1 DEF ItemsOf
  <2> QED BY <2>1, <2>3, <2>4, <2>5 DEF BearersOf
<1> QED BY <1>2 DEF Ledger!AtMostOne

\* Whatever forms, files, retirements, replacements and synchronizations do, one
\* after the other or overlapping, the rows that bear a serial change as the ledger
\* says.
THEOREM CustodyImplementsLedger == Spec => ImplementsLedger
<1>1. Types /\ [Next]_vars => [Ledger!Next]_Ledger!ledger  BY LedgerSteps
<1> QED BY <1>1, LedgerInit, TypesInvariant, PTL DEF Spec, ImplementsLedger, Ledger!Spec

\* What the ledger is for: at any time a serial that is not in dispute has one row
\* at most, over both tables.
THEOREM OneBearerUnlessDisputed == Spec => []Ledger!OneBearer
<1>1. Ledger!Init => Ledger!OneBearer  BY DEF Ledger!Init, Ledger!OneBearer
<1>2. ASSUME Ledger!OneBearer, [Ledger!Next]_Ledger!ledger PROVE Ledger!OneBearer'
  <2>1. CASE UNCHANGED Ledger!ledger
    BY <1>2, <2>1 DEF Ledger!ledger, Ledger!OneBearer, Ledger!AtMostOne
  <2>2. CASE Ledger!Next
    <3> SUFFICES ASSUME NEW s \in Serials, s \notin disputed' PROVE Ledger!AtMostOne(Bearers'[s])
      BY DEF Ledger!OneBearer, Ledger!AtMostOne
    <3>1. Ledger!Undisputed(s) \/ Ledger!Report(s)  BY <2>2 DEF Ledger!Next
    <3>2. CASE Ledger!Report(s)  BY <3>2 DEF Ledger!Report, Ledger!AtMostOne
    <3>3. CASE Ledger!Undisputed(s)
      BY <1>2, <3>3 DEF Ledger!Undisputed, Ledger!Take, Ledger!GiveUp, Ledger!Move,
         Ledger!Store, Ledger!OneBearer, Ledger!AtMostOne
    <3> QED BY <3>1, <3>2, <3>3
  <2> QED BY <1>2, <2>1, <2>2
<1> QED BY <1>1, <1>2, CustodyImplementsLedger, PTL DEF ImplementsLedger, Ledger!Spec

==============================================================================
