---------------------------- MODULE SerialCustody ----------------------------
(***************************************************************************)
(* Which row bears a serial number.  A part is a module of a device or an  *)
(* item in stock; forms, the API, the Excel import, the retirement of a    *)
(* device and its replacement write these rows, and each synchronization   *)
(* rewrites those of its device and deletes every other row that has a     *)
(* serial number it read.                                                  *)
(*                                                                         *)
(* Every one of them looks at committed rows, validates, and writes later, *)
(* in one transaction: a process is idle or holds the plan of what it will *)
(* commit.  Only items have unique constraints.  Serial numbers are        *)
(* compared without case and a placeholder counts as none, so that Serials *)
(* are the numbers that are left.                                          *)
(***************************************************************************)
EXTENDS Integers, FiniteSets, SequencesExt

CONSTANTS
    Devices,
    Cards,          \* names that "show inventory" reports
    Optics,         \* "Transceiver ..." names, of NX-OS devices
    Serials, Tags,  \* serial and inventory numbers
    None,           \* no serial, no tag, no device
    Procs,          \* web processes and Celery workers
    Rows,           \* bound: primary keys; one that no row has is free again
    MaxWrites,      \* bound: requests and tasks that add or change rows
    MaxDeletes      \* bound: rows and devices that are simply deleted

ASSUME NoneAssumption == None \notin Devices \cup Serials \cup Tags
ASSUME SlotsAssumption == Cards \cap Optics = {}
ASSUME BoundsAssumption == 1 \in Rows /\ Rows \subseteq Nat \ {0}
    /\ MaxWrites \in Nat /\ MaxDeletes \in Nat
ASSUME FiniteAssumption == IsFiniteSet(Rows) /\ IsFiniteSet(Cards \cup Optics)

VARIABLES
    present,    \* devices that exist
    modules,    \* DeviceModule rows: id, device, slot (its name), serial
    items,      \* InventoryItem rows: id, tag (inventory number), serial
    proc,       \* proc[p]: the plan of the request or task process p is in
    writes, deletes,
    disputed,   \* history: serials that two writers overlapped on
    dropped,    \* history: devices an operator deleted or retired
    started     \* history: <<old, new>>, the replacements that were begun

vars == <<present, modules, items, proc, writes, deletes, disputed, dropped, started>>
rows == <<present, modules, items, deletes>>
history == <<disputed, dropped, started>>

Slots == Cards \cup Optics
ModuleRows == [id : Rows, device : Devices, slot : Slots, serial : Serials \cup {None}]
ItemRows == [id : Rows, tag : Tags \cup {None}, serial : Serials \cup {None}]

(* out, outItems: primary keys the plan deletes or updates; new, newItems:  *)
(* rows as they will be; gone: devices it deletes; claims: serials it found *)
(* free or reported; late: history, those another process committed since.  *)
Idle == [at |-> "idle", kind |-> "none", device |-> None, old |-> None,
         out |-> {}, new |-> {}, outItems |-> {}, newItems |-> {}, gone |-> {},
         claims |-> {}, late |-> {}, chosen |-> {}]

Stages == {"idle", "chosen", "ready", "saved", "pushed", "synced", "abandon"}

\* Every row's device exists: a foreign key that deletes with it.
TypeOK ==
    /\ present \subseteq Devices
    /\ modules \subseteq ModuleRows /\ items \subseteq ItemRows
    /\ \A m \in modules : m.device \in present
    /\ \A m, n \in modules : m.id = n.id => m = n
    /\ \A i, j \in items : i.id = j.id => i = j
    /\ \A p \in Procs :
         /\ proc[p].at \in Stages
         /\ proc[p].new \subseteq ModuleRows /\ proc[p].newItems \subseteq ItemRows
         /\ proc[p].late \subseteq proc[p].claims /\ proc[p].claims \subseteq Serials
    /\ writes \in 0..MaxWrites /\ deletes \in 0..MaxDeletes
    /\ disputed \subseteq Serials /\ dropped \subseteq Devices
    /\ started \subseteq Devices \X Devices

\* A device with one card, and one item in stock: another part, or the same
\* one, which an import and a form have each found free.
Init ==
    /\ \E d \in Devices, c \in Cards, s, t \in Serials :
         /\ present = {d}
         /\ modules = {[id |-> 1, device |-> d, slot |-> c, serial |-> s]}
         /\ items = {[id |-> 1, tag |-> None, serial |-> t]}
         /\ disputed = {s} \cap {t}
    /\ proc = [p \in Procs |-> Idle]
    /\ writes = 0 /\ deletes = 0
    /\ dropped = {} /\ started = {}

-----------------------------------------------------------------------------
(* Rows and plans                                                           *)

SerialsOf(set) == {row.serial : row \in set} \ {None}
Ids(set) == {row.id : row \in set}

FreeRows == Rows \ (Ids(modules) \cup UNION {proc[p].out \cup Ids(proc[p].new) : p \in Procs})
FreeItems ==
    Rows \ (Ids(items) \cup UNION {proc[p].outItems \cup Ids(proc[p].newItems) : p \in Procs})

\* Primary keys for new rows, one for each element of set.
Enough(set, free) == Cardinality(set) <= Cardinality(free)
Fresh(set, free) ==
    IF ~Enough(set, free) THEN [a \in set |-> 0]
    ELSE CHOOSE f \in [set -> free] : \A a, b \in set : f[a] = f[b] => a = b

Plans(p, plan) ==
    /\ proc' = [proc EXCEPT ![p] = plan]
    /\ UNCHANGED <<rows, history>>

MayLook(p) == proc[p].at = "idle" /\ writes < MaxWrites

Looks(p, plan) ==
    /\ MayLook(p) /\ writes' = writes + 1
    /\ Plans(p, plan)

-----------------------------------------------------------------------------
(* What users send and devices report                                       *)

Partial(names) ==
    UNION {[set -> Serials \cup {None}] : set \in SUBSET names}
Once(f) == \A a, b \in DOMAIN f : f[a] = f[b] /\ f[a] # None => a = b

\* A form brings one module, or two of one serial number; a file one line or two.
Forms == {<<row>> : row \in Slots \X (Serials \cup {None})}
         \cup {<<<<a, s>>, <<b, s>>>> : a, b \in Slots, s \in Serials}
Lines == {l \in [tag : Tags \cup {None}, serial : Serials \cup {None}] :
            l.tag # None \/ l.serial # None}
Files == {<<l>> : l \in Lines} \cup (Lines \X Lines)
Reports == [inventory : {f \in Partial(Cards) : Once(f)},
            optics : {f \in Partial(Optics) : Once(f)}]

-----------------------------------------------------------------------------
(* Modules: the device's page in the admin, the module's page and the API   *)

\* Regression: the stock is not looked at.
FreeOfModules(s, id) == s = None \/ ~\E m \in modules : m.serial = s /\ m.id # id

\* validate_device_module_serial_uniqueness
FreeForModule(s, id) ==
    s = None \/ ( /\ ~\E m \in modules : m.serial = s /\ m.id # id
                  /\ ~\E i \in items : i.serial = s )

\* Rows of one form are each validated, against what the database has.
AddModules(p, d, wanted) ==
    LET id == Fresh(DOMAIN wanted, FreeRows)
        new == {[id |-> id[k], device |-> d, slot |-> wanted[k][1], serial |-> wanted[k][2]] :
                  k \in DOMAIN wanted} IN
    /\ d \in present /\ Enough(DOMAIN wanted, FreeRows)
    /\ \A k \in DOMAIN wanted : FreeForModule(wanted[k][2], 0)
    /\ Looks(p, [Idle EXCEPT !.at = "ready", !.kind = "module", !.new = new,
                    !.claims = SerialsOf(new)])

\* The row is saved as a whole, and inserted again if it is gone.
EditModule(p, m, d, s) ==
    LET new == [id |-> m.id, device |-> d, slot |-> m.slot, serial |-> s] IN
    /\ d \in present
    /\ FreeForModule(s, m.id)
    /\ Looks(p, [Idle EXCEPT !.at = "ready", !.kind = "module", !.out = {m.id},
                    !.new = {new}, !.claims = {s} \ {None}])

-----------------------------------------------------------------------------
(* Items: the forms of the stock, and the Excel import                      *)

\* validate_inventory_item_serial_uniqueness and the unique fields
FreeForItem(stock, row) ==
    /\ row.serial # None =>
         /\ ~\E m \in modules : m.serial = row.serial
         /\ ~\E i \in stock : i.serial = row.serial /\ i.id # row.id
    /\ row.tag # None => ~\E i \in stock : i.tag = row.tag /\ i.id # row.id

SaveItem(p, id, tag, s) ==
    LET row == [id |-> id, tag |-> tag, serial |-> s] IN
    /\ FreeForItem(items, row)
    /\ Looks(p, [Idle EXCEPT !.at = "ready", !.kind = "item", !.outItems = {id},
                    !.newItems = {row}, !.claims = {s} \ {None}])

AddItem(p, tag, s) == \E id \in FreeItems :
    /\ id = Fresh({p}, FreeItems)[p]
    /\ SaveItem(p, id, tag, s)

\* Regression: a serial may appear twice in the file.
TagOnceInFile(acc, line) == ~(line.tag # None /\ line.tag \in acc.tags)

OnceInFile(acc, line) ==
    /\ ~(line.tag # None /\ line.tag \in acc.tags)
    /\ ~(line.serial # None /\ line.serial \in acc.serials)

\* The item a line of the file is about: found by its tag, or else by its
\* serial; two different items are an error.
Matches(stock, line) ==
    {i \in stock : \/ i.tag = line.tag /\ line.tag # None
                   \/ i.serial = line.serial /\ line.serial # None}

ImportLine(acc, line) ==
    LET found == Matches(acc.stock, line)
        id == IF found = {} THEN CHOOSE n \in acc.free : TRUE ELSE CHOOSE n \in Ids(found) : TRUE
        row == [id |-> id, tag |-> line.tag, serial |-> line.serial] IN
    IF ~OnceInFile(acc, line) \/ Cardinality(found) > 1 \/ (found = {} /\ acc.free = {})
    THEN [acc EXCEPT !.ok = FALSE]
    ELSE [ok |-> acc.ok /\ FreeForItem(acc.stock, row),
          stock |-> {i \in acc.stock : i.id # id} \cup {row},
          free |-> acc.free \ {id}, saved |-> acc.saved \cup {id},
          tags |-> acc.tags \cup {line.tag}, serials |-> acc.serials \cup {line.serial}]

\* Each line is validated after those before it were saved; one error, and
\* nothing is imported.
Import(p, file) ==
    LET first == ImportLine([ok |-> TRUE, stock |-> items, free |-> FreeItems,
                             saved |-> {}, tags |-> {}, serials |-> {}], file[1])
        end == IF Len(file) = 1 THEN first ELSE ImportLine(first, file[2])
        new == {i \in end.stock : i.id \in end.saved} IN
    /\ end.ok
    /\ Looks(p, [Idle EXCEPT !.at = "ready", !.kind = "import", !.outItems = Ids(new),
                    !.newItems = new, !.chosen = ToSet(file),
                    !.claims = SerialsOf(ToSet(file))])

-----------------------------------------------------------------------------
(* Synchronization of a device                                              *)

\* Every other row that has the serial number is deleted.
Reconcile(d, slot, s) ==
    [out |-> Ids({m \in modules : m.serial = s /\ ~(m.device = d /\ m.slot = slot)}),
     items |-> Ids({i \in items : i.serial = s})]

\* inventory, optics: what the device reports in its slots, a serial or None.
\* A serial that both report is the transceiver's, which comes later.
SyncPlan(d, inventory, optics) ==
    LET cards == {c \in DOMAIN inventory : inventory[c] # None}
        named == [slot \in cards \cup DOMAIN optics |->
                    IF slot \in cards THEN inventory[slot] ELSE optics[slot]]
        claims == {named[slot] : slot \in DOMAIN named} \ {None}
        settled == {slot \in DOMAIN named : slot \in cards =>
                      ~\E o \in DOMAIN optics : optics[o] = named[slot]}
        reconciled == {Reconcile(d, slot, named[slot]) :
                         slot \in {t \in DOMAIN named : named[t] # None}}
        deleted == UNION {r.out : r \in reconciled}
        mine == {m \in modules : m.device = d /\ m.id \notin deleted}
        stale == {m \in mine :
                    \/ /\ cards # {} /\ m.slot \in Cards /\ m.serial # None
                       /\ ~(m.slot \in cards /\ inventory[m.slot] = m.serial)
                    \/ m.serial = None /\ m.slot \in DOMAIN inventory \ cards
                    \/ optics # <<>> /\ m.slot \in Optics \ DOMAIN optics}
        at(slot) == {m \in mine \ stale : m.slot = slot
                                          /\ (slot \in cards => m.serial = named[slot])}
        added == {slot \in settled : at(slot) = {}}
        id == Fresh(added, FreeRows) IN
    [single |-> \A slot \in settled : Cardinality(at(slot)) <= 1,
     fits |-> Enough(added, FreeRows),
     plan |-> [Idle EXCEPT
        !.at = "ready", !.device = d, !.claims = claims,
        !.out = deleted \cup Ids(stale) \cup UNION {Ids(at(slot)) : slot \in settled},
        !.outItems = UNION {r.items : r \in reconciled},
        !.new = {[id |-> IF slot \in added THEN id[slot] ELSE CHOOSE n \in Ids(at(slot)) : TRUE,
                  device |-> d, slot |-> slot, serial |-> named[slot]] : slot \in settled}]]

\* One that finds two rows for one slot raises, and nothing is written.
Sync(p, d, inventory, optics) ==
    LET result == SyncPlan(d, inventory, optics) IN
    /\ d \in present /\ result.single /\ result.fits
    /\ Looks(p, [result.plan EXCEPT !.kind = "sync"])

-----------------------------------------------------------------------------
(* A device is retired: its chassis and modules go to the stock, or not     *)

\* What the page offers: the chassis, as row 0, whose serial number is what the
\* device's version last showed and nothing validates, and the modules.
Sources(d, chassis) ==
    {[id |-> 0, serial |-> chassis]}
    \cup {[id |-> m.id, serial |-> m.serial] : m \in {n \in modules : n.device = d}}

\* kept: the rows to be stored; tag: what the operator entered for each.
Retire(p, d, kept, tag) ==
    LET stored == {[id |-> r.id, tag |-> tag[r], serial |-> r.serial] : r \in kept} IN
    /\ d \in present
    /\ \A a, b \in stored : a # b => /\ a.tag # b.tag \/ a.tag = None
                                     /\ a.serial # b.serial \/ a.serial = None
    /\ Looks(p, [Idle EXCEPT !.at = "chosen", !.kind = "retire", !.device = d,
                    !.gone = {d}, !.chosen = stored])

\* Regression: an item that is refused is left out.
StoreValid(p) ==
    LET me == proc[p]
        free(r) == /\ ~\E m \in modules : m.serial = r.serial /\ r.serial # None
                                          /\ m.device # me.device
                   /\ ~\E i \in items : \/ i.serial = r.serial /\ r.serial # None
                                        \/ i.tag = r.tag /\ r.tag # None
        kept == {r \in me.chosen : free(r)}
        id == Fresh(kept, FreeItems)
        new == {[id |-> id[r], tag |-> r.tag, serial |-> r.serial] : r \in kept} IN
    /\ me.at = "chosen" /\ Enough(kept, FreeItems)
    /\ Plans(p, [me EXCEPT !.at = "ready", !.newItems = new, !.outItems = Ids(new),
                    !.claims = SerialsOf(new)])
    /\ UNCHANGED writes

\* In the transaction: the device and its modules are deleted, each item is
\* validated after those before it, and one that is refused undoes all.
StoreAll(p) ==
    LET me == proc[p]
        free(r) == /\ ~\E m \in modules : m.serial = r.serial /\ r.serial # None
                                          /\ m.device # me.device
                   /\ ~\E i \in items : \/ i.serial = r.serial /\ r.serial # None
                                        \/ i.tag = r.tag /\ r.tag # None
        id == Fresh(me.chosen, FreeItems)
        new == {[id |-> id[r], tag |-> r.tag, serial |-> r.serial] : r \in me.chosen}
        refused == \E r \in me.chosen : ~free(r) IN
    /\ me.at = "chosen" /\ Enough(me.chosen, FreeItems)
    /\ Plans(p, IF refused THEN Idle
                ELSE [me EXCEPT !.at = "ready", !.newItems = new, !.outItems = Ids(new),
                         !.claims = SerialsOf(new)])
    /\ UNCHANGED writes

-----------------------------------------------------------------------------
(* A device is replaced: not one transaction                                *)

\* Devices that were part of a replacement.
Connected == UNION {{s[1], s[2]} : s \in started}

\* The new device is saved before anything is known of it.
Replace(p, old, new) ==
    /\ MayLook(p) /\ writes' = writes + 1
    /\ old \in present /\ new \notin present \cup dropped \cup Connected
    /\ present' = present \cup {new}
    /\ proc' = [proc EXCEPT ![p] = [Idle EXCEPT !.at = "saved", !.kind = "replace",
                                                !.device = new, !.old = old]]
    /\ started' = started \cup {<<old, new>>}
    /\ UNCHANGED <<modules, items, deletes, disputed, dropped>>

\* The old configuration is pushed if there is one.
Push(p, fails) ==
    /\ proc[p].at = "saved"
    /\ Plans(p, [proc[p] EXCEPT !.at = IF fails THEN "abandon" ELSE "pushed"])
    /\ UNCHANGED writes

\* The synchronization is skipped for a tag, or the device did not answer.
SkipSync(p, fails) ==
    /\ proc[p].at = "pushed"
    /\ Plans(p, [proc[p] EXCEPT !.at = IF fails THEN "abandon" ELSE "synced"])
    /\ UNCHANGED writes

SyncNew(p, inventory, optics) ==
    LET me == proc[p]
        result == SyncPlan(me.device, inventory, optics) IN
    /\ me.at = "pushed" /\ me.device \in present /\ result.single /\ result.fits
    /\ Plans(p, [result.plan EXCEPT !.kind = "replace", !.old = me.old])
    /\ UNCHANGED writes

\* Regression: the modules of a deleted device stay.
DeleteAlone(p, d) ==
    /\ present' = present \ {d}
    /\ proc' = [proc EXCEPT ![p] = Idle]
    /\ UNCHANGED <<modules, items, writes, deletes, history>>

Delete(p, d) ==
    /\ present' = present \ {d}
    /\ modules' = {m \in modules : m.device # d}
    /\ proc' = [proc EXCEPT ![p] = Idle]
    /\ UNCHANGED <<items, writes, deletes, history>>

\* Regression: the old device is deleted before the new one is synchronized.
DeleteOldFirst(p) ==
    \/ /\ proc[p].at = "pushed" /\ proc[p].old \in present
       /\ present' = present \ {proc[p].old}
       /\ modules' = {m \in modules : m.device # proc[p].old}
       /\ UNCHANGED <<items, proc, writes, deletes, history>>
    \/ proc[p].at = "synced" /\ Delete(p, proc[p].old)

DeleteOld(p) == proc[p].at = "synced" /\ Delete(p, proc[p].old)
DeleteNew(p) == proc[p].at = "abandon" /\ Delete(p, proc[p].device)

-----------------------------------------------------------------------------
(* Transactions                                                             *)

Settled(me) == IF me.kind \in {"sync", "replace"} THEN me.claims \ me.late ELSE {}
Twice(me) == {s \in Serials : \E a, b \in me.new : a # b /\ a.serial = s /\ b.serial = s}

\* Foreign keys and unique fields hold, or else it does not commit.
Constrained(me, stock) ==
    /\ \A m \in me.new : m.device \in present
    /\ me.kind \in {"sync", "replace", "retire"} => me.device \in present
    /\ \A i, j \in stock : i # j => /\ i.serial # j.serial \/ i.serial = None
                                    /\ i.tag # j.tag \/ i.tag = None

Commit(p) ==
    LET me == proc[p]
        stock == {i \in items : i.id \notin me.outItems} \cup me.newItems
        added == SerialsOf(me.new \cup me.newItems) IN
    /\ me.at = "ready" /\ Constrained(me, stock)
    /\ present' = present \ me.gone
    /\ modules' = {m \in modules : m.id \notin me.out /\ m.device \notin me.gone} \cup me.new
    /\ items' = stock
    /\ proc' = [q \in Procs |->
                  IF q # p THEN [proc[q] EXCEPT !.late = @ \cup (added \cap proc[q].claims)]
                  ELSE IF me.kind = "replace"
                       THEN [Idle EXCEPT !.at = "synced", !.kind = "replace",
                                         !.device = me.device, !.old = me.old]
                       ELSE Idle]
    /\ disputed' = (disputed \ Settled(me)) \cup (added \cap me.late) \cup Twice(me)
    /\ dropped' = dropped \cup me.gone
    /\ UNCHANGED <<writes, deletes, started>>

\* A constraint does not hold.  A statement that raises and a process that is
\* killed undo one transaction, as if it had not started; of a replacement,
\* what was committed stays.
Fails(p) ==
    LET me == proc[p]
        stock == {i \in items : i.id \notin me.outItems} \cup me.newItems IN
    /\ me.at # "idle"
    /\ me.kind = "replace" \/ (me.at = "ready" /\ ~Constrained(me, stock))
    /\ Plans(p, Idle)
    /\ UNCHANGED writes

-----------------------------------------------------------------------------
(* Deletions, and new devices: one statement or one transaction each        *)

Deletes == deletes < MaxDeletes /\ deletes' = deletes + 1

DeleteModule(m) ==
    /\ Deletes /\ modules' = modules \ {m}
    /\ UNCHANGED <<present, items, proc, writes, history>>

DeleteItem(i) ==
    /\ Deletes /\ items' = items \ {i}
    /\ UNCHANGED <<present, modules, proc, writes, history>>

DeleteDevice(d) ==
    /\ Deletes /\ d \in present
    /\ present' = present \ {d} /\ dropped' = dropped \cup {d}
    /\ modules' = {m \in modules : m.device # d}
    /\ UNCHANGED <<items, proc, writes, disputed, started>>

AddDevice(d) ==
    /\ d \notin present \cup dropped \cup Connected
    /\ present' = present \cup {d}
    /\ UNCHANGED <<modules, items, proc, writes, deletes, history>>

Next ==
    \/ \E d \in Devices : AddDevice(d) \/ DeleteDevice(d)
    \/ \E m \in modules : DeleteModule(m)
    \/ \E i \in items : DeleteItem(i)
    \/ \E p \in Procs :
         \/ Commit(p) \/ Fails(p) \/ StoreAll(p) \/ DeleteOld(p) \/ DeleteNew(p)
         \/ \E fails \in BOOLEAN : Push(p, fails) \/ SkipSync(p, fails)
         \/ \E r \in Reports : SyncNew(p, r.inventory, r.optics)
    \/ \E p \in {q \in Procs : MayLook(q)} :
         \/ \E line \in Lines : \/ AddItem(p, line.tag, line.serial)
                               \/ \E i \in items : SaveItem(p, i.id, line.tag, line.serial)
         \/ \E file \in Files : Import(p, file)
         \/ \E m \in modules, d \in Devices, s \in Serials \cup {None} : EditModule(p, m, d, s)
         \/ \E d \in Devices :
              \/ \E wanted \in Forms : AddModules(p, d, wanted)
              \/ \E r \in Reports : Sync(p, d, r.inventory, r.optics)
              \/ \E old \in Devices : Replace(p, old, d)
              \/ \E chassis \in Serials \cup {None} : \E kept \in SUBSET Sources(d, chassis) :
                   \E tag \in [kept -> Tags \cup {None}] : Retire(p, d, kept, tag)

Spec == Init /\ [][Next]_vars

-----------------------------------------------------------------------------
Bearers == [s \in Serials |-> {<<m.device, m.id>> : m \in {n \in modules : n.serial = s}}
                              \cup {<<None, i.id>> : i \in {j \in items : j.serial = s}}]

Ledger == INSTANCE PartLedger
            WITH Stock <- None, bearers <- Bearers, devices <- present

(* "Serial number already exists on production module"                      *)
(* (services/validation_service.py:62): whatever the order of forms, files, *)
(* retirements and synchronizations, and whichever of them fail, a serial   *)
(* has one row until two of them overlap on it, changes hands only as the   *)
(* ledger allows, and has one row again after an undisturbed                *)
(* synchronization of the device that reports it.                           *)
ImplementsLedger == Ledger!Spec

(* A retirement that commits removes the device and has every part that the *)
(* operator chose in stock, with its serial and its new tag; one that does  *)
(* not commit removes nothing.                                              *)
RetireKeepsChosen ==
    [][\A p \in Procs :
         proc[p].kind = "retire" /\ proc'[p].at = "idle" /\ present' # present =>
            /\ proc[p].device \notin present'
            /\ \A r \in proc[p].chosen :
                  \E i \in items' : i.tag = r.tag /\ i.serial = r.serial]_vars

(* An import that commits has every line of the file in stock afterwards:   *)
(* no line overwrites what an earlier one wrote.                            *)
ImportTakesEveryLine ==
    [][\A p \in Procs :
         proc[p].kind = "import" /\ proc'[p].at = "idle" /\ items' # items =>
            \A line \in proc[p].chosen :
               \E i \in items' : i.tag = line.tag /\ i.serial = line.serial]_vars

(* However replacements end, and wherever their processes are killed, of the *)
(* devices that they connect one is there, unless an operator deleted one:  *)
(* a device may be replaced while its own replacement of another is under   *)
(* way, and each of the two deletes the old or the new one.                 *)
ClosedUnder(set, pairs) == \A s \in pairs : s[1] \in set <=> s[2] \in set
ReplacementKeepsOne ==
    \A set \in (SUBSET Connected) \ {{}} :
        ClosedUnder(set, started) /\ set \cap dropped = {} => set \cap present # {}
=============================================================================
