--------------------------- MODULE RackOccupancy ---------------------------
(***************************************************************************)
(* Where devices are mounted, and the list of occupied units that each     *)
(* rack caches.  Device.save and Device.delete write the device, and then  *)
(* recompute the list of every rack concerned: a query of the devices, and *)
(* an UPDATE of the rack.  Forms check a position before they save; the    *)
(* auto-assignment picks one that the cached list has free.                *)
(*                                                                         *)
(* PostgreSQL at READ COMMITTED: a statement sees what is committed when   *)
(* it starts and what its own transaction wrote, and an UPDATE waits for   *)
(* the transaction that holds the row.  A page of the admin, a discovery   *)
(* candidate's page, an auto-assignment and a synchronization are one      *)
(* transaction each; other requests commit every statement.                *)
(*                                                                         *)
(* A device's size is u_height times the stack members, which count only   *)
(* if is_stacked is set: the one field that saving a device and a          *)
(* synchronization both write.                                             *)
(***************************************************************************)
EXTENDS Naturals

CONSTANTS
    Devices, Racks,
    None,           \* no rack: a device that is not mounted; no device
    Height,         \* u_height of every rack
    Sizes,          \* units a device can take
    Heights,        \* those of the device types a form offers
    Writers,        \* web processes and Celery workers
    MaxWrites,      \* bound: requests and tasks that write a device
    MaxFaults       \* bound: statements that raise, processes that are killed

ASSUME NoneAssumption == None \notin Racks \cup Devices
ASSUME SizesAssumption ==
    Height \in Nat \ {0} /\ Sizes \subseteq Nat \ {0} /\ Heights \subseteq Sizes
ASSUME BoundsAssumption == MaxWrites \in Nat /\ MaxFaults \in Nat

VARIABLES
    placed,     \* committed Device rows: rack, position (0 for null) and size
    occupied,   \* occupied_units of each rack, as committed
    writer,     \* writer[w]: the request or task process w is in
    writes, faults,
    alone,      \* history: the writer that no other one overlaps
    exact,      \* history: racks last written by a writer that was alone
    raced       \* history: racks a device came to beside another, or unchecked

vars == <<placed, occupied, writer, writes, faults, alone, exact, raced>>

Positions == 0..Height
NoDevice == [rack |-> None, at |-> 0, size |-> 0]
Rows == [rack : Racks \cup {None}, at : Positions, size : Sizes]
Exists(d) == placed[d] # NoDevice

(* kind: which code writes; goal: the row as loaded or sent by the user;    *)
(* todo: racks to recompute; again: and then once more; units: the list     *)
(* about to be written to rack; pending: racks updated in an open           *)
(* transaction; touched: history, racks the device left or came to.         *)
Idle == [at |-> "idle", kind |-> "save", tx |-> FALSE, device |-> None,
         goal |-> NoDevice, todo |-> {}, again |-> {}, rack |-> None, units |-> {},
         pending |-> [r \in {} |-> {}], touched |-> {}]
\* lists, with those of newer in their place
Overlay(newer, lists) == [r \in DOMAIN newer \cup DOMAIN lists |->
                            IF r \in DOMAIN newer THEN newer[r] ELSE lists[r]]
Units(rows, r) ==
    UNION {rows[d].at .. (rows[d].at + rows[d].size - 1) :
             d \in {e \in Devices : rows[e].rack = r /\ rows[e].at # 0}}

TypeOK ==
    /\ placed \in [Devices -> Rows \cup {NoDevice}]
    /\ occupied \in [Racks -> SUBSET Nat]
    /\ \A w \in Writers :
         /\ writer[w].at \in {"idle", "chosen", "ready", "todo", "update"}
         /\ writer[w].kind \in {"save", "api", "assign", "resize", "delete"}
         /\ writer[w].goal \in Rows \cup {NoDevice}
         /\ writer[w].todo \cup writer[w].again \cup writer[w].touched \subseteq Racks
         /\ writer[w].at = "update" => writer[w].rack \in Racks
         /\ DOMAIN writer[w].pending \subseteq Racks
    /\ writes \in 0..MaxWrites /\ faults \in 0..MaxFaults
    /\ alone \subseteq Writers
    /\ exact \subseteq Racks /\ raced \subseteq Racks

\* One device is mounted already.
Init ==
    /\ \E d \in Devices, r \in Racks, size \in Heights :
         placed = [e \in Devices |->
                     IF e = d THEN [rack |-> r, at |-> 1, size |-> size] ELSE NoDevice]
    /\ occupied = [r \in Racks |-> Units(placed, r)]
    /\ writer = [w \in Writers |-> Idle]
    /\ writes = 0 /\ faults = 0
    /\ alone = {} /\ exact = Racks /\ raced = {}

-----------------------------------------------------------------------------
(* Locks and snapshots                                                      *)

InTx(w) == writer[w].tx /\ writer[w].at \in {"todo", "update"}
\* What a statement of w sees of the devices.
Seen(w) == IF InTx(w) THEN [placed EXCEPT ![writer[w].device] = writer[w].goal] ELSE placed
DeviceLocked(w) ==
    \E v \in Writers \ {w} : InTx(v) /\ writer[v].device = writer[w].device
WaitsFor(w, v) == /\ w # v /\ writer[w].at = "update"
                  /\ InTx(v) /\ writer[w].rack \in DOMAIN writer[v].pending
RackLocked(w) == \E v \in Writers : WaitsFor(w, v)

\* The writer that starts is alone if nobody else is writing.
Starts(w, new) ==
    /\ writer[w].at = "idle"
    /\ writes < MaxWrites /\ writes' = writes + 1
    /\ writer' = [writer EXCEPT ![w] = new]
    /\ alone' = IF \A v \in Writers : writer[v].at = "idle" THEN {w} ELSE {}
    /\ UNCHANGED <<placed, occupied, faults, exact, raced>>

Goes(w, new) == writer' = [writer EXCEPT ![w] = new] /\ UNCHANGED <<writes, alone>>

-----------------------------------------------------------------------------
(* The requests and tasks, up to the row they are going to write            *)

InRack(r) == {r} \ {None}

\* Regression: moving a device does not check the position.
ValidateOnlyNew(d, row) ==
    row.rack # None /\ row.at # 0 /\ ~Exists(d) =>
        ~\E e \in Devices \ {d} : placed[e].rack = row.rack /\ placed[e].at = row.at

\* Device.clean: no other device has exactly this position.
Validate(d, row) ==
    row.rack # None /\ row.at # 0 =>
        ~\E e \in Devices \ {d} : placed[e].rack = row.rack /\ placed[e].at = row.at

\* The admin adds or changes a device, a candidate's page adds one.
SubmitForm(w, d, row) ==
    /\ row.rack = None => row.at = 0
    /\ row.size \in Heights \cup {placed[d].size}
    /\ Validate(d, row)
    /\ Starts(w, [Idle EXCEPT !.at = "chosen", !.tx = TRUE, !.device = d, !.goal = row])

\* The API creates a device, or moves one whose position stays as loaded; a
\* replacement is created like this too.  Positions are not looked at.
SaveUnchecked(w, d, r) ==
    \E row \in IF Exists(d) THEN {[placed[d] EXCEPT !.rack = r]}
               ELSE {[rack |-> r, at |-> 0, size |-> n] : n \in Heights} :
        Starts(w, [Idle EXCEPT !.at = "chosen", !.kind = "api", !.device = d, !.goal = row])

\* Regression: the unit that the device reports is taken as it is.
SelectRequested(r, requested, size) == {requested} \ {0}

\* _select_position: the unit that the device reports, if it is given and
\* free, or else any place in the rack.
Select(r, requested, size) ==
    LET free == {at \in Positions \ {0} : at .. (at + size - 1) \cap occupied[r] = {}} IN
    IF requested \in free THEN {requested} ELSE {at \in free : at + size - 1 <= Height}

\* Size is one unit per stack member: the device type is not known yet.  The
\* rack is recomputed again once the members are written.
AutoAssign(w, d, r, requested, size) ==
    /\ ~Exists(d)
    /\ \E at \in Select(r, requested, size), again \in {{}, {r}} :
         /\ size > 1 => again = {r}
         /\ Starts(w, [Idle EXCEPT !.at = "chosen", !.kind = "assign", !.tx = TRUE, !.device = d,
                          !.goal = [rack |-> r, at |-> at, size |-> size], !.again = again])

\* _apply_stack_members: is_stacked is saved, and the rack recomputed again.
SyncResizes(w, d, size) ==
    /\ Exists(d) /\ placed[d].size # size
    /\ Starts(w, [Idle EXCEPT !.at = "chosen", !.kind = "resize", !.tx = TRUE, !.device = d,
                     !.goal = [placed[d] EXCEPT !.size = size], !.again = InRack(placed[d].rack)])

\* Regression: a device that is not mounted has a list to recompute too.
DeleteAnywhere(w, d, tx) ==
    /\ Exists(d)
    /\ Starts(w, [Idle EXCEPT !.at = "ready", !.kind = "delete", !.tx = tx, !.device = d,
                     !.todo = {placed[d].rack}])

\* Device.delete on the device as loaded: the admin and the move to storage
\* are one transaction, the API and the decommissioning page are not.
DeleteDevice(w, d, tx) ==
    /\ Exists(d)
    /\ Starts(w, [Idle EXCEPT !.at = "ready", !.kind = "delete", !.tx = tx, !.device = d,
                     !.todo = InRack(placed[d].rack)])

-----------------------------------------------------------------------------
(* Device.save, Device.delete, update_rack_occupied_units                   *)

\* Regression: the previous rack is read after the device was written.
ReadNoPrevious(w) ==
    /\ writer[w].at = "chosen"
    /\ Goes(w, [writer[w] EXCEPT !.at = "ready", !.todo = InRack(writer[w].goal.rack)])
    /\ UNCHANGED <<placed, occupied, faults, exact, raced>>

ReadPrevious(w) ==
    LET previous == placed[writer[w].device].rack IN
    /\ writer[w].at = "chosen"
    /\ Goes(w, [writer[w] EXCEPT !.at = "ready",
                    !.todo = {previous, writer[w].goal.rack} \ {None}])
    /\ UNCHANGED <<placed, occupied, faults, exact, raced>>

\* History: a position became visible that was chosen beside another
\* writer, without a check, or from a list that was not exact.
Raced(w, row) ==
    IF \/ row.at = 0 \/ row.rack = None \/ writer[w].kind = "resize"
       \/ /\ w \in alone /\ writer[w].kind # "api"
          /\ writer[w].kind = "assign" => row.rack \in exact
    THEN raced ELSE raced \cup {row.rack}

\* The whole row is written, and inserted again if it is gone; is_stacked is
\* saved alone, which raises if the row is gone.
WriteRow(w) ==
    LET d == writer[w].device
        row == CASE writer[w].kind = "delete" -> NoDevice
                 [] writer[w].kind = "resize" -> [placed[d] EXCEPT !.size = writer[w].goal.size]
                 [] OTHER -> writer[w].goal
        touched == {placed[d].rack, row.rack} \ {None} IN
    /\ writer[w].at = "ready" /\ ~DeviceLocked(w)
    /\ writer[w].kind = "resize" => Exists(d)
    /\ IF writer[w].tx
       THEN /\ Goes(w, [writer[w] EXCEPT !.at = "todo", !.goal = row, !.touched = touched])
            /\ UNCHANGED <<placed, raced>>
       ELSE /\ Goes(w, [Idle EXCEPT !.at = "todo", !.todo = writer[w].todo, !.touched = touched])
            /\ placed' = [placed EXCEPT ![d] = row] /\ raced' = Raced(w, row)
    /\ UNCHANGED <<occupied, faults, exact>>

Recompute(w, r) ==
    /\ writer[w].at = "todo" /\ r \in writer[w].todo
    /\ Goes(w, [writer[w] EXCEPT !.at = "update", !.rack = r, !.units = Units(Seen(w), r),
                    !.todo = @ \ {r}])
    /\ UNCHANGED <<placed, occupied, faults, exact, raced>>

UpdateRack(w) ==
    LET me == writer[w]
        list == [r \in {me.rack} |-> me.units] IN
    /\ me.at = "update" /\ ~RackLocked(w)
    /\ Goes(w, [me EXCEPT !.at = "todo", !.rack = None, !.units = {},
                    !.todo = IF me.todo = {} THEN me.again ELSE @,
                    !.again = IF me.todo = {} THEN {} ELSE @,
                    !.pending = IF me.tx THEN Overlay(list, @) ELSE @])
    /\ occupied' = IF me.tx THEN occupied ELSE [occupied EXCEPT ![me.rack] = me.units]
    /\ UNCHANGED <<placed, faults, exact, raced>>

\* History: afterwards the racks of a writer that was alone are exact.
Finish(w) ==
    LET me == writer[w] IN
    /\ me.at = "todo" /\ me.todo = {}
    /\ placed' = Seen(w)
    /\ occupied' = Overlay(me.pending, occupied)
    /\ writer' = [writer EXCEPT ![w] = Idle] /\ alone' = {}
    /\ exact' = IF w \in alone THEN exact \cup me.touched ELSE exact \ me.touched
    /\ raced' = IF me.tx THEN Raced(w, me.goal) ELSE raced
    /\ UNCHANGED <<writes, faults>>

Ends(w) ==
    /\ writer' = [writer EXCEPT ![w] = Idle] /\ alone' = {}
    /\ exact' = IF writer[w].tx THEN exact ELSE exact \ writer[w].touched
    /\ UNCHANGED <<placed, occupied, writes, raced>>

\* What was written without a transaction stays.  A transaction that is rolled
\* back is as if it had not started.
Stops(w) ==
    /\ writer[w].at \in {"todo", "update"} /\ ~writer[w].tx
    /\ faults < MaxFaults /\ faults' = faults + 1
    /\ Ends(w)

\* The device is gone, or PostgreSQL ends a deadlock of two transactions.
Raises(w) ==
    /\ \/ writer[w].at = "ready" /\ writer[w].kind = "resize" /\ ~DeviceLocked(w)
          /\ ~Exists(writer[w].device)
       \/ \E v \in Writers : WaitsFor(w, v) /\ WaitsFor(v, w)
    /\ Ends(w) /\ UNCHANGED faults

\* The admin's "delete selected" calls no Device.delete: no list is recomputed.
BulkDelete(gone) ==
    /\ gone # {} /\ \A d \in gone : Exists(d)
    /\ \A w \in Writers : ~(InTx(w) /\ writer[w].device \in gone)
    /\ writes < MaxWrites /\ writes' = writes + 1
    /\ placed' = [d \in Devices |-> IF d \in gone THEN NoDevice ELSE placed[d]]
    /\ exact' = exact \ {placed[d].rack : d \in gone}
    /\ alone' = {}
    /\ UNCHANGED <<occupied, writer, faults, raced>>

Next ==
    \/ \E gone \in SUBSET Devices : BulkDelete(gone)
    \/ \E w \in Writers :
         \/ ReadPrevious(w) \/ WriteRow(w) \/ UpdateRack(w) \/ Finish(w)
         \/ Stops(w) \/ Raises(w)
         \/ \E r \in writer[w].todo : Recompute(w, r)
         \/ \E d \in Devices :
              \/ \E row \in Rows : SubmitForm(w, d, row)
              \/ \E r \in Racks \cup {None} : SaveUnchecked(w, d, r)
              \/ \E r \in Racks, requested \in Positions, size \in Sizes :
                     AutoAssign(w, d, r, requested, size)
              \/ \E size \in Sizes : SyncResizes(w, d, size)
              \/ \E tx \in BOOLEAN : DeleteDevice(w, d, tx)

Spec == Init /\ [][Next]_vars

-----------------------------------------------------------------------------
(* "List of rack unit positions currently assigned to devices" (rack.py):   *)
(* nobody writing, the list of a rack is exact if its last write was one    *)
(* that no other overlapped, however wrong the list was before.             *)
QuietListIsExact ==
    (\A w \in Writers : writer[w].at = "idle") =>
        \A r \in exact : occupied[r] = Units(placed, r)

(* Two devices of a rack have the same position only if writers overlapped  *)
(* there, the API moved a device without validation, or the auto-assignment *)
(* chose from a list that was not exact.                                    *)
PositionsApart ==
    \A d, e \in Devices :
        /\ d # e /\ placed[d].rack = placed[e].rack /\ placed[d].at = placed[e].at
        /\ placed[d].rack # None /\ placed[d].at # 0
        => placed[d].rack \in raced

(* "This rack unit is already occupied in the selected rack."               *)
(* (dcim/models/device.py:379): what the forms accept leaves no unit to two *)
(* devices.                                                                 *)
NoUnitShared ==
    \A d, e \in Devices :
        /\ d # e /\ placed[d].rack = placed[e].rack
        /\ placed[d].at # 0 /\ placed[e].at # 0
        /\ placed[d].rack \notin raced \cup {None}
        => placed[d].at .. (placed[d].at + placed[d].size - 1)
           \cap placed[e].at .. (placed[e].at + placed[e].size - 1) = {}
=============================================================================
