----------------------------- MODULE DeviceSync -----------------------------
(***************************************************************************)
(* What a synchronization makes of a device's answers: its interfaces, its *)
(* device type and whether it is a stack.  All of it is one transaction,   *)
(* which begins before the device is asked and saves the runtime row once  *)
(* the device has answered; that row stays locked until the end, so of two *)
(* synchronizations of a device the second applies its answers after the   *)
(* first has committed.  But each works with the device as it was loaded,  *)
(* for a site before the first device was asked.                           *)
(*                                                                         *)
(* No constraint makes the names of a device's interfaces unique.          *)
(***************************************************************************)
EXTENDS Naturals, Sequences

CONSTANTS
    Names,          \* interfaces, as _normalize_iface writes them
    Kind,           \* the kind of each, from its name
    Rows,           \* primary keys of interfaces
    Types,          \* device types that the database knows
    Reports,        \* what a device may answer
    None,
    Procs,          \* workers, threads of sync_runner, pages
    MaxSyncs,       \* bound: synchronizations
    MaxDirect       \* bound: edits by the admin and the API

(* desc, status and brief tell of the interfaces in their domains; lag maps *)
(* members to their port-channel; stack counts the members reported.  An    *)
(* entry of the inventory has a product id or None, is of the device's own  *)
(* serial number, the chassis by its name, a part by its product id or not; *)
(* version is the model that the version names, or None.                    *)
Assumptions ==
    /\ \A r \in Reports :
         /\ DOMAIN r.desc \cup DOMAIN r.status \cup DOMAIN r.brief \subseteq Names
         /\ DOMAIN r.lag \subseteq Names /\ \A n \in DOMAIN r.lag : r.lag[n] \in Names
         /\ r.stack \in Nat
         /\ \A i \in DOMAIN r.inventory :
              {r.inventory[i].own, r.inventory[i].chassis, r.inventory[i].part} \subseteq BOOLEAN
    /\ MaxSyncs \in Nat /\ MaxDirect \in Nat /\ None \notin Types

VARIABLES
    rows,       \* committed Interface rows of the device
    device,     \* is_stacked and device_type of the Device row
    members,    \* number of DeviceStackMember rows
    proc, syncs, directs,
    last,       \* history: answers last applied with an interface in them, if any
    exact,      \* history: no edit has touched the interfaces since
    told,       \* history: what the device's row should say
    fresh       \* history: and that no stale copy was compared with it

vars == <<rows, device, members, proc, syncs, directs, last, exact, told, fresh>>

DeviceRows == [stacked : BOOLEAN, type : Types]
NewRow(n) == [name |-> n, kind |-> "physical", mode |-> "none", lag |-> None,
              status |-> "down", description |-> "", address |-> None]
Idle == [at |-> "idle", copy |-> <<>>, stale |-> FALSE, edited |-> FALSE, report |-> <<>>,
         kept |-> {}, deleted |-> {}]

TypeOK ==
    /\ DOMAIN rows \subseteq Rows
    /\ \A r \in DOMAIN rows :
         /\ rows[r].name \in Names
         /\ rows[r].lag \in DOMAIN rows \cup {None}     \* SET_NULL
         /\ rows[r].mode \in {"none", "L2", "L3"}
    /\ device \in DeviceRows /\ told \in DeviceRows /\ members \in Nat
    /\ \A p \in Procs : /\ proc[p].at \in {"idle", "loaded", "answered", "apply", "commit"}
                        /\ proc[p].at \in {"answered", "apply", "commit"} => proc[p].report \in Reports
    /\ syncs \in 0..MaxSyncs /\ directs \in 0..MaxDirect

Init ==
    /\ rows = <<>> /\ members = 0
    /\ \E t \in Types : device = [stacked |-> FALSE, type |-> t]
    /\ proc = [p \in Procs |-> Idle] /\ syncs = 0 /\ directs = 0
    /\ last = {} /\ exact = FALSE /\ told = device /\ fresh = TRUE

-----------------------------------------------------------------------------
(* What the answers mean                                                    *)

Addressed(rep) == {n \in DOMAIN rep.brief : rep.brief[n].address \notin {"unassigned", "bad"}}
Seen(rep) == DOMAIN rep.desc \cup DOMAIN rep.status \cup DOMAIN rep.brief
               \cup DOMAIN rep.lag \cup {rep.lag[n] : n \in DOMAIN rep.lag}
\* An address that cannot be parsed is a KeyError, a status without a VLAN a
\* NULL in a column that is NOT NULL.
Raises(rep) == \/ \E n \in DOMAIN rep.brief : rep.brief[n].address = "bad"
               \/ \E n \in DOMAIN rep.status : rep.status[n].vlan = ""

Mode(rep, n, row) ==
    IF Kind[n] \in {"svi", "loopback", "tunnel"} THEN "L3"
    ELSE IF n \in DOMAIN rep.status THEN "L2"
    ELSE IF n \in Addressed(rep) THEN "L3" ELSE row.mode

BriefStatus(brief) == IF brief.up THEN "up" ELSE "down"
\* The line's status counts only where the port's is missing or unknown.
Status(rep, n, row) ==
    IF n \in DOMAIN rep.status /\ rep.status[n].state # "unknown" THEN rep.status[n].state
    ELSE IF n \in Addressed(rep) THEN BriefStatus(rep.brief[n])
    ELSE IF n \in DOMAIN rep.status THEN "unknown" ELSE row.status

RowOf(R, n) == CHOOSE r \in DOMAIN R : R[r].name = n
\* The address and the port-channel are only ever set, never cleared.
Update(R, rep, r) ==
    LET row == R[r]
        n == row.name
    IN [name |-> n,
        kind |-> Kind[n],
        mode |-> Mode(rep, n, row),
        lag |-> IF n \in DOMAIN rep.lag THEN RowOf(R, rep.lag[n]) ELSE row.lag,
        description |-> IF n \in DOMAIN rep.desc THEN rep.desc[n] ELSE row.description,
        status |-> Status(rep, n, row),
        address |-> IF n \in Addressed(rep) THEN rep.brief[n].address ELSE row.address]

\* The inventory's model comes first: of the device itself, else of a chassis,
\* else of anything that does not look like a part, else of anything.
Model(rep) ==
    LET named == SelectSeq(rep.inventory, LAMBDA e : e.pid # None)
        tries == <<SelectSeq(named, LAMBDA e : e.own), SelectSeq(named, LAMBDA e : e.chassis),
                   SelectSeq(named, LAMBDA e : ~e.part), named>>
        first == SelectSeq(tries, LAMBDA s : s # <<>>)
    IN IF first # <<>> THEN first[1][1].pid ELSE rep.version
\* A model that the database does not know changes nothing.
SavedType(rep, old, current) ==
    IF Model(rep) \in Types /\ old # Model(rep) THEN Model(rep) ELSE current

Reported(rep) == rep.stack > 0   \* regression: a stack of one member
Stacked(rep) == rep.stack > 1

-----------------------------------------------------------------------------
(* The steps of a synchronization                                           *)

\* Excluded devices are not synchronized.
Load(p) ==
    /\ proc[p].at = "idle"
    /\ syncs < MaxSyncs /\ syncs' = syncs + 1
    /\ proc' = [proc EXCEPT ![p] = [Idle EXCEPT !.at = "loaded", !.copy = device]]
    /\ UNCHANGED <<rows, device, members, directs, last, exact, told, fresh>>

\* After two failed attempts only the runtime row is saved.
Collect(p) ==
    /\ proc[p].at = "loaded"
    /\ \/ \E rep \in Reports : proc' = [proc EXCEPT ![p].at = "answered", ![p].report = rep]
       \/ proc' = [proc EXCEPT ![p] = Idle]
    /\ UNCHANGED <<rows, device, members, syncs, directs, last, exact, told, fresh>>

NoLock(p) == TRUE       \* regression: the runtime row is saved at the end
RuntimeFree(p) == \A q \in Procs \ {p} : proc[q].at \notin {"apply", "commit"}
LockRuntime(p) ==
    /\ proc[p].at = "answered" /\ RuntimeFree(p)
    /\ proc' = [proc EXCEPT ![p].at = "apply"]
    /\ UNCHANGED <<rows, device, members, syncs, directs, last, exact, told, fresh>>

RollBack(p) ==
    /\ proc' = [proc EXCEPT ![p] = Idle]
    /\ UNCHANGED <<rows, device, members, syncs, directs, last, exact, told, fresh>>

\* get_or_create of a name that has two rows raises.
Twice(names) == \E q, r \in DOMAIN rows : q # r /\ rows[q].name = rows[r].name
                                          /\ rows[q].name \in names
Named(names) == {r \in DOMAIN rows : rows[r].name \in names}
\* An empty answer deletes nothing.
Gone(names) == IF names = {} THEN {} ELSE DOMAIN rows \ Named(names)
Apply(p) ==
    /\ proc[p].at = "apply"
    /\ LET names == Seen(proc[p].report) IN
       IF Raises(proc[p].report) \/ Twice(names) THEN RollBack(p)
       ELSE /\ proc' = [proc EXCEPT ![p].at = "commit", ![p].edited = FALSE,
                                    ![p].kept = Named(names), ![p].deleted = Gone(names)]
            /\ UNCHANGED <<rows, device, members, syncs, directs, last, exact, told, fresh>>

Put(f, k, v) == [x \in {k} \cup DOMAIN f |-> IF x = k THEN v ELSE f[x]]
\* SET_NULL: the ports of a port-channel that is deleted.
Without(R, gone) ==
    [r \in DOMAIN R \ gone |-> IF R[r].lag \in gone THEN [R[r] EXCEPT !.lag = None] ELSE R[r]]

Keys(names, free) ==
    {f \in [names -> free] : \A m, n \in names : f[m] = f[n] => m = n}
NewKeys(R, names) == CHOOSE f \in Keys(names, Rows \ DOMAIN R) : TRUE
\* With rows for the names that had none.
Created(R, names) ==
    LET key == NewKeys(R, names)
    IN [r \in DOMAIN R \cup {key[n] : n \in names} |->
          IF r \in DOMAIN R THEN R[r] ELSE NewRow(CHOOSE n \in names : key[n] = r)]

\* A field of the device is saved if it differs from the copy.
SaveDevice(p) ==
    LET rep == proc[p].report
        copy == proc[p].copy
    IN [stacked |-> IF copy.stacked # Stacked(rep) THEN Stacked(rep) ELSE device.stacked,
        type |-> SavedType(rep, copy.type, device.type)]

Age(new) == [q \in Procs |-> IF new # device THEN [proc[q] EXCEPT !.stale = TRUE] ELSE proc[q]]

\* Saving fields of a row that an edit has deleted meanwhile raises.
Commit(p) ==
    /\ proc[p].at = "commit"
    /\ LET rep == proc[p].report
           names == {n \in Seen(rep) : \A r \in proc[p].kept : rows[r].name # n}
           left == Without(rows, proc[p].deleted)
           R == Created(left, names)
       IN
       IF ~(proc[p].kept \subseteq DOMAIN rows) THEN RollBack(p)
       ELSE
       /\ Keys(names, Rows \ DOMAIN left) # {}     \* bound: the rows
       /\ rows' = [r \in DOMAIN R |-> IF R[r].name \in Seen(rep) THEN Update(R, rep, r) ELSE R[r]]
       /\ members' = IF rep.stack > 0 THEN rep.stack ELSE members
       /\ device' = SaveDevice(p)
       /\ proc' = [Age(SaveDevice(p)) EXCEPT ![p] = Idle]
       /\ IF Seen(rep) = {} THEN UNCHANGED <<last, exact>>
          ELSE last' = {rep} /\ exact' = ~proc[p].edited
       /\ told' = [stacked |-> rep.stack > 1,
                   type |-> IF Model(rep) \in Types THEN Model(rep) ELSE device.type]
       /\ fresh' = ~proc[p].stale
    /\ UNCHANGED <<syncs, directs>>

\* A later command of the synchronization raises, or the process is killed.
Fail(p) == proc[p].at \notin {"idle", "loaded"} /\ RollBack(p)

-----------------------------------------------------------------------------
(* Edits by the admin and the API                                           *)

Direct == directs < MaxDirect /\ directs' = directs + 1
Edited == /\ exact' = FALSE
          /\ proc' = [q \in Procs |-> [proc[q] EXCEPT !.edited = TRUE]]

AddInterface(n) ==
    /\ Direct
    /\ \E r \in Rows \ DOMAIN rows : rows' = Put(rows, r, NewRow(n))
    /\ Edited
    /\ UNCHANGED <<device, members, syncs, last, told, fresh>>

DeleteInterface(r) ==
    /\ Direct /\ r \in DOMAIN rows
    /\ rows' = Without(rows, {r})
    /\ Edited
    /\ UNCHANGED <<device, members, syncs, last, told, fresh>>

EditDevice ==
    /\ Direct
    /\ device' \in DeviceRows /\ device' # device
    /\ proc' = Age(device')
    /\ fresh' = FALSE
    /\ UNCHANGED <<rows, members, syncs, last, exact, told>>

Next ==
    \/ \E p \in Procs : \/ Load(p) \/ Collect(p) \/ LockRuntime(p) \/ Apply(p)
                        \/ Commit(p) \/ Fail(p)
    \/ \E n \in Names : AddInterface(n)
    \/ \E r \in Rows : DeleteInterface(r)
    \/ EditDevice

Spec == Init /\ [][Next]_vars

-----------------------------------------------------------------------------
(* However synchronizations overlap, the interfaces are those of the answers *)
(* applied last that named any, each once, with the port-channels and        *)
(* addresses of these answers: until the admin or the API edits interfaces,  *)
(* and unless they do so while these answers are applied.                    *)
InterfacesFollow ==
    \A rep \in last : exact =>
      /\ {rows[r].name : r \in DOMAIN rows} = Seen(rep)
      /\ \A q, r \in DOMAIN rows : rows[q].name = rows[r].name => q = r
      /\ \A r \in DOMAIN rows :
           /\ rows[r].name \in DOMAIN rep.lag =>
                rows[r].lag \in DOMAIN rows /\ rows[rows[r].lag].name = rep.lag[rows[r].name]
           /\ rows[r].name \in Addressed(rep) =>
                rows[r].address = rep.brief[rows[r].name].address

(* The device's row says what the answers applied last said, if the device   *)
(* was not changed between its loading and these answers.  A site's devices  *)
(* are loaded long before, and then a change back is missed.                 *)
DeviceFollows == fresh => device = told

=============================================================================
