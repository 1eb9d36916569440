--------------------------- MODULE RuntimeStatus ---------------------------
(***************************************************************************)
(* The runtime row of each device.  A reachability run measures its        *)
(* devices and then saves, one after the other, what it measured; a        *)
(* discovery scan adds what it saw of a known device; both load the row    *)
(* and save it as a whole.  A synchronization loads the row, talks to the  *)
(* device for minutes, and saves only its own fields, in one transaction.  *)
(*                                                                         *)
(* PostgreSQL at READ COMMITTED: a save waits for the transaction that has *)
(* written the row or inserted it, and then writes over what it committed. *)
(* Saving a whole row that is gone inserts it, if the device still exists; *)
(* saving fields of a row that is gone raises.                             *)
(***************************************************************************)
EXTENDS Naturals

CONSTANTS
    Devices,
    Writers,        \* Celery workers and the threads of sync_runner
    MaxWrites       \* bound: runs, scans and synchronizations

Assumptions == MaxWrites \in Nat

VARIABLES
    present,    \* devices
    status,     \* committed DeviceRuntimeStatus rows
    writer, writes,
    measured,   \* history: what was last measured and saved, of each field
    exact       \* history: devices and fields that no stale row was saved over

vars == <<present, status, writer, writes, measured, exact>>

(* reachable_snmp and reachable_netconf go the way of ping; last_check is   *)
(* part of every save.                                                      *)
Probes == {"ping", "ssh"}
Fields == Probes \cup {"uptime"}
Statuses == [Fields -> {0, 1}]
Created == [f \in Fields |-> 0]
Over(new, old) == [x \in DOMAIN new \cup DOMAIN old |->
                     IF x \in DOMAIN new THEN new[x] ELSE old[x]]
Put(d, row) == Over([x \in {d} |-> row], status)
Idle == [at |-> "idle", kind |-> "check", todo |-> {}, device |-> {}, fields |-> {},
         found |-> <<>>, row |-> Created, new |-> FALSE, overtaken |-> FALSE]

TypeOK ==
    /\ present \subseteq Devices
    /\ DOMAIN status \subseteq present
    /\ \A d \in DOMAIN status : status[d] \in Statuses /\ measured[d] \in Statuses
    /\ \A w \in Writers :
         /\ writer[w].at \in {"idle", "load", "loaded", "written"}
         /\ writer[w].kind \in {"check", "scan", "sync"}
         /\ writer[w].todo \subseteq Devices /\ writer[w].row \in Statuses
         /\ writer[w].at \in {"loaded", "written"} => \E d \in Devices : writer[w].device = {d}
         /\ writer[w].at = "written" => writer[w].kind = "sync"
    /\ writes \in 0..MaxWrites
    /\ exact \subseteq (DOMAIN status) \X Fields

Init ==
    /\ present = Devices /\ status = <<>>
    /\ writer = [w \in Writers |-> Idle] /\ writes = 0
    /\ measured = [d \in Devices |-> Created] /\ exact = {}

On(w, d) == writer[w].at \in {"loaded", "written"} /\ writer[w].device = {d}
\* A transaction that has inserted the row or updated it.
Holds(w, d) == On(w, d) /\ writer[w].kind = "sync" /\ (writer[w].new \/ writer[w].at = "written")
Locked(w, d) == \E v \in Writers \ {w} : Holds(v, d)
Whole(w) == writer[w].kind # "sync"

-----------------------------------------------------------------------------
(* Loading and saving                                                       *)

Start(w) ==
    /\ writer[w].at = "idle"
    /\ writes < MaxWrites /\ writes' = writes + 1
    /\ \/ \E D \in (SUBSET Devices) \ {{}}, fields \in (SUBSET Probes) \ {{}} :
            writer' = [writer EXCEPT ![w] = [Idle EXCEPT !.at = "load", !.todo = D,
                                                         !.fields = fields]]
       \/ \E d \in Devices :
            writer' = [writer EXCEPT ![w] = [Idle EXCEPT !.at = "load", !.kind = "scan",
                                                         !.todo = {d}, !.fields = Probes]]
       \/ \E d \in Devices :
            writer' = [writer EXCEPT ![w] = [Idle EXCEPT !.at = "load", !.kind = "sync",
                                                         !.todo = {d}]]
    /\ UNCHANGED <<present, status, measured, exact>>

Ends(w) == writer' = [writer EXCEPT ![w] = Idle]
\* On to the next device of the run.
Goes(w, others) ==
    writer' = [others EXCEPT ![w] =
                 IF writer[w].todo = {} THEN Idle
                 ELSE [writer[w] EXCEPT !.at = "load", !.new = FALSE, !.overtaken = FALSE]]

\* A run raises at the first device that is gone; the devices after it are
\* left as they were.
Load(w) ==
    /\ writer[w].at = "load"
    /\ \E d \in writer[w].todo :
         IF d \notin present THEN Ends(w) /\ UNCHANGED <<status, exact>>
         ELSE /\ d \in DOMAIN status \/ ~Locked(w, d)
              /\ status' = IF d \in DOMAIN status \/ ~Whole(w) THEN status
                           ELSE Put(d, Created)
              /\ writer' = [writer EXCEPT ![w] =
                    [writer[w] EXCEPT !.at = "loaded", !.todo = @ \ {d}, !.device = {d},
                                      !.new = ~Whole(w) /\ d \notin DOMAIN status,
                                      !.row = IF d \in DOMAIN status THEN status[d] ELSE Created]]
              /\ UNCHANGED exact
    /\ UNCHANGED <<present, writes, measured>>

\* A scan only adds.
Result(w, found) ==
    IF writer[w].kind = "scan"
    THEN Over([f \in Probes |-> IF 1 \in {writer[w].row[f], found[f]} THEN 1 ELSE 0],
              writer[w].row)
    ELSE Over(found, writer[w].row)

WholeRow(w, row) == Result(w, writer[w].found)   \* regression: save() without update_fields
OwnFields(w, row) == Over(writer[w].found, row)

\* Everybody else who has loaded the row has now an old one.
Overtake(w, d) == [v \in Writers |-> IF v # w /\ On(v, d)
                                     THEN [writer[v] EXCEPT !.overtaken = TRUE] ELSE writer[v]]
Measures(w, d, row) ==
    LET fields == IF Whole(w) THEN writer[w].fields ELSE DOMAIN writer[w].found IN
    /\ measured' = [measured EXCEPT ![d] = Over([f \in fields |-> row[f]], @)]
    /\ exact' = ((exact \ (IF Whole(w) /\ writer[w].overtaken THEN {d} \X Fields ELSE {}))
                 \cup {d} \X fields)

\* A status for each check that was asked for, whatever raised.
Measure(fields) == [fields -> {0, 1}]
SaveWhole(w) ==
    /\ writer[w].at = "loaded" /\ Whole(w)
    /\ \E d \in writer[w].device :
         /\ ~Locked(w, d)
         /\ IF d \notin present THEN Ends(w) /\ UNCHANGED <<status, measured, exact>>
            ELSE /\ \E found \in Measure(writer[w].fields) :
                      /\ status' = Put(d, Result(w, found))
                      /\ Measures(w, d, Result(w, found))
                 /\ Goes(w, Overtake(w, d))
    /\ UNCHANGED <<present, writes>>

\* Unreachable by SSH; reachable, with an uptime or without one.
Answers == {[ssh |-> 0], [ssh |-> 1], [ssh |-> 1, uptime |-> 1]}
\* The first save takes the row's lock, the commit makes the fields visible.
SaveFields(w) ==
    /\ writer[w].at = "loaded" /\ ~Whole(w)
    /\ \E d \in writer[w].device :
         /\ ~Locked(w, d)
         /\ IF writer[w].new \/ d \in DOMAIN status
            THEN \E found \in Answers :
                   writer' = [writer EXCEPT ![w].at = "written", ![w].found = found]
            ELSE Ends(w)
    /\ UNCHANGED <<present, status, writes, measured, exact>>

Commit(w) ==
    /\ writer[w].at = "written"
    /\ \E d \in writer[w].device :
         LET row == OwnFields(w, IF d \in DOMAIN status THEN status[d] ELSE Created) IN
         /\ status' = Put(d, row)
         /\ Measures(w, d, row)
         /\ Goes(w, Overtake(w, d))
    /\ UNCHANGED <<present, writes>>

\* The process is killed, or a later part of the synchronization raises.
Fail(w) ==
    /\ writer[w].at # "idle"
    /\ Ends(w) /\ UNCHANGED <<present, status, writes, measured, exact>>

\* Waits for a transaction that has inserted or written the row.
DeleteDevice(d) ==
    /\ d \in present /\ ~\E w \in Writers : Holds(w, d)
    /\ present' = present \ {d}
    /\ status' = [x \in DOMAIN status \ {d} |-> status[x]]
    /\ exact' = exact \ ({d} \X Fields)
    /\ UNCHANGED <<writer, writes, measured>>

Next == \/ \E w \in Writers : \/ Start(w) \/ Load(w) \/ SaveWhole(w)
                              \/ SaveFields(w) \/ Commit(w) \/ Fail(w)
        \/ \E d \in Devices : DeleteDevice(d)

Spec == Init /\ [][Next]_vars

-----------------------------------------------------------------------------
(* What was measured of a device stays until it is measured again, however  *)
(* runs, scans and synchronizations overlap: unless a run or a scan saved   *)
(* a row that it had loaded before another one was saved.  A                *)
(* synchronization never undoes anything, although its row is minutes old.  *)
MeasuredStays == \A x \in exact : status[x[1]][x[2]] = measured[x[1]][x[2]]

=============================================================================
