----------------------------- MODULE Discovery -----------------------------
(***************************************************************************)
(* Discovery of one site: scan jobs store and classify candidates,         *)
(* auto-assign jobs turn open candidates into devices, an operator reviews *)
(* candidates by hand, and deleting a device drops its candidates.  The    *)
(* API and the admin insert, edit and delete devices beside all of them.   *)
(*                                                                         *)
(* One action per transaction, and one more wherever code goes on with     *)
(* rows it loaded earlier: PostgreSQL runs at READ COMMITTED and no row is *)
(* locked for update, so another process may commit in between.  Every     *)
(* write of DiscoveryCandidate sets classified and accepted together; the  *)
(* pair is the one field review: "open" (False, None), "match"             *)
(* (True, True), "mismatch" (True, False).  Hostnames are compared         *)
(* ignoring case, so names that differ by case are one name here.          *)
(***************************************************************************)
EXTENDS Naturals, FiniteSets

CONSTANTS
    IPs,            \* addresses of candidates and devices
    Ranges,         \* those the site's ranges cover, one /32 range each
    Hosts,          \* hostnames reverse DNS can return
    NoHost,         \* the empty hostname
    Given,          \* names that people type for a device
    Answers,        \* Answers[ip]: what a live host at ip can answer
    Devices,        \* bound: Device rows ever inserted
    Inventory,      \* Inventory[d]: row of a device known beforehand
    NoDevice,       \* not a device
    Scans, Jobs,    \* bound: DiscoveryScanJob and AutoAssignJob rows
    None, Gone,     \* nothing is there, or no longer
    MaxFaults,      \* bound: exceptions out of the blue and processes killed
    MaxRequests     \* bound: MaxRequests[kind], requests by operators

ASSUME RangesAssumption == /\ Ranges \subseteq IPs
                          /\ Answers \in [Ranges -> SUBSET (Hosts \cup {NoHost})]

\* The name that the admin's promotion makes of an address: 10-0-0-1.
Dashed(ip) == <<ip>>
Names == Hosts \cup IPs \cup {Dashed(ip) : ip \in IPs}

ASSUME GivenAssumption == Given \subseteq Names
ASSUME InventoryAssumption ==
    /\ DOMAIN Inventory \subseteq Devices /\ NoDevice \notin Devices
    /\ Inventory \in [DOMAIN Inventory -> [name : Names, ip : IPs]]
    /\ \A d, e \in DOMAIN Inventory :
         d # e => /\ Inventory[d].ip # Inventory[e].ip
                  /\ Inventory[d].name # Inventory[e].name
\* The device as a deletion has loaded it; gone is set when only its candidates
\* are left to drop.
Deletions == [of : Devices, name : Names, ip : IPs, gone : BOOLEAN]
ASSUME NoneAssumption ==
    /\ None # Gone /\ {None, Gone} \cap [name : Names, ip : IPs] = {}
    /\ None \notin Deletions
ASSUME FiniteAssumption == IsFiniteSet(IPs)
\* What a request is about: pages of candidates, or devices by hand.
Kinds == {"candidates", "devices"}
ASSUME BoundsAssumption == MaxFaults \in Nat /\ MaxRequests \in [Kinds -> Nat]

VARIABLES
    cand,       \* cand[ip]: the DiscoveryCandidate row at ip, or None
    device,     \* device[d]: Device row d; None before it exists, Gone after
    scan,       \* scan[s]: DiscoveryScanJob.status and the task's locals
    assign,     \* assign[j]: AutoAssignJob.status and the task's locals
    items,      \* AutoAssignJobItem rows
    session,    \* what an operator's request has loaded, or None
    dropping,   \* the deletion of a device that is under way, or None
    faults, requests,
    examined,   \* history: candidates a classification has looked up
    ignored,    \* history: candidates the operator ignored from "open"
    freed       \* history: freed[ip], how a device left that address

vars == <<cand, device, scan, assign, items, session, dropping, faults,
          requests, examined, ignored, freed>>
history == <<examined, ignored, freed>>
Requests(kind) == /\ requests[kind] < MaxRequests[kind]
                  /\ requests' = [requests EXCEPT ![kind] = @ + 1]

\* A row's primary key: the same address scanned again after a deletion is a
\* new row, so the scan that inserted it tells the two apart.
Ids == [ip : IPs, born : Scans]
Rows == [born : Scans, host : Hosts \cup {NoHost},
         review : {"open", "match", "mismatch"}, seen : Scans]
Present(ip) == cand[ip] # None
IdOf(ip) == [ip |-> ip, born |-> cand[ip].born]
Exists(id) == Present(id.ip) /\ cand[id.ip].born = id.born
OpenIds == {IdOf(ip) : ip \in {i \in IPs : Present(i) /\ cand[i].review = "open"}}

\* The hostname of each selected row, as the query returned it.
Loaded(ids) == [id \in {i \in ids : Exists(i)} |-> cand[id.ip].host]

Live(d) == device[d] \notin {None, Gone}
WithIp(ip) == {d \in Devices : Live(d) /\ device[d].ip = ip}
WithName(name) == {d \in Devices : Live(d) /\ device[d].name = name}
Unused == {d \in Devices : device[d] = None}
Free(name, ip) == WithName(name) = {} /\ WithIp(ip) = {}
NameFor(host, ip) == IF host = NoHost THEN ip ELSE host

Verdict(host, ip) ==
    IF WithIp(ip) \cap WithName(host) # {} THEN "match"
    ELSE IF WithIp(ip) \cup WithName(host) # {} THEN "mismatch" ELSE "open"

NewScan == [status |-> "new", at |-> "idle", left |-> {}, todo |-> <<>>,
            verdict |-> <<>>]
NewJob == [status |-> "new", at |-> "idle", wanted |-> {}, left |-> {},
           loaded |-> <<>>, result |-> None, ok |-> 0, bad |-> 0]
Final == {"completed", "failed"}

TypeOK ==
    /\ \A ip \in IPs : cand[ip] \in Rows \cup {None}
    /\ \A d \in Devices : device[d] \in [name : Names, ip : IPs] \cup {None, Gone}
    /\ \A s \in Scans :
         /\ scan[s].status \in {"new", "pending", "running"} \cup Final
         /\ scan[s].at \in {"idle", "queued", "ranges", "classify", "committed",
                            "failed", "dead"}
         /\ scan[s].left \subseteq Ranges
         /\ DOMAIN scan[s].todo \subseteq Ids /\ DOMAIN scan[s].verdict \subseteq Ids
    /\ \A j \in Jobs :
         /\ assign[j].status \in {"new", "pending", "running"} \cup Final
         /\ assign[j].at \in {"idle", "queued", "loop", "record", "failed", "dead"}
         /\ assign[j].left \subseteq assign[j].wanted /\ assign[j].wanted \subseteq Ids
         /\ assign[j].ok \in Nat /\ assign[j].bad \in Nat
    /\ items \subseteq [job : Jobs, of : Ids, ok : BOOLEAN, device : Devices \cup {NoDevice}]
    /\ dropping \in Deletions \cup {None} /\ faults \in 0..MaxFaults
    /\ requests \in [Kinds -> Nat] /\ \A kind \in Kinds : requests[kind] <= MaxRequests[kind]
    /\ examined \subseteq Ids /\ ignored \subseteq Ids
    /\ freed \in [IPs -> SUBSET {"deleted", "moved", "orphaned"}]

Init ==
    /\ cand = [ip \in IPs |-> None]
    /\ device = [d \in Devices |-> IF d \in DOMAIN Inventory THEN Inventory[d] ELSE None]
    /\ scan = [s \in Scans |-> NewScan]
    /\ assign = [j \in Jobs |-> NewJob]
    /\ items = {}
    /\ session = None /\ dropping = None
    /\ faults = 0 /\ requests = [kind \in Kinds |-> 0]
    /\ examined = {} /\ ignored = {} /\ freed = [ip \in IPs |-> {}]

-----------------------------------------------------------------------------
(* run_discovery_scan_job                                                   *)

At(s, from, to) == scan[s].at = from /\ scan' = [scan EXCEPT ![s].at = to]
ScanOnly == UNCHANGED <<device, assign, items, session, dropping, requests,
                        ignored, freed>>
Raises == faults < MaxFaults /\ faults' = faults + 1

\* The row is inserted, then the message is published; if that raises, the
\* row stays PENDING and no worker ever hears of it.
CreateScan(s) ==
    /\ scan[s].status = "new"
    /\ \/ /\ scan' = [scan EXCEPT ![s].status = "pending", ![s].at = "queued"]
          /\ UNCHANGED faults
       \/ /\ scan' = [scan EXCEPT ![s].status = "pending", ![s].at = "dead"]
          /\ Raises
    /\ UNCHANGED <<cand, examined>> /\ ScanOnly

StartScan(s) ==
    /\ scan[s].at = "queued"
    /\ scan' = [scan EXCEPT ![s].status = "running", ![s].at = "ranges",
                            ![s].left = Ranges]
    /\ UNCHANGED <<cand, faults, examined>> /\ ScanOnly

\* _scan_range: a live host whose name passes the filters is stored by
\* update_or_create, which leaves the review of a known row alone.
ScanRange(s, ip) ==
    /\ scan[s].at = "ranges"
    /\ scan' = [scan EXCEPT ![s].left = @ \ {ip}]
    /\ \/ UNCHANGED cand
       \/ \E host \in Answers[ip] :
            cand' = [cand EXCEPT ![ip] =
                IF Present(ip) THEN [@ EXCEPT !.host = host, !.seen = s]
                ELSE [born |-> s, host |-> host, review |-> "open", seen |-> s]]
    /\ UNCHANGED <<faults, examined>> /\ ScanOnly

\* Regression: the query runs with the time the job was created at, not the
\* time that _scan_range stamped on the rows.
SelectCandidatesOtherTime(s) ==
    /\ At(s, "ranges", "classify") /\ scan[s].left = {}
    /\ UNCHANGED <<cand, faults, examined>> /\ ScanOnly

\* updated_candidates: open rows this scan was the last to see.
SelectCandidates(s) ==
    /\ scan[s].at = "ranges" /\ scan[s].left = {}
    /\ scan' = [scan EXCEPT ![s].at = "classify",
                  ![s].todo = Loaded({id \in OpenIds : cand[id.ip].seen = s})]
    /\ UNCHANGED <<cand, faults, examined>> /\ ScanOnly

\* One turn of _classify's loop.  Its save is applied at the commit: a row it
\* has saved already is not locked here, which only adds interleavings.
ClassifyOne(s, id) ==
    /\ scan[s].at = "classify"
    /\ id \in DOMAIN scan[s].todo \ DOMAIN scan[s].verdict
    /\ scan' = [scan EXCEPT ![s].verdict =
         [i \in DOMAIN @ \cup {id} |-> IF i = id THEN Verdict(scan[s].todo[id], id.ip)
                                       ELSE @[i]]]
    /\ examined' = examined \cup {id}
    /\ UNCHANGED <<cand, faults>> /\ ScanOnly

\* The saves write what the lookups decided, whatever was reviewed meanwhile;
\* a row that is gone makes save() raise and the transaction roll back.
ClassifyCommit(s) ==
    LET V == scan[s].verdict IN
    /\ scan[s].at = "classify" /\ DOMAIN V = DOMAIN scan[s].todo
    /\ IF \A id \in DOMAIN V : Exists(id)
       THEN /\ At(s, "classify", "committed")
            /\ cand' = [ip \in IPs |-> IF Present(ip) /\ IdOf(ip) \in DOMAIN V
                           THEN [cand[ip] EXCEPT !.review = V[IdOf(ip)]]
                           ELSE cand[ip]]
       ELSE At(s, "classify", "failed") /\ UNCHANGED cand
    /\ UNCHANGED <<faults, examined>> /\ ScanOnly

ScanRaises(s) ==
    /\ At(s, "ranges", "failed") \/ At(s, "classify", "failed")
    /\ Raises
    /\ UNCHANGED <<cand, examined>> /\ ScanOnly

\* Regression: the last save is not in the finally block.
SaveScanUnlessFailed(s) ==
    /\ scan[s].at = "committed"
    /\ scan' = [scan EXCEPT ![s] = [NewScan EXCEPT !.status = "completed"]]
    /\ UNCHANGED <<cand, faults, examined>> /\ ScanOnly

SaveScan(s) ==
    /\ scan[s].at \in {"committed", "failed"}
    /\ scan' = [scan EXCEPT ![s] = [NewScan EXCEPT !.status =
                   IF scan[s].at = "committed" THEN "completed" ELSE "failed"]]
    /\ UNCHANGED <<cand, faults, examined>> /\ ScanOnly

KillScan(s) ==
    /\ scan[s].at \notin {"idle", "queued", "dead"}
    /\ Raises
    /\ scan' = [scan EXCEPT ![s] = [NewScan EXCEPT !.status = "running", !.at = "dead"]]
    /\ UNCHANGED <<cand, device, assign, items, session, dropping, requests>>
    /\ UNCHANGED history

-----------------------------------------------------------------------------
(* run_auto_assign_job and AutoAssignmentService.assign                     *)

AssignOnly == UNCHANGED <<scan, session, dropping, requests, examined, ignored,
                          freed>>
Job(j, at) == assign[j].at = at

\* The operator's selection, or every open candidate for the nightly task.
CreateJob(j) ==
    /\ assign[j].status = "new"
    /\ \E wanted \in (SUBSET OpenIds) \ {{}} :
         assign' = [assign EXCEPT ![j].status = "pending", ![j].at = "queued",
                                  ![j].wanted = wanted]
    /\ UNCHANGED <<cand, device, items, faults>> /\ AssignOnly

\* Regression: the worker selects the open candidates again.
LoadOpenCandidates(j) ==
    /\ Job(j, "queued")
    /\ assign' = [assign EXCEPT ![j].status = "running", ![j].at = "loop",
                    ![j].left = OpenIds, ![j].loaded = Loaded(OpenIds)]
    /\ UNCHANGED <<cand, device, items, faults>> /\ AssignOnly

\* RUNNING is saved, then candidate_map is filled with one query.  Neither
\* this nor what follows looks at the review of a candidate again.
LoadCandidates(j) ==
    /\ Job(j, "queued")
    /\ assign' = [assign EXCEPT ![j].status = "running", ![j].at = "loop",
                    ![j].left = assign[j].wanted, ![j].loaded = Loaded(assign[j].wanted)]
    /\ UNCHANGED <<cand, device, items, faults>> /\ AssignOnly

\* Counts candidate id; its item, result, is created by the next statement.
Turn(j, id, ok, d) ==
    assign' = [assign EXCEPT ![j].at = "record", ![j].left = @ \ {id},
                 ![j].result = [job |-> j, of |-> id, ok |-> ok, device |-> d],
                 ![j].ok = IF ok THEN @ + 1 ELSE @, ![j].bad = IF ok THEN @ ELSE @ + 1]

\* Regression: a device that is already there counts as assigned.
AssignOrAdopt(j, id) ==
    LET name == NameFor(assign[j].loaded[id], id.ip)
        d == CHOOSE e \in Unused \cup WithIp(id.ip) : WithIp(id.ip) \subseteq {e} IN
    /\ Job(j, "loop") /\ id \in assign[j].left \cap DOMAIN assign[j].loaded
    /\ Exists(id) /\ Unused \cup WithIp(id.ip) # {}
    /\ device' = [device EXCEPT ![d] = [name |-> name, ip |-> id.ip]]
    /\ cand' = [cand EXCEPT ![id.ip].review = "match"]
    /\ \E ok \in BOOLEAN : Turn(j, id, ok, d)
    /\ UNCHANGED <<items, faults>> /\ AssignOnly

\* The device is inserted and the candidate marked as handled in one
\* transaction; the sync that follows may still raise, and then the result
\* is a failure that names a device which exists.
AssignCandidate(j, id) ==
    LET name == NameFor(assign[j].loaded[id], id.ip)
        d == CHOOSE e \in Unused : TRUE IN
    /\ Job(j, "loop") /\ id \in assign[j].left \cap DOMAIN assign[j].loaded
    /\ Free(name, id.ip) /\ Exists(id) /\ Unused # {}
    /\ device' = [device EXCEPT ![d] = [name |-> name, ip |-> id.ip]]
    /\ cand' = [cand EXCEPT ![id.ip].review = "match"]
    /\ \E ok \in BOOLEAN : Turn(j, id, ok, d)
    /\ UNCHANGED <<items, faults>> /\ AssignOnly

\* Not loaded, not reachable, no rack, a name or an address already taken:
\* the item of a failure, before any device object was made ...
AssignFails(j, id) ==
    /\ Job(j, "loop") /\ id \in assign[j].left
    /\ Turn(j, id, FALSE, NoDevice)
    /\ UNCHANGED <<cand, device, items, faults>> /\ AssignOnly

\* ... or after: the candidate row is gone, or a stack member is rejected; the
\* transaction rolls back and the result keeps an object without a row.
AssignRollsBack(j, id) ==
    /\ Job(j, "loop") /\ id \in assign[j].left \cap DOMAIN assign[j].loaded
    /\ Free(NameFor(assign[j].loaded[id], id.ip), id.ip)
    /\ Turn(j, id, FALSE, "rolledBack")
    /\ UNCHANGED <<cand, device, items, faults>> /\ AssignOnly

\* AutoAssignJobItem refers to the candidate, unless it was not found, and to
\* the device; a reference to a row that is gone ends the whole job.
Referable(j) ==
    LET it == assign[j].result IN
    /\ it.of \in DOMAIN assign[j].loaded => Exists(it.of)
    /\ \/ it.device = NoDevice
       \/ it.device \in Devices /\ Live(it.device)

\* Regression: an item that cannot be created is skipped.
RecordItemOrSkip(j) ==
    /\ Job(j, "record")
    /\ items' = IF Referable(j) THEN items \cup {assign[j].result} ELSE items
    /\ assign' = [assign EXCEPT ![j].at = "loop", ![j].result = None]
    /\ UNCHANGED <<cand, device, faults>> /\ AssignOnly

RecordItem(j) ==
    /\ Job(j, "record")
    /\ IF Referable(j)
       THEN /\ items' = items \cup {assign[j].result}
            /\ assign' = [assign EXCEPT ![j].at = "loop", ![j].result = None]
       ELSE /\ assign' = [assign EXCEPT ![j].at = "failed", ![j].result = None]
            /\ UNCHANGED items
    /\ UNCHANGED <<cand, device, faults>> /\ AssignOnly

SaveJob(j) ==
    /\ Job(j, "failed") \/ (Job(j, "loop") /\ assign[j].left = {})
    /\ assign' = [assign EXCEPT ![j].at = "idle", ![j].left = {}, ![j].loaded = <<>>,
                    ![j].status = IF Job(j, "failed") THEN "failed" ELSE "completed"]
    /\ UNCHANGED <<cand, device, items, faults>> /\ AssignOnly

KillJob(j) ==
    /\ assign[j].at \in {"loop", "record", "failed"}
    /\ Raises
    /\ assign' = [assign EXCEPT ![j].at = "dead", ![j].left = {}, ![j].loaded = <<>>,
                                ![j].result = None]
    /\ UNCHANGED <<cand, device, items>> /\ AssignOnly

-----------------------------------------------------------------------------
(* the operator's pages: candidates_action, create_device_from_candidate,   *)
(* resolve_discovery_mismatch, and the admin's actions on candidates        *)

OperatorOnly == UNCHANGED <<scan, assign, items, dropping, faults, examined>>
CloseSession == session' = None /\ UNCHANGED requests
Review(ip, to) == cand' = [cand EXCEPT ![ip].review = to]

\* The bulk action is one UPDATE that leaves exact matches alone.
IgnoreSelected(ip) ==
    /\ Present(ip) /\ cand[ip].review # "match" /\ Requests("candidates")
    /\ Review(ip, "mismatch")
    /\ ignored' = IF cand[ip].review = "open" THEN ignored \cup {IdOf(ip)} ELSE ignored
    /\ UNCHANGED <<device, session, freed>> /\ OperatorOnly

\* The POST handler loads the candidate and its devices and checks the review;
\* rename and move are hostname_mismatch and ip_mismatch ...
OpenCandidate(ip) ==
    LET host == cand[ip].host IN
    /\ session = None /\ Present(ip) /\ Requests("candidates")
    /\ \/ cand[ip].review = "open"
       \/ /\ cand[ip].review = "mismatch"
          /\ WithIp(ip) \cup WithName(host) # {}
    /\ session' = [id |-> IdOf(ip), host |-> host, review |-> cand[ip].review,
                   rename |-> {d \in WithIp(ip) : host \notin {NoHost, device[d].name}},
                   move |-> {d \in WithName(host) : device[d].ip # ip}]
    /\ UNCHANGED <<cand, device, ignored, freed>> /\ OperatorOnly

\* ... and goes on with what it loaded, on rows that may have changed.
SessionIgnores ==
    /\ session # None /\ session.review \in {"open", "mismatch"} /\ CloseSession
    /\ IF Exists(session.id)
       THEN /\ Review(session.id.ip, "mismatch")
            /\ ignored' = IF session.review = "open" THEN ignored \cup {session.id} ELSE ignored
       ELSE UNCHANGED <<cand, ignored>>
    /\ UNCHANGED <<device, freed>> /\ OperatorOnly

\* The form's name is the operator's choice; a taken name or address, or a
\* candidate that is gone, undoes the whole request.
SessionCreates(name) ==
    /\ session # None /\ session.review = "open" /\ CloseSession /\ Unused # {}
    /\ IF Free(name, session.id.ip) /\ Exists(session.id)
       THEN /\ device' = [device EXCEPT ![CHOOSE d \in Unused : TRUE] =
                             [name |-> name, ip |-> session.id.ip]]
            /\ Review(session.id.ip, "match")
       ELSE UNCHANGED <<cand, device>>
    /\ UNCHANGED <<ignored, freed>> /\ OperatorOnly

\* "Update": the device at this address takes the hostname, the device of this
\* name takes the address.  A device that is gone, or a name or an address that
\* another device has by now, raises and undoes the request.
SessionUpdates ==
    LET id == session.id
        changes == session.rename \cup session.move IN
    /\ session # None /\ session.review = "mismatch" /\ CloseSession
    /\ IF /\ \A d \in changes : Live(d)
          /\ session.rename # {} => WithName(session.host) = {}
          /\ session.move # {} => WithIp(id.ip) = {}
          /\ Exists(id)
       THEN /\ device' = [d \in Devices |->
                  IF d \in session.rename THEN [device[d] EXCEPT !.name = session.host]
                  ELSE IF d \in session.move THEN [device[d] EXCEPT !.ip = id.ip]
                  ELSE device[d]]
            /\ freed' = [ip \in IPs |-> IF \E d \in session.move : device[d].ip = ip
                                        THEN freed[ip] \cup {"moved"} ELSE freed[ip]]
            /\ Review(id.ip, "match")
       ELSE UNCHANGED <<cand, device, freed>>
    /\ UNCHANGED ignored /\ OperatorOnly

SessionEnds ==
    /\ session # None /\ CloseSession
    /\ UNCHANGED <<cand, device, ignored, freed>> /\ OperatorOnly

\* reject_candidates is one UPDATE, promote_to_device a loop over candidates
\* it has loaded, each statement of which commits.
RejectSelected(ip) ==
    /\ Present(ip) /\ Requests("candidates")
    /\ Review(ip, "mismatch")
    /\ UNCHANGED <<device, session, ignored, freed>> /\ OperatorOnly

OpenPromotion(ip) ==
    /\ session = None /\ Present(ip) /\ cand[ip].review # "mismatch" /\ Requests("candidates")
    /\ session' = [id |-> IdOf(ip), host |-> cand[ip].host, review |-> "promoted",
                   rename |-> {}, move |-> {}]
    /\ UNCHANGED <<cand, device, ignored, freed>> /\ OperatorOnly

\* get_or_create by address.  A new device whose name is taken raises: then
\* SessionEnds.
PromotionFinds ==
    LET id == session.id
        name == IF session.host = NoHost THEN Dashed(id.ip) ELSE session.host IN
    /\ session # None /\ session.review = "promoted"
    /\ session' = [session EXCEPT !.review = "match"]
    /\ \/ WithIp(id.ip) # {} /\ UNCHANGED device
       \/ /\ Free(name, id.ip) /\ Unused # {}
          /\ device' = [device EXCEPT ![CHOOSE d \in Unused : TRUE] =
                           [name |-> name, ip |-> id.ip]]
    /\ UNCHANGED <<cand, ignored, freed, requests>> /\ OperatorOnly

\* A candidate that is gone makes the save raise.
PromotionSaves ==
    /\ session # None /\ session.review = "match" /\ CloseSession
    /\ IF Exists(session.id) THEN Review(session.id.ip, "match") ELSE UNCHANGED cand
    /\ UNCHANGED <<device, ignored, freed>> /\ OperatorOnly

-----------------------------------------------------------------------------
(* devices and candidates by hand: the API, the admin, a replacement        *)

InsertDevice(name, ip) ==
    /\ Free(name, ip) /\ Unused # {} /\ Requests("devices")
    /\ device' = [device EXCEPT ![CHOOSE d \in Unused : TRUE] = [name |-> name, ip |-> ip]]
    /\ UNCHANGED <<cand, session, ignored, freed>> /\ OperatorOnly

\* The whole row is saved, loaded earlier and in part typed by somebody.  If it
\* was deleted since, it is inserted again under its primary key.
EditDevice(d, name, ip) ==
    /\ device[d] # None /\ Requests("devices")
    /\ WithName(name) \cup WithIp(ip) \subseteq {d}
    /\ device' = [device EXCEPT ![d] = [name |-> name, ip |-> ip]]
    /\ freed' = IF Live(d) /\ device[d].ip # ip
                THEN [freed EXCEPT ![device[d].ip] = @ \cup {"moved"}] ELSE freed
    /\ UNCHANGED <<cand, session, ignored>> /\ OperatorOnly

\* "Delete selected" of devices calls no Device.delete and drops no candidates.
BulkDelete(gone) ==
    /\ gone # {} /\ (\A d \in gone : Live(d)) /\ Requests("devices")
    /\ device' = [d \in Devices |-> IF d \in gone THEN Gone ELSE device[d]]
    /\ freed' = [ip \in IPs |-> IF \E d \in gone : device[d].ip = ip
                                THEN freed[ip] \cup {"orphaned"} ELSE freed[ip]]
    /\ UNCHANGED <<cand, session, ignored>> /\ OperatorOnly

DeleteCandidate(ip) ==
    /\ Present(ip) /\ Requests("candidates")
    /\ cand' = [cand EXCEPT ![ip] = None]
    /\ UNCHANGED <<device, session, ignored, freed>> /\ OperatorOnly

-----------------------------------------------------------------------------
(* the deletion of one device: Device.delete()                             *)

DeleteOnly == UNCHANGED <<scan, assign, items, session, examined, ignored>>

\* A request has loaded the device; a replacement takes minutes from there.
OpenDelete(d) ==
    /\ dropping = None /\ Live(d) /\ Requests("devices")
    /\ dropping' = [of |-> d, name |-> device[d].name, ip |-> device[d].ip, gone |-> FALSE]
    /\ UNCHANGED <<cand, device, faults, freed>> /\ DeleteOnly

\* super().delete() commits by itself, a deletion of no row included ...
DeleteDevice ==
    LET d == dropping.of IN
    /\ dropping # None /\ ~dropping.gone /\ UNCHANGED requests
    /\ dropping' = [dropping EXCEPT !.gone = TRUE]
    /\ IF Live(d)
       THEN /\ device' = [device EXCEPT ![d] = Gone]
            /\ freed' = [freed EXCEPT ![device[d].ip] = @ \cup
                            {IF device[d].ip = dropping.ip THEN "deleted" ELSE "orphaned"}]
       ELSE UNCHANGED <<device, freed>>
    /\ UNCHANGED <<cand, faults>> /\ DeleteOnly

\* Regression: only the candidate of the same hostname is dropped.
DropCandidatesByName ==
    /\ dropping # None /\ dropping.gone /\ dropping' = None /\ UNCHANGED requests
    /\ cand' = [ip \in IPs |-> IF Present(ip) /\ cand[ip].host = dropping.name
                               THEN None ELSE cand[ip]]
    /\ UNCHANGED <<device, faults, freed>> /\ DeleteOnly

\* ... then the candidates of the address or the name that were loaded go.
DropCandidates ==
    /\ dropping # None /\ dropping.gone /\ dropping' = None /\ UNCHANGED requests
    /\ cand' = [ip \in IPs |->
          IF Present(ip) /\ (ip = dropping.ip \/ cand[ip].host = dropping.name)
          THEN None ELSE cand[ip]]
    /\ UNCHANGED <<device, faults, freed>> /\ DeleteOnly

KillDelete ==
    /\ dropping # None /\ dropping.gone /\ dropping' = None /\ UNCHANGED requests
    /\ Raises
    /\ freed' = [freed EXCEPT ![dropping.ip] = @ \cup {"orphaned"}]
    /\ UNCHANGED <<cand, device>> /\ DeleteOnly

-----------------------------------------------------------------------------
ScanStep(s) ==
    \/ CreateScan(s) \/ StartScan(s) \/ SelectCandidates(s) \/ ClassifyCommit(s)
    \/ ScanRaises(s) \/ SaveScan(s) \/ KillScan(s)
    \/ \E ip \in scan[s].left : ScanRange(s, ip)
    \/ \E id \in DOMAIN scan[s].todo : ClassifyOne(s, id)

JobStep(j) ==
    \/ CreateJob(j) \/ LoadCandidates(j) \/ RecordItem(j) \/ SaveJob(j) \/ KillJob(j)
    \/ \E id \in assign[j].left :
         AssignCandidate(j, id) \/ AssignFails(j, id) \/ AssignRollsBack(j, id)

OperatorStep ==
    \/ \E ip \in IPs : IgnoreSelected(ip) \/ OpenCandidate(ip)
    \/ SessionIgnores \/ SessionUpdates \/ SessionEnds
    \/ \E name \in Given : SessionCreates(name)

AdminStep ==
    \/ \E ip \in IPs : RejectSelected(ip) \/ OpenPromotion(ip) \/ DeleteCandidate(ip)
    \/ PromotionFinds \/ PromotionSaves
    \/ \E name \in Given, ip \in IPs :
          InsertDevice(name, ip) \/ \E d \in Devices : EditDevice(d, name, ip)
    \/ \E gone \in SUBSET Devices : BulkDelete(gone)

DeleteStep ==
    \/ \E d \in Devices : OpenDelete(d)
    \/ DeleteDevice \/ DropCandidates \/ KillDelete

Next == (\E s \in Scans : ScanStep(s)) \/ (\E j \in Jobs : JobStep(j))
        \/ OperatorStep \/ AdminStep \/ DeleteStep

Spec == Init /\ [][Next]_vars

\* A worker that has a task goes on with it, and messages are consumed.
ScanProgress(s) ==
    \/ StartScan(s) \/ SelectCandidates(s) \/ ClassifyCommit(s) \/ SaveScan(s)
    \/ \E ip \in scan[s].left : ScanRange(s, ip)
    \/ \E id \in DOMAIN scan[s].todo : ClassifyOne(s, id)
JobProgress(j) ==
    \/ LoadCandidates(j) \/ RecordItem(j) \/ SaveJob(j)
    \/ \E id \in assign[j].left :
         AssignCandidate(j, id) \/ AssignFails(j, id) \/ AssignRollsBack(j, id)
FairSpec == /\ Spec
            /\ \A s \in Scans : WF_vars(ScanProgress(s))
            /\ \A j \in Jobs : WF_vars(JobProgress(j))

-----------------------------------------------------------------------------
(* A candidate that a scan, a job or a page has listed as an exact match    *)
(* has a device at its address, unless one was there and left it in a way   *)
(* that drops no candidates: moved by another candidate's "update" or by an *)
(* edit of the device, deleted by "delete selected", by a deletion that had *)
(* loaded it at another address, or by one that has not dropped the         *)
(* candidates yet, or died before.  Lookups and saves are apart in every    *)
(* writer, and so are the two halves of a deletion.                         *)
MatchHasDevice ==
    \A ip \in IPs : Present(ip) /\ cand[ip].review = "match" =>
        \/ WithIp(ip) # {}
        \/ freed[ip] \cap {"moved", "orphaned"} # {}
        \/ dropping # None /\ dropping.gone /\ dropping.ip = ip

\* The counts of a job are worth something once it is COMPLETED.
Counts(j) == IF assign[j].status = "completed" THEN [ok |-> assign[j].ok, bad |-> assign[j].bad]
             ELSE None
Contract == INSTANCE AssignContract WITH
    Candidates <- Ids,
    status <- [j \in Jobs |-> assign[j].status],
    wanted <- [j \in Jobs |-> assign[j].wanted],
    counts <- [j \in Jobs |-> Counts(j)]

(* Jobs, their items and the devices follow AssignContract, whoever reviews *)
(* candidates, deletes devices or works on the same candidates meanwhile:   *)
(* each candidate is answered once, a success names a device that is there  *)
(* when its item is stored, COMPLETED means all were answered and counted,  *)
(* and no two devices ever share a name or an address.                      *)
ImplementsContract == Contract!Spec

(* Two jobs that were given the same candidate do not both succeed on it,   *)
(* as long as no device ever left its address.                              *)
OneSuccessPerCandidate ==
    \A it, other \in items :
        it.ok /\ other.ok /\ it.of = other.of /\ freed[it.of.ip] = {} => it = other

(* A candidate that a COMPLETED scan was the last to see, and that is still *)
(* open, has been compared with the inventory by some scan.                 *)
SeenIsExamined ==
    \A ip \in IPs : Present(ip) /\ cand[ip].review = "open"
                    /\ scan[cand[ip].seen].status = "completed"
        => IdOf(ip) \in examined

(* "Candidate marked as ignored. No device assigned." (network/views/       *)
(* discovery.py:543): an ignored candidate is not turned into a device by   *)
(* an auto-assign job.                                                      *)
IgnoredStaysUnassigned ==
    \A it \in items : it.ok => it.of \notin ignored

(* Every scan and every auto-assign job reaches a verdict unless its worker *)
(* is killed or its message was never published.                            *)
JobsEnd ==
    /\ \A s \in Scans : scan[s].status = "pending" ~>
         scan[s].status \in Final \/ scan[s].at = "dead"
    /\ \A j \in Jobs : assign[j].status = "pending" ~>
         assign[j].status \in Final \/ assign[j].at = "dead"
=============================================================================
