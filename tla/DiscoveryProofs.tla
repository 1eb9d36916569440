--------------------------- MODULE DiscoveryProofs ---------------------------
(***************************************************************************)
(* Proofs about Discovery, for any addresses, hosts, devices, scans, jobs  *)
(* and bounds.  Types first; then one inductive invariant for each of the  *)
(* properties, relative to the types.                                      *)
(***************************************************************************)
EXTENDS Discovery, FiniteSetTheorems, TLAPS

(***************************************************************************)
(* Types                                                                   *)
(***************************************************************************)

Some(S, T) == UNION {[D -> T] : D \in SUBSET S}
Reviews == {"open", "match", "mismatch"}
Heard == Hosts \cup {NoHost}
DeviceRows == [name : Names, ip : IPs]
Live3 == Devices \cup {NoDevice, "rolledBack"}
Results == [job : Jobs, of : Ids, ok : BOOLEAN, device : Live3]
Sessions == [id : Ids, host : Heard, review : Reviews \cup {"promoted"},
             rename : SUBSET Devices, move : SUBSET Devices]
Requested == {n \in [Kinds -> Nat] : \A kind \in Kinds : n[kind] <= MaxRequests[kind]}
ScanType ==
    [status : {"new", "pending", "running"} \cup Final,
     at : {"idle", "queued", "ranges", "classify", "committed", "failed", "dead"},
     left : SUBSET Ranges, todo : Some(Ids, Heard), verdict : Some(Ids, Reviews)]
JobType ==
    [status : {"new", "pending", "running"} \cup Final,
     at : {"idle", "queued", "loop", "record", "failed", "dead"},
     wanted : SUBSET Ids, left : SUBSET Ids, loaded : Some(Ids, Heard),
     result : Results \cup {None}, ok : Nat, bad : Nat]

\* What an empty function, and parts of one, are.
LEMMA SomeTyped ==
  /\ \A S, T : <<>> \in Some(S, T)
  /\ \A S, T : \A f \in Some(S, T) : DOMAIN f \subseteq S /\ \A x \in DOMAIN f : f[x] \in T
<1>1. \A T : <<>> \in [{} -> T]  OBVIOUS
<1>2. ASSUME NEW S, NEW T PROVE <<>> \in Some(S, T)
  <2>1. {} \in SUBSET S /\ <<>> \in [{} -> T]  BY <1>1
  <2> QED BY <2>1 DEF Some
<1>3. ASSUME NEW S, NEW T, NEW f \in Some(S, T)
      PROVE  DOMAIN f \subseteq S /\ \A x \in DOMAIN f : f[x] \in T
  <2>1. PICK D \in SUBSET S : f \in [D -> T]  BY DEF Some
  <2> QED BY <2>1
<1> QED BY <1>2, <1>3

Typed ==
    /\ cand \in [IPs -> Rows \cup {None}]
    /\ device \in [Devices -> DeviceRows \cup {None, Gone}]
    /\ scan \in [Scans -> ScanType] /\ assign \in [Jobs -> JobType]
    /\ items \subseteq [job : Jobs, of : Ids, ok : BOOLEAN, device : Devices \cup {NoDevice}]
    /\ session \in Sessions \cup {None} /\ dropping \in Deletions \cup {None}
    /\ faults \in 0..MaxFaults /\ requests \in Requested
    /\ examined \subseteq Ids /\ ignored \subseteq Ids
    /\ freed \in [IPs -> SUBSET {"deleted", "moved", "orphaned"}]

\* What the step of a task says of its row, and of its locals.
ScanPhases == \A s \in Scans :
    /\ scan[s].status = "new" => scan[s].at = "idle"
    /\ scan[s].at = "queued" => scan[s].status = "pending"
    /\ scan[s].at \in {"ranges", "classify", "committed", "failed"} => scan[s].status = "running"
    /\ DOMAIN scan[s].verdict \subseteq DOMAIN scan[s].todo
    /\ scan[s].at \in {"idle", "queued", "ranges"} => DOMAIN scan[s].verdict = {}
JobPhases == \A j \in Jobs :
    /\ assign[j].status = "new" => assign[j].at = "idle" /\ assign[j].left = {}
    /\ assign[j].at = "queued" => assign[j].status = "pending"
    /\ assign[j].at \in {"loop", "record", "failed"} => assign[j].status = "running"
    /\ assign[j].left \subseteq assign[j].wanted
    /\ assign[j].at = "record" =>
         /\ assign[j].result \in Results /\ assign[j].result.job = j
         /\ assign[j].result.of \in assign[j].wanted \ assign[j].left
SessionNames == session # None => (session.rename # {} => session.host # NoHost)

Types == Typed /\ ScanPhases /\ JobPhases /\ SessionNames

\* A candidate that is there is a row with a primary key.
LEMMA RowThere ==
  ASSUME Typed, NEW ip \in IPs, Present(ip)
  PROVE  /\ cand[ip] \in Rows /\ IdOf(ip) \in Ids /\ IdOf(ip).ip = ip
         /\ cand[ip].born \in Scans /\ cand[ip].seen \in Scans
         /\ cand[ip].host \in Heard /\ cand[ip].review \in Reviews
BY DEF Typed, Present, IdOf, Ids, Rows, Heard, Reviews

\* What a query loads.
LEMMA LoadedTyped ==
  ASSUME Typed, NEW ids \in SUBSET Ids
  PROVE  /\ Loaded(ids) \in Some(Ids, Heard)
         /\ DOMAIN Loaded(ids) = {i \in ids : Exists(i)}
<1>1. \A i \in ids : Exists(i) => cand[i.ip].host \in Heard
  BY RowThere DEF Exists, Ids
<1>2. Loaded(ids) \in [{i \in ids : Exists(i)} -> Heard]  BY <1>1 DEF Loaded
<1>3. {i \in ids : Exists(i)} \in SUBSET Ids  OBVIOUS
<1> QED BY <1>2, <1>3 DEF Some, Loaded

\* The open candidates.
LEMMA OpenTyped == ASSUME Typed PROVE OpenIds \in SUBSET Ids
BY RowThere DEF OpenIds

\* A device has a name.
LEMMA NameTyped == ASSUME NEW host \in Heard, NEW ip \in IPs PROVE NameFor(host, ip) \in Names
BY DEF NameFor, Names, Heard

\* The row of a device that is there.
LEMMA LiveTyped ==
  ASSUME Typed, NEW d \in Devices
  PROVE  Live(d) => device[d] \in DeviceRows /\ device[d].name \in Names /\ device[d].ip \in IPs
BY DEF Typed, Live, DeviceRows

\* The scans change one element of scan, which stays a scan.
LEMMA ScanStepTypes ==
  ASSUME Types, NEW s \in Scans, NEW new \in ScanType,
         scan' = [scan EXCEPT ![s] = new],
         UNCHANGED <<device, assign, items, session, dropping, requests, ignored, freed>>,
         cand' \in [IPs -> Rows \cup {None}], faults' \in 0..MaxFaults, examined' \subseteq Ids,
         new.status = "new" => new.at = "idle",
         new.at = "queued" => new.status = "pending",
         new.at \in {"ranges", "classify", "committed", "failed"} => new.status = "running",
         DOMAIN new.verdict \subseteq DOMAIN new.todo,
         new.at \in {"idle", "queued", "ranges"} => DOMAIN new.verdict = {}
  PROVE  Types'
<1> USE DEF Types
<1>1. scan' \in [Scans -> ScanType]  BY DEF Typed
<1>2. scan'[s] = new /\ \A t \in Scans \ {s} : scan'[t] = scan[t]  BY DEF Typed
<1>3. Typed'  BY <1>1 DEF Typed
<1>4. ScanPhases'  BY <1>2 DEF ScanPhases
<1>5. JobPhases'  BY DEF JobPhases
<1>6. SessionNames'  BY DEF SessionNames
<1> QED BY <1>3, <1>4, <1>5, <1>6

\* CreateScan, StartScan, SelectCandidates, ScanRaises, SaveScan and KillScan.
LEMMA ScanTaskTypes ==
  ASSUME Types, NEW s \in Scans,
         \/ CreateScan(s) \/ StartScan(s) \/ SelectCandidates(s)
         \/ ScanRaises(s) \/ SaveScan(s) \/ KillScan(s)
  PROVE  Types'
<1> USE DEF Types
<1>0. scan[s] \in ScanType /\ DOMAIN scan[s].verdict \subseteq DOMAIN scan[s].todo
      /\ cand \in [IPs -> Rows \cup {None}] /\ faults \in 0..MaxFaults /\ examined \subseteq Ids
  BY DEF Typed, ScanPhases
<1>n. NewScan \in ScanType /\ NewScan.at = "idle" /\ NewScan.verdict = NewScan.todo
      /\ DOMAIN NewScan.verdict = {}
  BY SomeTyped DEF NewScan, ScanType
<1>r. Raises => faults' \in 0..MaxFaults  BY <1>0, BoundsAssumption DEF Raises
<1>1. CASE CreateScan(s)
  <2>1. PICK at \in {"queued", "dead"} :
          /\ scan' = [scan EXCEPT ![s] = [scan[s] EXCEPT !.status = "pending", !.at = at]]
          /\ Raises \/ UNCHANGED faults
    BY <1>1 DEF CreateScan, Typed
  <2> DEFINE new == [scan[s] EXCEPT !.status = "pending", !.at = at]
  <2>2. new \in ScanType /\ new.status = "pending" /\ new.at \in {"queued", "dead"}
        /\ new.verdict = scan[s].verdict /\ new.todo = scan[s].todo
    BY <1>0 DEF ScanType
  <2>3. /\ UNCHANGED <<cand, examined, device, assign, items, session, dropping, requests, ignored, freed>>
        /\ scan' = [scan EXCEPT ![s] = new] /\ faults' \in 0..MaxFaults
    BY <1>0, <1>1, <1>r, <2>1 DEF CreateScan, ScanOnly
  <2>4. DOMAIN scan[s].verdict = {}  BY <1>1 DEF CreateScan, ScanPhases
  <2> HIDE DEF new
  <2> QED BY <1>0, <2>2, <2>3, <2>4, ScanStepTypes
<1>2. CASE StartScan(s)
  <2> DEFINE new == [scan[s] EXCEPT !.status = "running", !.at = "ranges", !.left = Ranges]
  <2>1. scan' = [scan EXCEPT ![s] = new]  BY <1>2 DEF StartScan, Typed
  <2>2. new \in ScanType /\ new.status = "running" /\ new.at = "ranges"
        /\ new.verdict = scan[s].verdict /\ new.todo = scan[s].todo
    BY <1>0 DEF ScanType
  <2>3. UNCHANGED <<cand, faults, examined, device, assign, items, session, dropping, requests,
                    ignored, freed>>
    BY <1>2 DEF StartScan, ScanOnly
  <2>4. DOMAIN scan[s].verdict = {}  BY <1>2 DEF StartScan, ScanPhases
  <2> HIDE DEF new
  <2> QED BY <1>0, <2>1, <2>2, <2>3, <2>4, ScanStepTypes
<1>3. CASE SelectCandidates(s)
  <2> DEFINE todo == Loaded({id \in OpenIds : cand[id.ip].seen = s})
             new == [scan[s] EXCEPT !.at = "classify", !.todo = todo]
  <2>0. todo \in Some(Ids, Heard)  BY OpenTyped, LoadedTyped
  <2>1. scan' = [scan EXCEPT ![s] = new] /\ scan[s].at = "ranges"
    BY <1>3 DEF SelectCandidates, Typed
  <2> HIDE DEF todo
  <2>2. new \in ScanType /\ new.status = "running" /\ new.at = "classify"
        /\ new.verdict = scan[s].verdict /\ new.todo = todo
    BY <1>0, <2>0, <2>1 DEF ScanType, ScanPhases
  <2>3. UNCHANGED <<cand, faults, examined, device, assign, items, session, dropping, requests,
                    ignored, freed>>
    BY <1>3 DEF SelectCandidates, ScanOnly
  <2>4. DOMAIN scan[s].verdict = {}
    BY <2>1 DEF ScanPhases
  <2> HIDE DEF new
  <2> QED BY <1>0, <2>1, <2>2, <2>3, <2>4, ScanStepTypes
<1>4. CASE ScanRaises(s)
  <2> DEFINE new == [scan[s] EXCEPT !.at = "failed"]
  <2>1. scan' = [scan EXCEPT ![s] = new] /\ scan[s].at \in {"ranges", "classify"} /\ Raises
    BY <1>4 DEF ScanRaises, At, Typed
  <2>2. new \in ScanType /\ new.status = "running" /\ new.at = "failed"
        /\ new.verdict = scan[s].verdict /\ new.todo = scan[s].todo
    BY <1>0, <2>1 DEF ScanType, ScanPhases
  <2>3. UNCHANGED <<cand, examined, device, assign, items, session, dropping, requests, ignored, freed>>
    BY <1>4 DEF ScanRaises, ScanOnly
  <2> HIDE DEF new
  <2> QED BY <1>0, <1>r, <2>1, <2>2, <2>3, ScanStepTypes
<1>5. CASE SaveScan(s)
  <2>1. PICK status \in Final : scan' = [scan EXCEPT ![s] = [NewScan EXCEPT !.status = status]]
    BY <1>5 DEF SaveScan, Final
  <2> DEFINE new == [NewScan EXCEPT !.status = status]
  <2>2. new \in ScanType /\ new.status # "new" /\ new.at = "idle" /\ new.verdict = new.todo
        /\ DOMAIN new.verdict = {}
    BY <1>n DEF ScanType, Final, NewScan
  <2>3. UNCHANGED <<cand, faults, examined, device, assign, items, session, dropping, requests,
                    ignored, freed>>
    BY <1>5 DEF SaveScan, ScanOnly
  <2>4. scan' = [scan EXCEPT ![s] = new]  BY <2>1
  <2> HIDE DEF new
  <2> QED BY <1>0, <2>2, <2>3, <2>4, ScanStepTypes
<1>6. CASE KillScan(s)
  <2> DEFINE new == [NewScan EXCEPT !.status = "running", !.at = "dead"]
  <2>1. new \in ScanType /\ new.status = "running" /\ new.at = "dead" /\ new.verdict = new.todo
    BY <1>n DEF ScanType, NewScan
  <2>2. UNCHANGED <<cand, examined, device, assign, items, session, dropping, requests, ignored, freed>>
    BY <1>6 DEF KillScan, history
  <2>3. scan' = [scan EXCEPT ![s] = new] /\ Raises  BY <1>6 DEF KillScan
  <2> HIDE DEF new
  <2> QED BY <1>0, <1>r, <2>1, <2>2, <2>3, ScanStepTypes
<1> QED BY <1>1, <1>2, <1>3, <1>4, <1>5, <1>6

\* ScanRange, ClassifyOne and ClassifyCommit.
LEMMA ScanRowTypes ==
  ASSUME Types, NEW s \in Scans,
         \/ ClassifyCommit(s)
         \/ \E ip \in scan[s].left : ScanRange(s, ip)
         \/ \E id \in DOMAIN scan[s].todo : ClassifyOne(s, id)
  PROVE  Types'
<1> USE DEF Types
<1>0. scan[s] \in ScanType /\ DOMAIN scan[s].verdict \subseteq DOMAIN scan[s].todo
      /\ cand \in [IPs -> Rows \cup {None}] /\ faults \in 0..MaxFaults /\ examined \subseteq Ids
      /\ scan[s].verdict \in Some(Ids, Reviews)
  BY DEF Typed, ScanPhases, ScanType
<1>1. CASE ClassifyCommit(s)
  <2>1. PICK at \in {"committed", "failed"} : scan' = [scan EXCEPT ![s] = [scan[s] EXCEPT !.at = at]]
    BY <1>1 DEF ClassifyCommit, At, Typed
  <2> DEFINE new == [scan[s] EXCEPT !.at = at]
             V == scan[s].verdict
  <2>2. new \in ScanType /\ new.status = "running" /\ new.at \in {"committed", "failed"}
        /\ new.verdict = scan[s].verdict /\ new.todo = scan[s].todo
    BY <1>0, <1>1 DEF ScanType, ScanPhases, ClassifyCommit
  <2>3. UNCHANGED <<faults, examined, device, assign, items, session, dropping, requests, ignored, freed>>
        /\ scan' = [scan EXCEPT ![s] = new]
    BY <1>1, <2>1 DEF ClassifyCommit, ScanOnly
  <2>4. cand' \in [IPs -> Rows \cup {None}]
    <3>1. CASE UNCHANGED cand  BY <1>0, <3>1
    <3>2. CASE cand' = [ip \in IPs |-> IF Present(ip) /\ IdOf(ip) \in DOMAIN V
                                       THEN [cand[ip] EXCEPT !.review = V[IdOf(ip)]]
                                       ELSE cand[ip]]
      <4>1. \A id \in DOMAIN V : V[id] \in Reviews  BY <1>0, SomeTyped
      <4>2. ASSUME NEW ip \in IPs, Present(ip), IdOf(ip) \in DOMAIN V
            PROVE  [cand[ip] EXCEPT !.review = V[IdOf(ip)]] \in Rows
        <5>1. cand[ip] \in Rows  BY <4>2, RowThere
        <5>2. V[IdOf(ip)] \in Reviews  BY <4>1, <4>2
        <5> QED BY <5>1, <5>2 DEF Rows, Reviews
      <4> QED BY <1>0, <3>2, <4>2
    <3> QED BY <1>1, <3>1, <3>2 DEF ClassifyCommit
  <2> HIDE DEF new
  <2> QED BY <1>0, <2>2, <2>3, <2>4, ScanStepTypes
<1>2. ASSUME NEW ip \in scan[s].left, ScanRange(s, ip) PROVE Types'
  <2> DEFINE left == scan[s].left \ {ip}
             new == [scan[s] EXCEPT !.left = left]
  <2>1. scan' = [scan EXCEPT ![s] = new] /\ scan[s].at = "ranges"  BY <1>2 DEF ScanRange, Typed
  <2>2. ip \in Ranges /\ ip \in IPs /\ left \in SUBSET Ranges
    BY <1>0, RangesAssumption DEF ScanType
  <2> HIDE DEF left
  <2>3. new \in ScanType /\ new.status = "running" /\ new.at = "ranges"
        /\ new.verdict = scan[s].verdict /\ new.todo = scan[s].todo
        /\ DOMAIN scan[s].verdict = {}
    BY <1>0, <2>1, <2>2 DEF ScanType, ScanPhases
  <2>4. cand' \in [IPs -> Rows \cup {None}]
    <3>1. CASE UNCHANGED cand  BY <1>0, <3>1
    <3>2. ASSUME NEW host \in Answers[ip],
                 cand' = [cand EXCEPT ![ip] =
                    IF Present(ip) THEN [cand[ip] EXCEPT !.host = host, !.seen = s]
                    ELSE [born |-> s, host |-> host, review |-> "open", seen |-> s]]
          PROVE  cand' \in [IPs -> Rows \cup {None}]
      <4>1. host \in Heard  BY <2>2, RangesAssumption DEF Heard
      <4>2. [born |-> s, host |-> host, review |-> "open", seen |-> s] \in Rows
        BY <4>1 DEF Rows, Heard
      <4>3. Present(ip) => [cand[ip] EXCEPT !.host = host, !.seen = s] \in Rows
        <5>1. Present(ip) => cand[ip] \in Rows  BY <2>2, RowThere
        <5> QED BY <4>1, <5>1 DEF Rows, Heard
      <4> QED BY <1>0, <2>2, <3>2, <4>2, <4>3
    <3> QED BY <1>2, <3>1, <3>2 DEF ScanRange
  <2>5. UNCHANGED <<faults, examined, device, assign, items, session, dropping, requests, ignored, freed>>
    BY <1>2 DEF ScanRange, ScanOnly
  <2> HIDE DEF new
  <2> QED BY <1>0, <2>1, <2>3, <2>4, <2>5, ScanStepTypes
<1>3. ASSUME NEW id \in DOMAIN scan[s].todo, ClassifyOne(s, id) PROVE Types'
  <2> DEFINE old == scan[s].verdict
             verdict == [i \in DOMAIN old \cup {id} |->
                           IF i = id THEN Verdict(scan[s].todo[id], id.ip) ELSE old[i]]
             new == [scan[s] EXCEPT !.verdict = verdict]
  <2>1. scan' = [scan EXCEPT ![s] = new] /\ scan[s].at = "classify"
    BY <1>3 DEF ClassifyOne, Typed
  <2>2. id \in Ids  BY <1>0, SomeTyped DEF ScanType
  <2>3. verdict \in Some(Ids, Reviews) /\ DOMAIN verdict \subseteq DOMAIN scan[s].todo
    <3>1. Verdict(scan[s].todo[id], id.ip) \in Reviews  BY DEF Verdict, Reviews
    <3>2. DOMAIN old \subseteq Ids /\ \A i \in DOMAIN old : old[i] \in Reviews
      BY <1>0, SomeTyped
    <3>3. verdict \in [DOMAIN old \cup {id} -> Reviews]  BY <3>1, <3>2
    <3>4. DOMAIN old \cup {id} \in SUBSET Ids  BY <2>2, <3>2
    <3>5. verdict \in Some(Ids, Reviews)  BY <3>3, <3>4 DEF Some
    <3> QED BY <1>0, <3>5
  <2> HIDE DEF verdict
  <2>4. new \in ScanType /\ new.status = "running" /\ new.at = "classify"
        /\ new.verdict = verdict /\ new.todo = scan[s].todo
    BY <1>0, <2>1, <2>3 DEF ScanType, ScanPhases
  <2>5. UNCHANGED <<cand, faults, device, assign, items, session, dropping, requests, ignored, freed>>
        /\ examined' \subseteq Ids
    BY <1>0, <1>3, <2>2 DEF ClassifyOne, ScanOnly
  <2> HIDE DEF new
  <2> QED BY <1>0, <2>1, <2>3, <2>4, <2>5, ScanStepTypes
<1> QED BY <1>1, <1>2, <1>3

\* The auto-assign jobs change one element of assign, which stays a job.
LEMMA JobStepTypes ==
  ASSUME Types, NEW j \in Jobs, NEW new \in JobType,
         assign' = [assign EXCEPT ![j] = new],
         UNCHANGED <<scan, session, dropping, requests, examined, ignored, freed>>,
         cand' \in [IPs -> Rows \cup {None}],
         device' \in [Devices -> DeviceRows \cup {None, Gone}],
         items' \subseteq [job : Jobs, of : Ids, ok : BOOLEAN, device : Devices \cup {NoDevice}],
         faults' \in 0..MaxFaults,
         new.status # "new",
         new.at = "queued" => new.status = "pending",
         new.at \in {"loop", "record", "failed"} => new.status = "running",
         new.left \subseteq new.wanted,
         new.at = "record" => /\ new.result \in Results /\ new.result.job = j
                              /\ new.result.of \in new.wanted \ new.left
  PROVE  Types'
<1> USE DEF Types
<1>1. assign' \in [Jobs -> JobType]  BY DEF Typed
<1>2. assign'[j] = new /\ \A t \in Jobs \ {j} : assign'[t] = assign[t]  BY DEF Typed
<1>3. Typed'  BY <1>1 DEF Typed
<1>4. ScanPhases'  BY DEF ScanPhases
<1>5. JobPhases'  BY <1>2 DEF JobPhases
<1>6. SessionNames'  BY DEF SessionNames
<1> QED BY <1>3, <1>4, <1>5, <1>6

\* A review is a field of a candidate, and a device is a row.
LEMMA ReviewTyped ==
  ASSUME Typed, NEW ip \in IPs, Present(ip), NEW to \in Reviews
  PROVE  [cand EXCEPT ![ip].review = to] \in [IPs -> Rows \cup {None}]
<1>1. [cand[ip] EXCEPT !.review = to] \in Rows  BY RowThere DEF Rows, Reviews
<1> QED BY <1>1 DEF Typed

\* A device that is inserted.
LEMMA InsertTyped ==
  ASSUME Typed, NEW d, NEW name \in Names, NEW ip \in IPs
  PROVE  [device EXCEPT ![d] = [name |-> name, ip |-> ip]]
           \in [Devices -> DeviceRows \cup {None, Gone}]
BY DEF Typed, DeviceRows

\* What Turn makes of a job.
Turned(j, id, ok, d) ==
    [assign[j] EXCEPT !.at = "record", !.left = assign[j].left \ {id},
        !.result = [job |-> j, of |-> id, ok |-> ok, device |-> d],
        !.ok = IF ok THEN assign[j].ok + 1 ELSE assign[j].ok,
        !.bad = IF ok THEN assign[j].bad ELSE assign[j].bad + 1]

\* It counts one candidate, and has its result.
LEMMA TurnTyped ==
  ASSUME Types, NEW j \in Jobs, assign[j].at = "loop", NEW id \in assign[j].left,
         \E ok \in BOOLEAN, d \in Live3 : Turn(j, id, ok, d)
  PROVE  \E new \in JobType :
         /\ assign' = [assign EXCEPT ![j] = new]
         /\ new.at = "record" /\ new.status = "running"
         /\ new.left = assign[j].left \ {id} /\ new.wanted = assign[j].wanted
         /\ new.result \in Results /\ new.result.job = j /\ new.result.of = id
         /\ new.ok + new.bad = assign[j].ok + assign[j].bad + 1
         /\ new.ok = (IF new.result.ok THEN assign[j].ok + 1 ELSE assign[j].ok)
         /\ id \in new.wanted \ new.left /\ new.left \subseteq new.wanted
<1> PICK ok \in BOOLEAN, d \in Live3 : Turn(j, id, ok, d)
  OBVIOUS
<1> DEFINE left == assign[j].left \ {id}
           result == [job |-> j, of |-> id, ok |-> ok, device |-> d]
           good == IF ok THEN assign[j].ok + 1 ELSE assign[j].ok
           bad == IF ok THEN assign[j].bad ELSE assign[j].bad + 1
           new == Turned(j, id, ok, d)
<1>1. assign[j] \in JobType /\ assign[j].status = "running" /\ assign[j].left \subseteq assign[j].wanted
  BY DEF Types, Typed, JobPhases
<1>2. left \in SUBSET Ids /\ good \in Nat /\ bad \in Nat /\ id \in Ids
      /\ good + bad = assign[j].ok + assign[j].bad + 1
      /\ good = (IF result.ok THEN assign[j].ok + 1 ELSE assign[j].ok)
  BY <1>1 DEF JobType
<1>3. result \in Results /\ result.job = j /\ result.of = id  BY <1>2 DEF Results
<1>4. assign' = [assign EXCEPT ![j] = new]  BY DEF Turn, Turned, Types, Typed
<1>5. id \in assign[j].wanted \ left /\ left \subseteq assign[j].wanted  BY <1>1
<1>6. new = [assign[j] EXCEPT !.at = "record", !.left = left, !.result = result,
                              !.ok = good, !.bad = bad]
  BY DEF Turned
<1> HIDE DEF good, bad, result, new
<1>7. new \in JobType /\ new.at = "record" /\ new.status = "running" /\ new.left = left
      /\ new.wanted = assign[j].wanted /\ new.result = result /\ new.ok = good /\ new.bad = bad
  BY <1>1, <1>2, <1>3, <1>6 DEF JobType
<1> QED BY <1>2, <1>3, <1>4, <1>5, <1>7

\* AssignCandidate, AssignFails and AssignRollsBack.
LEMMA AssignTypes ==
  ASSUME Types, NEW j \in Jobs, NEW id \in assign[j].left,
         AssignCandidate(j, id) \/ AssignFails(j, id) \/ AssignRollsBack(j, id)
  PROVE  Types'
<1> USE DEF Types
<1>0. assign[j] \in JobType /\ assign[j].at = "loop" /\ id \in Ids
  BY DEF Typed, AssignCandidate, AssignFails, AssignRollsBack, Job, JobType
<1>1. ASSUME \E ok \in BOOLEAN, d \in Live3 : Turn(j, id, ok, d),
             cand' \in [IPs -> Rows \cup {None}],
             device' \in [Devices -> DeviceRows \cup {None, Gone}],
             UNCHANGED <<items, faults, scan, session, dropping, requests, examined, ignored, freed>>
      PROVE  Types'
  <2>a. Types /\ assign[j].at = "loop"  BY <1>0
  <2>b. \E ok \in BOOLEAN, d \in Live3 : Turn(j, id, ok, d)  BY <1>1
  <2>1. \E new \in JobType :
         /\ assign' = [assign EXCEPT ![j] = new]
         /\ new.at = "record" /\ new.status = "running"
         /\ new.left = assign[j].left \ {id} /\ new.wanted = assign[j].wanted
         /\ new.result \in Results /\ new.result.job = j /\ new.result.of = id
         /\ new.ok + new.bad = assign[j].ok + assign[j].bad + 1
         /\ new.ok = (IF new.result.ok THEN assign[j].ok + 1 ELSE assign[j].ok)
         /\ id \in new.wanted \ new.left /\ new.left \subseteq new.wanted
    BY <2>a, <2>b, TurnTyped
  <2>c. PICK new \in JobType :
         /\ assign' = [assign EXCEPT ![j] = new]
         /\ new.at = "record" /\ new.status = "running"
         /\ new.result \in Results /\ new.result.job = j /\ new.result.of = id
         /\ id \in new.wanted \ new.left /\ new.left \subseteq new.wanted
    BY <2>1
  <2>2. items' \subseteq [job : Jobs, of : Ids, ok : BOOLEAN, device : Devices \cup {NoDevice}]
        /\ faults' \in 0..MaxFaults
    BY <1>1 DEF Typed
  <2> QED BY <1>1, <2>c, <2>2, JobStepTypes
<1>2. CASE AssignCandidate(j, id)
  <2> DEFINE d == CHOOSE e \in Unused : TRUE
             name == NameFor(assign[j].loaded[id], id.ip)
  <2>1. d \in Devices
    <3>1. Unused # {}  BY <1>2 DEF AssignCandidate
    <3> QED BY <3>1 DEF Unused
  <2>2. name \in Names /\ id.ip \in IPs
    <3>1. assign[j].loaded[id] \in Heard  BY <1>0, <1>2, SomeTyped DEF AssignCandidate, JobType
    <3> QED BY <1>0, <3>1, NameTyped DEF Ids
  <2> HIDE DEF d, name
  <2>3. /\ Present(id.ip) /\ device' = [device EXCEPT ![d] = [name |-> name, ip |-> id.ip]]
        /\ cand' = [cand EXCEPT ![id.ip].review = "match"]
        /\ \E ok \in BOOLEAN : Turn(j, id, ok, d)
    BY <1>2 DEF AssignCandidate, Exists, d, name
  <2>4. cand' \in [IPs -> Rows \cup {None}]  BY <2>2, <2>3, ReviewTyped DEF Reviews
  <2>5. device' \in [Devices -> DeviceRows \cup {None, Gone}]  BY <2>2, <2>3, InsertTyped
  <2>6. UNCHANGED <<items, faults, scan, session, dropping, requests, examined, ignored, freed>>
    BY <1>2 DEF AssignCandidate, AssignOnly
  <2> QED BY <1>1, <2>1, <2>3, <2>4, <2>5, <2>6 DEF Live3
<1>3. CASE AssignFails(j, id) \/ AssignRollsBack(j, id)
  <2>1. \E ok \in BOOLEAN, d \in Live3 : Turn(j, id, ok, d)
    BY <1>3 DEF AssignFails, AssignRollsBack, Live3
  <2>2. UNCHANGED <<cand, device, items, faults, scan, session, dropping, requests, examined,
                    ignored, freed>>
    BY <1>3 DEF AssignFails, AssignRollsBack, AssignOnly
  <2>3. cand' \in [IPs -> Rows \cup {None}] /\ device' \in [Devices -> DeviceRows \cup {None, Gone}]
    BY <2>2 DEF Typed
  <2> QED BY <1>1, <2>1, <2>2, <2>3
<1> QED BY <1>2, <1>3

\* CreateJob, LoadCandidates, RecordItem, SaveJob and KillJob.
LEMMA JobTaskTypes ==
  ASSUME Types, NEW j \in Jobs,
         CreateJob(j) \/ LoadCandidates(j) \/ RecordItem(j) \/ SaveJob(j) \/ KillJob(j)
  PROVE  Types'
<1> USE DEF Types
<1>0. /\ assign[j] \in JobType /\ assign[j].left \subseteq assign[j].wanted
      /\ cand \in [IPs -> Rows \cup {None}] /\ device \in [Devices -> DeviceRows \cup {None, Gone}]
      /\ items \subseteq [job : Jobs, of : Ids, ok : BOOLEAN, device : Devices \cup {NoDevice}]
      /\ faults \in 0..MaxFaults
  BY DEF Typed, JobPhases
<1>e. <<>> \in Some(Ids, Heard) /\ {} \in SUBSET Ids  BY SomeTyped
<1>1. CASE CreateJob(j)
  <2>1. PICK wanted \in SUBSET OpenIds :
          assign' = [assign EXCEPT ![j] = [assign[j] EXCEPT !.status = "pending", !.at = "queued",
                                                            !.wanted = wanted]]
    BY <1>1 DEF CreateJob, Typed
  <2>2. UNCHANGED <<cand, device, items, faults, scan, session, dropping, requests, examined,
                    ignored, freed>>
    BY <1>1 DEF CreateJob, AssignOnly
  <2> DEFINE new == [assign[j] EXCEPT !.status = "pending", !.at = "queued", !.wanted = wanted]
  <2>3. wanted \in SUBSET Ids  BY OpenTyped
  <2>4. new \in JobType /\ new.status = "pending" /\ new.at = "queued" /\ new.wanted = wanted
        /\ new.left = assign[j].left
    BY <1>0, <2>3 DEF JobType
  <2>5. assign[j].left = {}  BY <1>1 DEF CreateJob, JobPhases
  <2>6. assign' = [assign EXCEPT ![j] = new]  BY <2>1
  <2> HIDE DEF new
  <2> QED BY <1>0, <2>2, <2>4, <2>5, <2>6, JobStepTypes
<1>2. CASE LoadCandidates(j)
  <2> DEFINE loaded == Loaded(assign[j].wanted)
             new == [assign[j] EXCEPT !.status = "running", !.at = "loop",
                                      !.left = assign[j].wanted, !.loaded = loaded]
  <2>1. loaded \in Some(Ids, Heard)  BY <1>0, LoadedTyped DEF JobType
  <2>2. assign' = [assign EXCEPT ![j] = new]  BY <1>2 DEF LoadCandidates, Typed
  <2> HIDE DEF loaded
  <2>3. UNCHANGED <<cand, device, items, faults, scan, session, dropping, requests, examined,
                    ignored, freed>>
    BY <1>2 DEF LoadCandidates, AssignOnly
  <2>4. new \in JobType /\ new.status = "running" /\ new.at = "loop"
        /\ new.left = assign[j].wanted /\ new.wanted = assign[j].wanted
    BY <1>0, <2>1 DEF JobType
  <2> HIDE DEF new
  <2> QED BY <1>0, <2>2, <2>3, <2>4, JobStepTypes
<1>3. CASE RecordItem(j)
  <2>1. PICK at \in {"loop", "failed"} :
          assign' = [assign EXCEPT ![j] = [assign[j] EXCEPT !.at = at, !.result = None]]
    BY <1>3 DEF RecordItem, Typed
  <2> DEFINE new == [assign[j] EXCEPT !.at = at, !.result = None]
  <2>2. assign' = [assign EXCEPT ![j] = new]  BY <2>1
  <2>3. UNCHANGED <<cand, device, faults, scan, session, dropping, requests, examined, ignored, freed>>
    BY <1>3 DEF RecordItem, AssignOnly
  <2>4. new \in JobType /\ new.status = "running" /\ new.at \in {"loop", "failed"}
        /\ new.left = assign[j].left /\ new.wanted = assign[j].wanted
    BY <1>0, <1>3 DEF JobType, RecordItem, Job, JobPhases
  <2>5. items' \subseteq [job : Jobs, of : Ids, ok : BOOLEAN, device : Devices \cup {NoDevice}]
    <3>1. assign[j].result \in Results  BY <1>3 DEF RecordItem, Job, JobPhases
    <3>2. Referable(j) =>
            assign[j].result \in [job : Jobs, of : Ids, ok : BOOLEAN, device : Devices \cup {NoDevice}]
      BY <3>1 DEF Referable, Results
    <3> QED BY <1>0, <1>3, <3>2 DEF RecordItem
  <2> HIDE DEF new
  <2> QED BY <1>0, <2>2, <2>3, <2>4, <2>5, JobStepTypes
<1>4. CASE SaveJob(j)
  <2>1. PICK status \in Final :
          assign' = [assign EXCEPT ![j] = [assign[j] EXCEPT !.at = "idle", !.left = {},
                                             !.loaded = <<>>, !.status = status]]
    BY <1>4 DEF SaveJob, Typed, Final
  <2> DEFINE new == [assign[j] EXCEPT !.at = "idle", !.left = {}, !.loaded = <<>>, !.status = status]
  <2>2. assign' = [assign EXCEPT ![j] = new]  BY <2>1
  <2>3. UNCHANGED <<cand, device, items, faults, scan, session, dropping, requests, examined,
                    ignored, freed>>
    BY <1>4 DEF SaveJob, AssignOnly
  <2>4. new \in JobType /\ new.status # "new" /\ new.at = "idle" /\ new.left = {}
    BY <1>0, <1>e DEF JobType, Final
  <2> HIDE DEF new
  <2> QED BY <1>0, <2>2, <2>3, <2>4, JobStepTypes
<1>5. CASE KillJob(j)
  <2> DEFINE new == [assign[j] EXCEPT !.at = "dead", !.left = {}, !.loaded = <<>>, !.result = None]
  <2>1. assign' = [assign EXCEPT ![j] = new]  BY <1>5 DEF KillJob, Typed
  <2>2. UNCHANGED <<cand, device, items, scan, session, dropping, requests, examined, ignored, freed>>
        /\ faults' \in 0..MaxFaults
    BY <1>0, <1>5, BoundsAssumption DEF KillJob, AssignOnly, Raises
  <2>3. new \in JobType /\ new.at = "dead" /\ new.left = {} /\ new.status = "running"
    BY <1>0, <1>5, <1>e DEF JobType, KillJob, JobPhases
  <2> HIDE DEF new
  <2> QED BY <1>0, <2>1, <2>2, <2>3, JobStepTypes
<1> QED BY <1>1, <1>2, <1>3, <1>4, <1>5
\* What neither a scan nor a job does leaves both alone.
LEMMA OtherTypes ==
  ASSUME Types, UNCHANGED <<scan, assign, items, examined>>,
         cand' \in [IPs -> Rows \cup {None}],
         device' \in [Devices -> DeviceRows \cup {None, Gone}],
         session' \in Sessions \cup {None}, SessionNames', dropping' \in Deletions \cup {None},
         faults' \in 0..MaxFaults, requests' \in Requested, ignored' \subseteq Ids,
         freed' \in [IPs -> SUBSET {"deleted", "moved", "orphaned"}]
  PROVE  Types'
<1>1. Typed'  BY DEF Types, Typed
<1>2. ScanPhases'  BY DEF Types, ScanPhases
<1>3. JobPhases'  BY DEF Types, JobPhases
<1> QED BY <1>1, <1>2, <1>3 DEF Types

\* A request is counted, up to its bound.
LEMMA RequestsTyped ==
  ASSUME Typed, NEW kind \in Kinds, Requests(kind)
  PROVE  requests' \in Requested
<1>1. /\ requests \in [Kinds -> Nat] /\ MaxRequests \in [Kinds -> Nat]
      /\ \A k \in Kinds : requests[k] <= MaxRequests[k]
  BY BoundsAssumption DEF Typed, Requested
<1>2. requests[kind] < MaxRequests[kind] /\ requests' = [requests EXCEPT ![kind] = requests[kind] + 1]
  BY DEF Requests
<1>3. requests' \in [Kinds -> Nat]  BY <1>1, <1>2
<1>4. ASSUME NEW k \in Kinds PROVE requests'[k] <= MaxRequests[k]
  <2>1. CASE k = kind  BY <1>1, <1>2, <2>1
  <2>2. CASE k # kind  BY <1>1, <1>2, <2>2
  <2> QED BY <2>1, <2>2
<1> QED BY <1>3, <1>4 DEF Requested

\* IgnoreSelected, OpenCandidate and SessionIgnores.
LEMMA ReviewPageTypes ==
  ASSUME Types, \/ \E ip \in IPs : IgnoreSelected(ip) \/ OpenCandidate(ip)
                \/ SessionIgnores \/ SessionEnds
  PROVE  Types'
<1>0. Typed /\ SessionNames /\ device \in [Devices -> DeviceRows \cup {None, Gone}]
      /\ cand \in [IPs -> Rows \cup {None}] /\ ignored \subseteq Ids
      /\ freed \in [IPs -> SUBSET {"deleted", "moved", "orphaned"}]
      /\ dropping \in Deletions \cup {None} /\ faults \in 0..MaxFaults
      /\ requests \in Requested /\ session \in Sessions \cup {None}
  BY DEF Types, Typed
<1>r. Requests("candidates") => requests' \in Requested  BY <1>0, RequestsTyped DEF Kinds
<1>1. ASSUME NEW ip \in IPs, IgnoreSelected(ip) PROVE Types'
  <2>1. cand' \in [IPs -> Rows \cup {None}]
    BY <1>0, <1>1, ReviewTyped DEF IgnoreSelected, Review, Reviews
  <2>2. ignored' \subseteq Ids  BY <1>0, <1>1, RowThere DEF IgnoreSelected
  <2>3. UNCHANGED <<scan, assign, items, examined, device, session, dropping, faults, freed>>
        /\ requests' \in Requested
    BY <1>1, <1>r DEF IgnoreSelected, OperatorOnly
  <2>4. SessionNames'  BY <1>0, <2>3 DEF SessionNames
  <2> QED BY <1>0, <2>1, <2>2, <2>3, <2>4, OtherTypes
<1>2. ASSUME NEW ip \in IPs, OpenCandidate(ip) PROVE Types'
  <2>1. UNCHANGED <<scan, assign, items, examined, cand, device, dropping, faults, freed, ignored>>
        /\ requests' \in Requested /\ Present(ip)
    BY <1>2, <1>r DEF OpenCandidate, OperatorOnly
  <2> DEFINE host == cand[ip].host
             rename == {d \in WithIp(ip) : host \notin {NoHost, device[d].name}}
             move == {d \in WithName(host) : device[d].ip # ip}
  <2>2. session' = [id |-> IdOf(ip), host |-> host, review |-> cand[ip].review,
                    rename |-> rename, move |-> move]
    BY <1>2 DEF OpenCandidate
  <2>3. IdOf(ip) \in Ids /\ host \in Heard /\ cand[ip].review \in Reviews \cup {"promoted"}
    BY <1>0, <2>1, RowThere
  <2>4. rename \in SUBSET Devices /\ move \in SUBSET Devices  BY DEF WithIp, WithName
  <2>5. rename # {} => host # NoHost  OBVIOUS
  <2> HIDE DEF host, rename, move
  <2>6. session' \in Sessions  BY <2>2, <2>3, <2>4 DEF Sessions
  <2>7. SessionNames'  BY <2>2, <2>5 DEF SessionNames
  <2> QED BY <1>0, <2>1, <2>6, <2>7, OtherTypes
<1>3. CASE SessionIgnores
  <2>1. session \in Sessions /\ session' = None
        /\ UNCHANGED <<scan, assign, items, examined, device, dropping, faults, freed, requests>>
    BY <1>0, <1>3 DEF SessionIgnores, CloseSession, OperatorOnly
  <2>2. session.id \in Ids  BY <2>1 DEF Sessions
  <2>3. Exists(session.id) => Present(session.id.ip) /\ session.id.ip \in IPs
    BY <2>2 DEF Exists, Ids
  <2>4. cand' \in [IPs -> Rows \cup {None}]
    <3>1. \/ UNCHANGED cand
          \/ Exists(session.id) /\ cand' = [cand EXCEPT ![session.id.ip].review = "mismatch"]
      BY <1>3 DEF SessionIgnores, Review
    <3> QED BY <1>0, <2>3, <3>1, ReviewTyped DEF Reviews
  <2>5. ignored' \subseteq Ids  BY <1>0, <1>3, <2>2 DEF SessionIgnores
  <2>6. SessionNames'  BY <2>1 DEF SessionNames
  <2> QED BY <1>0, <2>1, <2>4, <2>5, <2>6, OtherTypes
<1>4. CASE SessionEnds
  <2>1. session' = None
        /\ UNCHANGED <<scan, assign, items, examined, cand, device, dropping, faults, freed, ignored,
                       requests>>
    BY <1>4 DEF SessionEnds, CloseSession, OperatorOnly
  <2>2. SessionNames'  BY <2>1 DEF SessionNames
  <2> QED BY <1>0, <2>1, <2>2, OtherTypes
<1> QED BY <1>1, <1>2, <1>3, <1>4

\* SessionCreates and SessionUpdates, which write devices too.
LEMMA DevicePageTypes ==
  ASSUME Types, (\E name \in Given : SessionCreates(name)) \/ SessionUpdates
  PROVE  Types'
<1>0. Typed /\ SessionNames /\ device \in [Devices -> DeviceRows \cup {None, Gone}]
      /\ cand \in [IPs -> Rows \cup {None}] /\ ignored \subseteq Ids
      /\ freed \in [IPs -> SUBSET {"deleted", "moved", "orphaned"}]
      /\ dropping \in Deletions \cup {None} /\ faults \in 0..MaxFaults
      /\ requests \in Requested
  BY DEF Types, Typed
<1> DEFINE id == session.id
<1>1. session \in Sessions /\ session # None /\ session' = None
      /\ UNCHANGED <<scan, assign, items, examined, dropping, faults, requests, ignored>>
  BY DEF SessionCreates, SessionUpdates, CloseSession, OperatorOnly, Types, Typed
<1>2. id \in Ids /\ id.ip \in IPs /\ (Exists(id) => Present(id.ip))
  BY <1>1 DEF Sessions, Exists, Ids
<1> HIDE DEF id
<1>3. SessionNames'  BY <1>1 DEF SessionNames
<1>4. cand' \in [IPs -> Rows \cup {None}]
  <2>1. UNCHANGED cand \/ (Exists(id) /\ cand' = [cand EXCEPT ![id.ip].review = "match"])
    BY DEF SessionCreates, SessionUpdates, Review, id
  <2> QED BY <1>0, <1>2, <2>1, ReviewTyped DEF Reviews
<1>5. device' \in [Devices -> DeviceRows \cup {None, Gone}]
  <2>1. ASSUME NEW name \in Given, SessionCreates(name)
        PROVE  device' \in [Devices -> DeviceRows \cup {None, Gone}]
    <3> DEFINE d == CHOOSE e \in Unused : TRUE
    <3>1. UNCHANGED device \/ device' = [device EXCEPT ![d] = [name |-> name, ip |-> id.ip]]
      BY <2>1 DEF SessionCreates, id
    <3> HIDE DEF d
    <3> QED BY <1>0, <1>2, <3>1, GivenAssumption, InsertTyped
  <2>2. ASSUME SessionUpdates PROVE device' \in [Devices -> DeviceRows \cup {None, Gone}]
    <3>1. CASE UNCHANGED device  BY <1>0, <3>1
    <3>2. CASE /\ \A d \in session.rename \cup session.move : Live(d)
               /\ device' = [d \in Devices |->
                    IF d \in session.rename THEN [device[d] EXCEPT !.name = session.host]
                    ELSE IF d \in session.move THEN [device[d] EXCEPT !.ip = id.ip]
                    ELSE device[d]]
      <4>1. ASSUME NEW d \in Devices, d \in session.rename
            PROVE  [device[d] EXCEPT !.name = session.host] \in DeviceRows
        <5>1. device[d] \in DeviceRows  BY <1>0, <3>2, <4>1, LiveTyped
        <5>2. session.host \in Names
          BY <1>0, <1>1, <4>1 DEF SessionNames, Sessions, Heard, Names
        <5> QED BY <5>1, <5>2 DEF DeviceRows
      <4>2. ASSUME NEW d \in Devices, d \in session.move
            PROVE  [device[d] EXCEPT !.ip = id.ip] \in DeviceRows
        <5>1. device[d] \in DeviceRows  BY <1>0, <3>2, <4>2, LiveTyped
        <5> QED BY <1>2, <5>1 DEF DeviceRows
      <4> QED BY <1>0, <3>2, <4>1, <4>2
    <3> QED BY <2>2, <3>1, <3>2 DEF SessionUpdates, id
  <2> QED BY <2>1, <2>2
<1>6. freed' \in [IPs -> SUBSET {"deleted", "moved", "orphaned"}]
  <2>1. \/ UNCHANGED freed
        \/ freed' = [ip \in IPs |-> IF \E d \in session.move : device[d].ip = ip
                                    THEN freed[ip] \cup {"moved"} ELSE freed[ip]]
    BY DEF SessionCreates, SessionUpdates
  <2> QED BY <1>0, <2>1
<1> QED BY <1>0, <1>1, <1>3, <1>4, <1>5, <1>6, OtherTypes

\* OpenDelete, DeleteDevice, DropCandidates and KillDelete.
LEMMA DeleteTypes == ASSUME Types, DeleteStep PROVE Types'
<1>0. Typed /\ SessionNames /\ device \in [Devices -> DeviceRows \cup {None, Gone}]
      /\ cand \in [IPs -> Rows \cup {None}] /\ ignored \subseteq Ids
      /\ freed \in [IPs -> SUBSET {"deleted", "moved", "orphaned"}]
      /\ dropping \in Deletions \cup {None} /\ faults \in 0..MaxFaults
      /\ requests \in Requested /\ session \in Sessions \cup {None}
  BY DEF Types, Typed
<1>1. UNCHANGED <<scan, assign, items, session, examined, ignored>>
  BY DEF DeleteStep, OpenDelete, DeleteDevice, DropCandidates, KillDelete, DeleteOnly
<1>2. SessionNames'  BY <1>0, <1>1 DEF SessionNames
<1>3. ASSUME NEW d \in Devices, OpenDelete(d) PROVE Types'
  <2>1. device[d] \in DeviceRows  BY <1>0, <1>3, LiveTyped DEF OpenDelete
  <2>2. dropping' \in Deletions  BY <1>3, <2>1 DEF OpenDelete, DeviceRows, Deletions
  <2>3. UNCHANGED <<cand, device, faults, freed>> /\ requests' \in Requested
    BY <1>0, <1>3, RequestsTyped DEF OpenDelete, Kinds
  <2> QED BY <1>0, <1>1, <1>2, <2>2, <2>3, OtherTypes
<1>4. CASE DropCandidates
  <2>1. cand' \in [IPs -> Rows \cup {None}]  BY <1>0, <1>4 DEF DropCandidates
  <2>2. UNCHANGED <<device, faults, freed, requests>> /\ dropping' = None
    BY <1>4 DEF DropCandidates
  <2> QED BY <1>0, <1>1, <1>2, <2>1, <2>2, OtherTypes
<1>5. CASE KillDelete
  <2>1. freed' \in [IPs -> SUBSET {"deleted", "moved", "orphaned"}]
    BY <1>0, <1>5 DEF KillDelete
  <2>2. UNCHANGED <<cand, device, requests>> /\ dropping' = None /\ faults' \in 0..MaxFaults
    BY <1>0, <1>5, BoundsAssumption DEF KillDelete, Raises
  <2> QED BY <1>0, <1>1, <1>2, <2>1, <2>2, OtherTypes
<1>6. CASE DeleteDevice
  <2>1. UNCHANGED <<cand, faults, requests>> /\ dropping \in Deletions
        /\ dropping' = [dropping EXCEPT !.gone = TRUE]
    BY <1>0, <1>6 DEF DeleteDevice
  <2>2. dropping' \in Deletions  BY <2>1 DEF Deletions
  <2>3. device' \in [Devices -> DeviceRows \cup {None, Gone}]  BY <1>0, <1>6 DEF DeleteDevice
  <2>4. freed' \in [IPs -> SUBSET {"deleted", "moved", "orphaned"}]
    BY <1>0, <1>6 DEF DeleteDevice
  <2> QED BY <1>0, <1>1, <1>2, <2>1, <2>2, <2>3, <2>4, OtherTypes
<1> QED BY <1>3, <1>4, <1>5, <1>6 DEF DeleteStep

(***************************************************************************)
(* What is done by hand: every step of AdminStep in a few words            *)
(***************************************************************************)

\* One row of Device is written, over nothing or over what was there.
Written(d, row) ==
    /\ WithName(row.name) \cup WithIp(row.ip) \subseteq {d}
    /\ device' = [device EXCEPT ![d] = row]
    /\ freed' = IF Live(d) /\ device[d].ip # row.ip
                THEN [freed EXCEPT ![device[d].ip] = @ \cup {"moved"}] ELSE freed
\* Rows of Device are removed and nothing else.
Removed(gone) ==
    /\ \A d \in gone : Live(d)
    /\ device' = [d \in Devices |-> IF d \in gone THEN Gone ELSE device[d]]
    /\ freed' = [ip \in IPs |-> IF \E d \in gone : device[d].ip = ip
                                THEN freed[ip] \cup {"orphaned"} ELSE freed[ip]]
\* A promotion that has found or made its device saves the candidate.
Promoted(ip) ==
    /\ session # None /\ session.review = "match" /\ session.id.ip = ip /\ Exists(session.id)
    /\ cand'[ip] = [cand[ip] EXCEPT !.review = "match"] /\ UNCHANGED <<device, freed>>

\* Nothing by hand touches tasks, items or deletions.
LEMMA AdminAlone ==
  ASSUME AdminStep
  PROVE  UNCHANGED <<scan, assign, items, dropping, faults, examined, ignored>>
BY DEF AdminStep, RejectSelected, OpenPromotion, DeleteCandidate, PromotionFinds, PromotionSaves,
       InsertDevice, EditDevice, BulkDelete, OperatorOnly

\* A row inserted where there was none is one written over nothing.
LEMMA InsertWrites ==
  ASSUME Types, NEW name \in Names, NEW ip \in IPs, Free(name, ip), Unused # {},
         device' = [device EXCEPT ![CHOOSE d \in Unused : TRUE] = [name |-> name, ip |-> ip]],
         freed' = freed
  PROVE  \E d \in Devices, row \in DeviceRows : Written(d, row)
<1> DEFINE d == CHOOSE e \in Unused : TRUE
           row == [name |-> name, ip |-> ip]
<1>1. d \in Devices /\ ~Live(d)  BY DEF Unused, Live
<1>2. device' = [device EXCEPT ![d] = row]  OBVIOUS
<1> HIDE DEF d
<1>3. row \in DeviceRows /\ row.name = name /\ row.ip = ip  BY DEF DeviceRows
<1> HIDE DEF row
<1>4. Written(d, row)  BY <1>1, <1>2, <1>3 DEF Written, Free
<1> QED BY <1>1, <1>3, <1>4

\* Devices are written one by one, or removed together.
LEMMA AdminDevices ==
  ASSUME Types, AdminStep
  PROVE  \/ UNCHANGED <<device, freed>>
         \/ \E d \in Devices, row \in DeviceRows : Written(d, row)
         \/ \E gone \in SUBSET Devices : Removed(gone)
<1>1. (\E ip \in IPs : RejectSelected(ip) \/ OpenPromotion(ip) \/ DeleteCandidate(ip)) \/ PromotionSaves
      => UNCHANGED <<device, freed>>
  BY DEF RejectSelected, OpenPromotion, DeleteCandidate, PromotionSaves
<1>2. ASSUME NEW name \in Given, NEW ip \in IPs, InsertDevice(name, ip)
      PROVE  \E d \in Devices, row \in DeviceRows : Written(d, row)
  <2>1. name \in Names /\ Free(name, ip) /\ Unused # {} /\ freed' = freed
        /\ device' = [device EXCEPT ![CHOOSE d \in Unused : TRUE] = [name |-> name, ip |-> ip]]
    BY <1>2, GivenAssumption DEF InsertDevice
  <2> QED BY <2>1, InsertWrites
<1>3. ASSUME NEW name \in Given, NEW ip \in IPs, NEW d \in Devices, EditDevice(d, name, ip)
      PROVE  \E row \in DeviceRows : Written(d, row)
  <2> DEFINE row == [name |-> name, ip |-> ip]
  <2>1. row \in DeviceRows /\ row.name = name /\ row.ip = ip  BY GivenAssumption DEF DeviceRows
  <2>2. /\ WithName(name) \cup WithIp(ip) \subseteq {d} /\ device' = [device EXCEPT ![d] = row]
        /\ freed' = IF Live(d) /\ device[d].ip # ip
                    THEN [freed EXCEPT ![device[d].ip] = @ \cup {"moved"}] ELSE freed
    BY <1>3 DEF EditDevice
  <2> HIDE DEF row
  <2>3. Written(d, row)  BY <2>1, <2>2 DEF Written
  <2> QED BY <2>1, <2>3
<1>4. ASSUME PromotionFinds
      PROVE  UNCHANGED <<device, freed>> \/ \E d \in Devices, row \in DeviceRows : Written(d, row)
  <2> DEFINE id == session.id
             name == IF session.host = NoHost THEN Dashed(id.ip) ELSE session.host
  <2>1. session \in Sessions  BY <1>4 DEF PromotionFinds, Types, Typed
  <2>2. id \in Ids /\ id.ip \in IPs /\ session.host \in Heard  BY <2>1 DEF Sessions, Ids
  <2>3. name \in Names  BY <2>2 DEF Names, Heard
  <2>4. freed' = freed /\ \/ device' = device
                          \/ /\ Free(name, id.ip) /\ Unused # {}
                             /\ device' = [device EXCEPT ![CHOOSE d \in Unused : TRUE] =
                                             [name |-> name, ip |-> id.ip]]
    BY <1>4 DEF PromotionFinds
  <2> HIDE DEF name, id
  <2> QED BY <2>2, <2>3, <2>4, InsertWrites
<1>5. ASSUME NEW gone \in SUBSET Devices, BulkDelete(gone) PROVE Removed(gone)
  BY <1>5 DEF BulkDelete, Removed
<1> QED BY <1>1, <1>2, <1>3, <1>4, <1>5 DEF AdminStep

\* A candidate is left alone, removed, rejected or promoted.
LEMMA AdminCandidates ==
  ASSUME Types, AdminStep, NEW ip \in IPs
  PROVE  \/ cand'[ip] = cand[ip] \/ cand'[ip] = None
         \/ Present(ip) /\ cand'[ip] = [cand[ip] EXCEPT !.review = "mismatch"]
         \/ Present(ip) /\ Promoted(ip)
<1>0. cand \in [IPs -> Rows \cup {None}]  BY DEF Types, Typed
<1>1. ASSUME NEW at \in IPs, RejectSelected(at)
      PROVE  \/ cand'[ip] = cand[ip]
             \/ Present(ip) /\ cand'[ip] = [cand[ip] EXCEPT !.review = "mismatch"]
  BY <1>0, <1>1 DEF RejectSelected, Review
<1>2. ASSUME NEW at \in IPs, DeleteCandidate(at) PROVE cand'[ip] = cand[ip] \/ cand'[ip] = None
  BY <1>0, <1>2 DEF DeleteCandidate
<1>3. ASSUME PromotionSaves
      PROVE  cand'[ip] = cand[ip] \/ (Present(ip) /\ Promoted(ip))
  <2>1. CASE ~Exists(session.id)  BY <1>3, <2>1 DEF PromotionSaves
  <2>2. CASE Exists(session.id)
    <3>1. /\ session # None /\ session.review = "match" /\ UNCHANGED <<device, freed>>
          /\ cand' = [cand EXCEPT ![session.id.ip].review = "match"]
      BY <1>3, <2>2 DEF PromotionSaves, Review
    <3>2. CASE session.id.ip = ip
      BY <1>0, <2>2, <3>1, <3>2 DEF Promoted, Exists
    <3>3. CASE session.id.ip # ip  BY <1>0, <3>1, <3>3
    <3> QED BY <3>2, <3>3
  <2> QED BY <2>1, <2>2
<1>4. (\E at \in IPs : OpenPromotion(at)) \/ PromotionFinds
      \/ (\E name \in Given, at \in IPs : InsertDevice(name, at) \/ \E d \in Devices : EditDevice(d, name, at))
      \/ (\E gone \in SUBSET Devices : BulkDelete(gone)) => cand' = cand
  BY DEF OpenPromotion, PromotionFinds, InsertDevice, EditDevice, BulkDelete
<1> QED BY <1>1, <1>2, <1>3, <1>4 DEF AdminStep

\* A device that is inserted or stays is there.
LEMMA LiveRow == ASSUME NEW row \in DeviceRows PROVE row \notin {None, Gone}
BY NoneAssumption DEF DeviceRows

\* A row that is written is there afterwards, and the others are as they were.
LEMMA WrittenRow ==
  ASSUME Types, NEW d \in Devices, NEW row \in DeviceRows, Written(d, row)
  PROVE  /\ device'[d] = row /\ Live(d)'
         /\ \A e \in Devices \ {d} : device'[e] = device[e]
<1>1. device'[d] = row /\ \A e \in Devices \ {d} : device'[e] = device[e]
  BY DEF Written, Types, Typed
<1>2. row \notin {None, Gone}  BY LiveRow
<1> QED BY <1>1, <1>2 DEF Live

\* The page that is open is left alone, closed, opened for a promotion, or the
\* promotion has found or made its device.
LEMMA AdminPage ==
  ASSUME AdminStep
  PROVE  \/ session' = session \/ session' = None
         \/ \E ip \in IPs : OpenPromotion(ip)
         \/ PromotionFinds
BY DEF AdminStep, RejectSelected, DeleteCandidate, PromotionSaves, CloseSession, InsertDevice,
       EditDevice, BulkDelete

\* What is done by hand keeps the types.
LEMMA AdminTypes == ASSUME Types, AdminStep PROVE Types'
<1>0. Typed /\ SessionNames /\ device \in [Devices -> DeviceRows \cup {None, Gone}]
      /\ cand \in [IPs -> Rows \cup {None}] /\ ignored \subseteq Ids
      /\ freed \in [IPs -> SUBSET {"deleted", "moved", "orphaned"}]
      /\ dropping \in Deletions \cup {None} /\ faults \in 0..MaxFaults
      /\ requests \in Requested /\ session \in Sessions \cup {None}
  BY DEF Types, Typed
<1>1. UNCHANGED <<scan, assign, items, dropping, faults, examined, ignored>>  BY AdminAlone
<1>2. requests' \in Requested
  <2>1. requests' = requests \/ Requests("candidates") \/ Requests("devices")
    BY DEF AdminStep, RejectSelected, OpenPromotion, DeleteCandidate, PromotionFinds, PromotionSaves,
           CloseSession, InsertDevice, EditDevice, BulkDelete
  <2> QED BY <1>0, <2>1, RequestsTyped DEF Kinds
<1>3. device' \in [Devices -> DeviceRows \cup {None, Gone}]
      /\ freed' \in [IPs -> SUBSET {"deleted", "moved", "orphaned"}]
  <2>1. CASE UNCHANGED <<device, freed>>  BY <1>0, <2>1
  <2>2. ASSUME NEW d \in Devices, NEW row \in DeviceRows, Written(d, row)
        PROVE  device' \in [Devices -> DeviceRows \cup {None, Gone}]
               /\ freed' \in [IPs -> SUBSET {"deleted", "moved", "orphaned"}]
    BY <1>0, <2>2 DEF Written
  <2>3. ASSUME NEW gone \in SUBSET Devices, Removed(gone)
        PROVE  device' \in [Devices -> DeviceRows \cup {None, Gone}]
               /\ freed' \in [IPs -> SUBSET {"deleted", "moved", "orphaned"}]
    BY <1>0, <2>3 DEF Removed
  <2> QED BY <2>1, <2>2, <2>3, AdminDevices
<1>4. cand' \in [IPs -> Rows \cup {None}]
  <2>1. \A ip \in IPs : Present(ip) => \A to \in Reviews :
          [cand EXCEPT ![ip].review = to] \in [IPs -> Rows \cup {None}]
    BY <1>0, ReviewTyped
  <2>2. \A ip \in IPs : RejectSelected(ip) => cand' \in [IPs -> Rows \cup {None}]
    BY <2>1 DEF RejectSelected, Review, Reviews
  <2>3. \A ip \in IPs : DeleteCandidate(ip) => cand' \in [IPs -> Rows \cup {None}]
    BY <1>0 DEF DeleteCandidate
  <2>4. PromotionSaves => cand' \in [IPs -> Rows \cup {None}]
    <3>1. session # None => session.id.ip \in IPs  BY <1>0 DEF Sessions, Ids
    <3> QED BY <1>0, <2>1, <3>1 DEF PromotionSaves, Review, Reviews, Exists
  <2>5. (\E at \in IPs : OpenPromotion(at)) \/ PromotionFinds
        \/ (\E name \in Given, at \in IPs :
               InsertDevice(name, at) \/ \E d \in Devices : EditDevice(d, name, at))
        \/ (\E gone \in SUBSET Devices : BulkDelete(gone)) => cand' = cand
    BY DEF OpenPromotion, PromotionFinds, InsertDevice, EditDevice, BulkDelete
  <2> QED BY <1>0, <2>2, <2>3, <2>4, <2>5 DEF AdminStep
<1>5. session' \in Sessions \cup {None} /\ SessionNames'
  <2>1. CASE session' = session \/ session' = None  BY <1>0, <2>1 DEF SessionNames
  <2>2. ASSUME NEW ip \in IPs, OpenPromotion(ip) PROVE session' \in Sessions /\ SessionNames'
    <3>1. session' = [id |-> IdOf(ip), host |-> cand[ip].host, review |-> "promoted",
                      rename |-> {}, move |-> {}] /\ Present(ip)
      BY <2>2 DEF OpenPromotion
    <3>2. IdOf(ip) \in Ids /\ cand[ip].host \in Heard  BY <1>0, <3>1, RowThere
    <3> QED BY <3>1, <3>2 DEF Sessions, SessionNames
  <2>3. CASE PromotionFinds
    <3>1. session \in Sessions /\ session' = [session EXCEPT !.review = "match"] /\ session # None
      BY <1>0, <2>3 DEF PromotionFinds
    <3> QED BY <1>0, <3>1 DEF Sessions, SessionNames, Reviews
  <2> QED BY <2>1, <2>2, <2>3, AdminPage
<1> QED BY <1>0, <1>1, <1>2, <1>3, <1>4, <1>5, OtherTypes

\* The first state has these types.
LEMMA InitTypes == Init => Types
<1> SUFFICES ASSUME Init PROVE Types  OBVIOUS
<1> USE DEF Init
<1>1. scan \in [Scans -> ScanType]  BY SomeTyped DEF NewScan, ScanType
<1>2. assign \in [Jobs -> JobType]  BY SomeTyped DEF NewJob, JobType
<1>3. device \in [Devices -> DeviceRows \cup {None, Gone}]
  BY InventoryAssumption DEF DeviceRows
<1>r. requests \in Requested  BY BoundsAssumption DEF Requested
<1>4. Typed  BY <1>1, <1>2, <1>3, <1>r, BoundsAssumption DEF Typed
<1>5. ScanPhases  BY DEF ScanPhases, NewScan, Final
<1>6. JobPhases  BY DEF JobPhases, NewJob, Final
<1>7. SessionNames  BY DEF SessionNames
<1> QED BY <1>4, <1>5, <1>6, <1>7 DEF Types

\* Every step keeps them.
LEMMA NextTypes == Types /\ [Next]_vars => Types'
<1> SUFFICES ASSUME Types, [Next]_vars PROVE Types'  OBVIOUS
<1>1. ASSUME NEW s \in Scans, ScanStep(s) PROVE Types'
  BY <1>1, ScanTaskTypes, ScanRowTypes DEF ScanStep
<1>2. ASSUME NEW j \in Jobs, JobStep(j) PROVE Types'
  BY <1>2, JobTaskTypes, AssignTypes DEF JobStep
<1>3. CASE OperatorStep  BY <1>3, ReviewPageTypes, DevicePageTypes DEF OperatorStep
<1>4. CASE DeleteStep  BY <1>4, DeleteTypes
<1>5. CASE AdminStep  BY <1>5, AdminTypes
<1>6. CASE UNCHANGED vars
  BY <1>6 DEF vars, Types, Typed, ScanPhases, JobPhases, SessionNames
<1> QED BY <1>1, <1>2, <1>3, <1>4, <1>5, <1>6 DEF Next

\* TypeOK, with what the locals of every task and of the open page hold: every
\* transaction of a scan, a job, a page or a deletion leaves rows of the tables.
THEOREM TypeCorrect == Spec => []TypeOK
<1>1. Types => TypeOK
  <2> SUFFICES ASSUME Types PROVE TypeOK  OBVIOUS
  <2>1. ASSUME NEW s \in Scans
        PROVE  DOMAIN scan[s].todo \subseteq Ids /\ DOMAIN scan[s].verdict \subseteq Ids
    BY SomeTyped DEF Types, Typed, ScanType
  <2>2. ASSUME NEW j \in Jobs
        PROVE  assign[j] \in JobType /\ assign[j].left \subseteq assign[j].wanted
    BY DEF Types, Typed, JobPhases
  <2>3. ASSUME NEW s \in Scans PROVE scan[s] \in ScanType  BY DEF Types, Typed
  <2> QED BY <2>1, <2>2, <2>3 DEF Types, Typed, TypeOK, ScanType, JobType, DeviceRows, Requested
<1> QED BY <1>1, InitTypes, NextTypes, PTL DEF Spec
(***************************************************************************)
(* A completed scan has examined the candidates it saw                     *)
(***************************************************************************)

\* What happens to a candidate outside a scan: it is reviewed, or it goes.
Reviewed(ip, row) ==
    \/ row = cand[ip] \/ row = None
    \/ Present(ip) /\ \E to \in {"match", "mismatch"} : row = [cand[ip] EXCEPT !.review = to]

\* A review of one candidate.
LEMMA OneReview ==
  ASSUME Types, NEW at \in IPs, Present(at), NEW to \in {"match", "mismatch"},
         cand' = [cand EXCEPT ![at].review = to], NEW ip \in IPs
  PROVE  Reviewed(ip, cand'[ip])
BY DEF Reviewed, Types, Typed

\* Jobs, operators and deletions review candidates or remove them.
LEMMA OthersReview ==
  ASSUME Types, (\E j \in Jobs : JobStep(j)) \/ OperatorStep \/ AdminStep \/ DeleteStep
  PROVE  scan' = scan /\ examined' = examined /\ \A ip \in IPs : Reviewed(ip, cand'[ip])
<1>0. cand' = cand => \A ip \in IPs : Reviewed(ip, cand'[ip])  BY DEF Reviewed
<1>1. ASSUME NEW j \in Jobs, JobStep(j)
      PROVE  scan' = scan /\ examined' = examined /\ \A ip \in IPs : Reviewed(ip, cand'[ip])
  <2>1. scan' = scan /\ examined' = examined
    BY <1>1 DEF JobStep, CreateJob, LoadCandidates, RecordItem, SaveJob, KillJob, AssignCandidate,
                AssignFails, AssignRollsBack, AssignOnly
  <2>2. ASSUME NEW id \in assign[j].left, AssignCandidate(j, id)
        PROVE  \A ip \in IPs : Reviewed(ip, cand'[ip])
    <3>1. id.ip \in IPs  BY DEF Types, Typed, JobType, Ids
    <3>2. Present(id.ip) /\ cand' = [cand EXCEPT ![id.ip].review = "match"]
      BY <2>2 DEF AssignCandidate, Exists
    <3> QED BY <3>1, <3>2, OneReview
  <2>3. cand' = cand \/ \E id \in assign[j].left : AssignCandidate(j, id)
    BY <1>1 DEF JobStep, CreateJob, LoadCandidates, RecordItem, SaveJob, KillJob, AssignFails,
                AssignRollsBack
  <2> QED BY <1>0, <2>1, <2>2, <2>3
<1>2. ASSUME OperatorStep
      PROVE  scan' = scan /\ examined' = examined /\ \A ip \in IPs : Reviewed(ip, cand'[ip])
  <2>1. scan' = scan /\ examined' = examined
    BY <1>2 DEF OperatorStep, IgnoreSelected, OpenCandidate, SessionIgnores, SessionUpdates,
                SessionEnds, SessionCreates, OperatorOnly
  <2>2. ASSUME NEW at \in IPs, IgnoreSelected(at) PROVE \A ip \in IPs : Reviewed(ip, cand'[ip])
    BY <2>2, OneReview DEF IgnoreSelected, Review
  <2>3. ASSUME SessionIgnores \/ SessionUpdates \/ \E name \in Given : SessionCreates(name)
        PROVE  \A ip \in IPs : Reviewed(ip, cand'[ip])
    <3>1. session.id.ip \in IPs
      BY <2>3 DEF SessionIgnores, SessionUpdates, SessionCreates, Types, Typed, Sessions, Ids
    <3>2. \/ UNCHANGED cand
          \/ Present(session.id.ip) /\ \E to \in {"match", "mismatch"} :
               cand' = [cand EXCEPT ![session.id.ip].review = to]
      BY <2>3 DEF SessionIgnores, SessionUpdates, SessionCreates, Review, Exists
    <3> QED BY <1>0, <3>1, <3>2, OneReview
  <2>4. (\E ip \in IPs : OpenCandidate(ip)) \/ SessionEnds => cand' = cand
    BY DEF OpenCandidate, SessionEnds
  <2> QED BY <1>0, <1>2, <2>1, <2>2, <2>3, <2>4 DEF OperatorStep
<1>3. ASSUME DeleteStep
      PROVE  scan' = scan /\ examined' = examined /\ \A ip \in IPs : Reviewed(ip, cand'[ip])
  <2>1. scan' = scan /\ examined' = examined
    BY <1>3 DEF DeleteStep, OpenDelete, DeleteDevice, DropCandidates, KillDelete, DeleteOnly
  <2>2. DropCandidates => \A ip \in IPs : Reviewed(ip, cand'[ip])
    BY DEF DropCandidates, Reviewed
  <2> QED BY <1>0, <1>3, <2>1, <2>2 DEF DeleteStep, OpenDelete, DeleteDevice, KillDelete
<1>4. ASSUME AdminStep
      PROVE  scan' = scan /\ examined' = examined /\ \A ip \in IPs : Reviewed(ip, cand'[ip])
  <2>1. scan' = scan /\ examined' = examined  BY <1>4, AdminAlone
  <2>2. \A ip \in IPs : Reviewed(ip, cand'[ip])  BY <1>4, AdminCandidates DEF Reviewed, Promoted
  <2> QED BY <2>1, <2>2
<1> QED BY <1>1, <1>2, <1>3, <1>4

\* What scan s has looked up is examined; once it has its list, an open
\* candidate it saw last is on the list or was examined by another scan.
SeenBy(s) ==
    /\ DOMAIN scan[s].verdict \subseteq examined
    /\ \A ip \in IPs : Present(ip) /\ cand[ip].review = "open" /\ cand[ip].seen = s =>
         /\ scan[s].at = "classify" => IdOf(ip) \in DOMAIN scan[s].todo \cup examined
         /\ scan[s].at = "committed" \/ scan[s].status = "completed" => IdOf(ip) \in examined
SeenInv == \A s \in Scans : SeenBy(s)

\* A step that gives s no new open candidate, unless it is one examined.
LEMMA SeenKept ==
  ASSUME NEW s \in Scans, SeenBy(s), scan'[s] = scan[s], examined \subseteq examined',
         \A ip \in IPs : Present(ip)' /\ cand'[ip].review = "open" /\ cand'[ip].seen = s =>
            /\ Present(ip) /\ cand'[ip].born = cand[ip].born /\ cand[ip].seen = s
            /\ cand[ip].review = "open" \/ IdOf(ip) \in examined'
  PROVE  SeenBy(s)'
<1>1. \A ip \in IPs : Present(ip)' /\ cand'[ip].born = cand[ip].born => IdOf(ip)' = IdOf(ip)
  BY DEF IdOf
<1> QED BY <1>1 DEF SeenBy

\* Reviews made outside a scan.
LEMMA SeenByOthers ==
  ASSUME Types, SeenInv, (\E j \in Jobs : JobStep(j)) \/ OperatorStep \/ AdminStep \/ DeleteStep
  PROVE  SeenInv'
<1> SUFFICES ASSUME NEW s \in Scans PROVE SeenBy(s)'  BY DEF SeenInv
<1>1. ASSUME NEW ip \in IPs, Present(ip)', cand'[ip].review = "open" PROVE cand'[ip] = cand[ip]
  <2>1. Reviewed(ip, cand'[ip])  BY OthersReview
  <2>2. CASE cand'[ip] = None  BY <1>1, <2>2 DEF Present
  <2>3. ASSUME Present(ip), NEW to \in {"match", "mismatch"},
               cand'[ip] = [cand[ip] EXCEPT !.review = to]
        PROVE  FALSE
    <3>1. cand[ip] \in Rows  BY <2>3, RowThere DEF Types
    <3> QED BY <1>1, <2>3, <3>1 DEF Rows
  <2> QED BY <2>1, <2>2, <2>3 DEF Reviewed
<1>2. SeenBy(s) /\ scan' = scan /\ examined' = examined  BY OthersReview DEF SeenInv
<1> QED BY <1>1, <1>2, SeenKept DEF Present

\* The rows a scan stores: another scan's row becomes its own.
LEMMA SeenByRange ==
  ASSUME Types, Types', SeenInv, NEW s \in Scans, NEW at \in scan[s].left, ScanRange(s, at)
  PROVE  SeenInv'
<1>1. scan[s].at = "ranges" /\ scan' = [scan EXCEPT ![s].left = scan[s].left \ {at}]
      /\ examined' = examined /\ scan[s] \in ScanType /\ scan[s].status = "running"
  BY DEF ScanRange, Types, Typed, ScanPhases
<1>2. at \in IPs  BY <1>1, RangesAssumption DEF ScanType
<1>3. scan'[s].at = "ranges" /\ scan'[s].status = "running"
      /\ scan'[s].verdict = scan[s].verdict
      /\ \A t \in Scans \ {s} : scan'[t] = scan[t]
  BY <1>1 DEF Types, Typed, ScanType
<1>4. SeenBy(s)'  BY <1>1, <1>3 DEF SeenInv, SeenBy
<1>5. ASSUME NEW t \in Scans \ {s} PROVE SeenBy(t)'
  <2>1. ASSUME NEW ip \in IPs, cand'[ip].seen = t PROVE cand'[ip] = cand[ip]
    <3>1. CASE ip # at  BY <3>1 DEF ScanRange, Types, Typed
    <3>2. CASE ip = at /\ cand' # cand
      <4>1. PICK host \in Answers[at] : cand' = [cand EXCEPT ![at] =
                IF Present(at) THEN [cand[at] EXCEPT !.host = host, !.seen = s]
                ELSE [born |-> s, host |-> host, review |-> "open", seen |-> s]]
        BY <3>2 DEF ScanRange
      <4>2. Present(at) => cand[at] \in Rows  BY <1>2, RowThere DEF Types
      <4>3. cand'[at].seen = s  BY <1>2, <4>1, <4>2 DEF Rows, Types, Typed
      <4> QED BY <2>1, <3>2, <4>3
    <3> QED BY <3>1, <3>2
  <2> QED BY <1>1, <1>3, <2>1, SeenKept DEF SeenInv, Present
<1> QED BY <1>4, <1>5 DEF SeenInv

\* A scan's step that leaves the candidates alone.
LEMMA SeenByTask ==
  ASSUME Types, Types', SeenInv, NEW s \in Scans, cand' = cand, examined \subseteq examined',
         \A t \in Scans \ {s} : scan'[t] = scan[t], SeenBy(s)'
  PROVE  SeenInv'
<1> SUFFICES ASSUME NEW t \in Scans \ {s} PROVE SeenBy(t)'  BY DEF SeenInv
<1> QED BY SeenKept DEF SeenInv, Present

\* CreateScan, StartScan, ScanRaises, SaveScan and KillScan.
LEMMA SeenByQuiet ==
  ASSUME Types, Types', SeenInv, NEW s \in Scans,
         CreateScan(s) \/ StartScan(s) \/ ScanRaises(s) \/ SaveScan(s) \/ KillScan(s)
  PROVE  SeenInv'
<1>1. cand' = cand /\ examined' = examined
  BY DEF CreateScan, StartScan, ScanRaises, SaveScan, KillScan, history
<1>2. \A t \in Scans \ {s} : scan'[t] = scan[t]
  BY DEF CreateScan, StartScan, ScanRaises, SaveScan, KillScan, At, Types, Typed
<1>3. scan[s] \in ScanType /\ DOMAIN NewScan.verdict = {}
  BY DEF Types, Typed, NewScan
<1>4. SeenBy(s)'
  <2>1. CASE CreateScan(s) \/ StartScan(s) \/ ScanRaises(s) \/ KillScan(s)
    <3> DEFINE Quiet == /\ scan'[s].at \notin {"classify", "committed"}
                        /\ scan'[s].status # "completed"
                        /\ DOMAIN scan'[s].verdict \subseteq DOMAIN scan[s].verdict
    <3>1. ASSUME CreateScan(s) PROVE Quiet
      <4>1. PICK at \in {"queued", "dead"} :
              scan' = [scan EXCEPT ![s] = [scan[s] EXCEPT !.status = "pending", !.at = at]]
        BY <3>1 DEF CreateScan, Types, Typed
      <4> QED BY <1>3, <4>1 DEF Types, Typed, ScanType
    <3>2. ASSUME StartScan(s) PROVE Quiet
      BY <1>3, <3>2 DEF StartScan, Types, Typed, ScanType
    <3>3. ASSUME ScanRaises(s) PROVE Quiet
      BY <1>3, <3>3 DEF ScanRaises, At, Types, Typed, ScanPhases, ScanType
    <3>4. ASSUME KillScan(s) PROVE Quiet
      BY <1>3, <3>4 DEF KillScan, Types, Typed, NewScan
    <3>5. Quiet  BY <2>1, <3>1, <3>2, <3>3, <3>4
    <3> QED BY <1>1, <3>5 DEF SeenInv, SeenBy
  <2>2. CASE SaveScan(s)
    <3>1. scan'[s].at = "idle" /\ DOMAIN scan'[s].verdict = {}
          /\ (scan'[s].status = "completed" => scan[s].at = "committed")
      BY <1>3, <2>2 DEF SaveScan, Types, Typed, NewScan
    <3>2. \A ip \in IPs : Present(ip)' = Present(ip) /\ IdOf(ip)' = IdOf(ip)
      BY <1>1 DEF Present, IdOf
    <3> QED BY <1>1, <3>1, <3>2 DEF SeenInv, SeenBy
  <2> QED BY <2>1, <2>2
<1> QED BY <1>1, <1>2, <1>4, SeenByTask

\* SelectCandidates puts every open candidate the scan saw on its list; each
\* lookup examines one of them.
LEMMA SeenByLookup ==
  ASSUME Types, Types', SeenInv, NEW s \in Scans,
         SelectCandidates(s) \/ \E id \in DOMAIN scan[s].todo : ClassifyOne(s, id)
  PROVE  SeenInv'
<1>0. scan[s] \in ScanType  BY DEF Types, Typed
<1>1. CASE SelectCandidates(s)
  <2> DEFINE mine == {id \in OpenIds : cand[id.ip].seen = s}
  <2>1. cand' = cand /\ examined' = examined /\ scan[s].at = "ranges"
        /\ scan' = [scan EXCEPT ![s].at = "classify", ![s].todo = Loaded(mine)]
    BY <1>1 DEF SelectCandidates
  <2> HIDE DEF mine
  <2>2. scan'[s].at = "classify" /\ scan'[s].todo = Loaded(mine)
        /\ scan'[s].verdict = scan[s].verdict /\ scan'[s].status = "running"
        /\ \A t \in Scans \ {s} : scan'[t] = scan[t]
    BY <1>0, <2>1 DEF Types, Typed, ScanPhases, ScanType
  <2>3. ASSUME NEW ip \in IPs, Present(ip), cand[ip].review = "open", cand[ip].seen = s
        PROVE  IdOf(ip) \in DOMAIN Loaded(mine)
    <3>1. IdOf(ip) \in mine /\ Exists(IdOf(ip))
      BY <2>3 DEF mine, OpenIds, IdOf, Exists
    <3>2. mine \in SUBSET Ids  BY OpenTyped DEF Types, mine
    <3> QED BY <3>1, <3>2, LoadedTyped DEF Types
  <2>4. \A ip \in IPs : Present(ip)' = Present(ip) /\ IdOf(ip)' = IdOf(ip)
    BY <2>1 DEF Present, IdOf
  <2>5. SeenBy(s)'  BY <2>1, <2>2, <2>3, <2>4 DEF SeenInv, SeenBy
  <2> QED BY <2>1, <2>2, <2>5, SeenByTask
<1>2. ASSUME NEW id \in DOMAIN scan[s].todo, ClassifyOne(s, id) PROVE SeenInv'
  <2> DEFINE verdict == [i \in DOMAIN scan[s].verdict \cup {id} |->
                IF i = id THEN Verdict(scan[s].todo[id], id.ip) ELSE scan[s].verdict[i]]
  <2>1. cand' = cand /\ examined' = examined \cup {id}
        /\ scan' = [scan EXCEPT ![s].verdict = verdict]
    BY <1>2 DEF ClassifyOne, Types, Typed
  <2>2. DOMAIN verdict = DOMAIN scan[s].verdict \cup {id}  OBVIOUS
  <2> HIDE DEF verdict
  <2>3. scan'[s].at = scan[s].at /\ scan'[s].todo = scan[s].todo
        /\ scan'[s].verdict = verdict /\ scan'[s].status = scan[s].status
        /\ \A t \in Scans \ {s} : scan'[t] = scan[t]
    BY <1>0, <2>1 DEF Types, Typed, ScanType
  <2>4. \A ip \in IPs : Present(ip)' = Present(ip) /\ IdOf(ip)' = IdOf(ip)
    BY <2>1 DEF Present, IdOf
  <2>5. SeenBy(s)'  BY <2>1, <2>2, <2>3, <2>4 DEF SeenInv, SeenBy
  <2> QED BY <2>1, <2>3, <2>5, SeenByTask
<1> QED BY <1>1, <1>2

\* The commit reviews what was looked up, and only that.
LEMMA SeenByCommit ==
  ASSUME Types, Types', SeenInv, NEW s \in Scans, ClassifyCommit(s)
  PROVE  SeenInv'
<1> DEFINE V == scan[s].verdict
<1>0. scan[s] \in ScanType /\ scan[s].status = "running" /\ DOMAIN V = DOMAIN scan[s].todo
      /\ scan[s].at = "classify" /\ DOMAIN V \subseteq examined
  BY DEF ClassifyCommit, Types, Typed, ScanPhases, SeenInv, SeenBy
<1>1. examined' = examined /\ \A t \in Scans \ {s} : scan'[t] = scan[t]
  BY DEF ClassifyCommit, At, Types, Typed
<1>2. /\ scan'[s].verdict = V /\ scan'[s].todo = scan[s].todo /\ scan'[s].status = "running"
      /\ scan'[s].at \in {"committed", "failed"}
  BY <1>0 DEF ClassifyCommit, At, Types, Typed, ScanType
<1>3. ASSUME NEW ip \in IPs, Present(ip)', cand'[ip].review = "open"
      PROVE  /\ Present(ip) /\ cand'[ip].born = cand[ip].born /\ cand'[ip].seen = cand[ip].seen
             /\ cand[ip].review = "open" \/ IdOf(ip) \in examined
             /\ IdOf(ip)' = IdOf(ip)
  <2>1. CASE cand' = cand  BY <1>3, <2>1 DEF Present, IdOf
  <2>2. CASE cand' = [i \in IPs |-> IF Present(i) /\ IdOf(i) \in DOMAIN V
                           THEN [cand[i] EXCEPT !.review = V[IdOf(i)]] ELSE cand[i]]
    <3>1. CASE Present(ip) /\ IdOf(ip) \in DOMAIN V
      <4>1. cand'[ip] = [cand[ip] EXCEPT !.review = V[IdOf(ip)]]  BY <2>2, <3>1
      <4>2. cand[ip] \in Rows  BY <3>1, RowThere DEF Types
      <4> QED BY <1>0, <3>1, <4>1, <4>2 DEF Rows, IdOf
    <3>2. CASE ~(Present(ip) /\ IdOf(ip) \in DOMAIN V)
      <4>1. cand'[ip] = cand[ip]  BY <2>2, <3>2
      <4> QED BY <1>3, <4>1 DEF Present, IdOf
    <3> QED BY <3>1, <3>2
  <2> QED BY <2>1, <2>2 DEF ClassifyCommit
<1> HIDE DEF V
<1>4. ASSUME NEW t \in Scans \ {s} PROVE SeenBy(t)'
  BY <1>1, <1>3, SeenKept DEF SeenInv
<1>5. SeenBy(s)'
  BY <1>0, <1>1, <1>2, <1>3 DEF SeenInv, SeenBy, V
<1> QED BY <1>4, <1>5 DEF SeenInv

\* SeenIsExamined: whatever scans overlap, and whatever is reviewed or deleted
\* while they run, a candidate that a completed scan was the last to see and
\* that is open has been compared with the inventory.
THEOREM SeenCandidatesAreExamined == Spec => []SeenIsExamined
<1>1. Init /\ Types => SeenInv
  BY DEF Init, SeenInv, SeenBy, NewScan, Present
<1>2. Types /\ Types' /\ SeenInv /\ [Next]_vars => SeenInv'
  <2> SUFFICES ASSUME Types, Types', SeenInv, [Next]_vars PROVE SeenInv'  OBVIOUS
  <2>1. ASSUME NEW s \in Scans, ScanStep(s) PROVE SeenInv'
    BY <2>1, SeenByRange, SeenByQuiet, SeenByLookup, SeenByCommit DEF ScanStep
  <2>2. CASE UNCHANGED vars  BY <2>2 DEF vars, SeenInv, SeenBy, Present, IdOf
  <2> QED BY <2>1, <2>2, SeenByOthers DEF Next
<1>3. Types /\ SeenInv => SeenIsExamined
  BY RowThere DEF Types, SeenInv, SeenBy, SeenIsExamined
<1> QED BY <1>1, <1>2, <1>3, InitTypes, NextTypes, PTL DEF Spec
(***************************************************************************)
(* One success per candidate                                               *)
(***************************************************************************)

\* The successes of the items that are stored and of those about to be.
Successes == {it \in items : it.ok}
             \cup {assign[j].result : j \in {i \in Jobs : assign[i].at = "record" /\ assign[i].result.ok}}

\* As long as no device left its address, a success has its device there, and
\* it is the only one: a second insertion finds the address taken.
SuccessInv == \A r \in Successes : freed[r.of.ip] = {} =>
    /\ WithIp(r.of.ip) # {}
    /\ \A q \in Successes : q.of.ip = r.of.ip => q = r

\* A success is about a candidate.
LEMMA SuccessTyped == ASSUME Types, NEW r \in Successes PROVE r.of \in Ids /\ r.of.ip \in IPs
<1>1. r.of \in Ids  BY DEF Successes, Types, Typed, JobPhases, Results
<1> QED BY <1>1 DEF Ids

\* A step without a new success, which says so when a device leaves.
LEMMA SuccessKept ==
  ASSUME Types, SuccessInv, Successes' \subseteq Successes,
         \A ip \in IPs : freed'[ip] = {} =>
            freed[ip] = {} /\ (WithIp(ip) # {} => WithIp(ip)' # {})
  PROVE  SuccessInv'
BY SuccessTyped DEF SuccessInv

\* A step that leaves items, jobs, devices and freed addresses alone.
LEMMA SuccessUntouched ==
  ASSUME Types, SuccessInv, UNCHANGED <<items, assign, device, freed>>
  PROVE  SuccessInv'
<1>1. Successes' = Successes /\ \A ip \in IPs : WithIp(ip)' = WithIp(ip)
  BY DEF Successes, WithIp, Live
<1> QED BY <1>1, SuccessKept

\* The steps of a job but for the insertion: an item is stored at most.
LEMMA SuccessByTask ==
  ASSUME Types, SuccessInv, NEW j \in Jobs,
         \/ CreateJob(j) \/ LoadCandidates(j) \/ RecordItem(j) \/ SaveJob(j) \/ KillJob(j)
         \/ \E id \in assign[j].left : AssignFails(j, id) \/ AssignRollsBack(j, id)
  PROVE  SuccessInv'
<1>1. UNCHANGED <<device, freed>>
  BY DEF CreateJob, LoadCandidates, RecordItem, SaveJob, KillJob, AssignFails, AssignRollsBack,
         AssignOnly
<1>2. \A i \in Jobs \ {j} : assign'[i] = assign[i]
  BY DEF CreateJob, LoadCandidates, RecordItem, SaveJob, KillJob, AssignFails, AssignRollsBack,
         Turn, Types, Typed
<1>3. \/ items' = items
      \/ assign[j].at = "record" /\ items' = items \cup {assign[j].result}
  BY DEF CreateJob, LoadCandidates, RecordItem, SaveJob, KillJob, AssignFails, AssignRollsBack, Job
<1>4. ~(assign'[j].at = "record" /\ assign'[j].result.ok)
  <2>0. assign[j] \in JobType  BY DEF Types, Typed
  <2>1. ASSUME NEW id \in assign[j].left, AssignFails(j, id) \/ AssignRollsBack(j, id)
        PROVE  assign'[j].result.ok = FALSE
    <3>1. PICK d : Turn(j, id, FALSE, d)  BY <2>1 DEF AssignFails, AssignRollsBack
    <3>2. assign'[j].result = [job |-> j, of |-> id, ok |-> FALSE, device |-> d]
      BY <2>0, <3>1 DEF Turn, Types, Typed, JobType
    <3> QED BY <3>2
  <2>2. ASSUME CreateJob(j) \/ LoadCandidates(j) \/ RecordItem(j) \/ SaveJob(j) \/ KillJob(j)
        PROVE  assign'[j].at # "record"
    <3>1. ASSUME CreateJob(j) PROVE assign'[j].at = "queued"
      <4>1. PICK wanted : assign' = [assign EXCEPT ![j] =
              [assign[j] EXCEPT !.status = "pending", !.at = "queued", !.wanted = wanted]]
        BY <3>1 DEF CreateJob, Types, Typed
      <4> QED BY <2>0, <4>1 DEF Types, Typed, JobType
    <3>2. LoadCandidates(j) => assign'[j].at = "loop"
      BY <2>0 DEF LoadCandidates, Types, Typed, JobType
    <3>3. RecordItem(j) => assign'[j].at \in {"loop", "failed"}
      BY <2>0 DEF RecordItem, Types, Typed, JobType
    <3>4. SaveJob(j) => assign'[j].at = "idle"
      BY <2>0 DEF SaveJob, Types, Typed, JobType
    <3>5. KillJob(j) => assign'[j].at = "dead"
      BY <2>0 DEF KillJob, Types, Typed, JobType
    <3> QED BY <2>2, <3>1, <3>2, <3>3, <3>4, <3>5
  <2> QED BY <2>1, <2>2
<1>5. Successes' \subseteq Successes
  <2> SUFFICES ASSUME NEW r \in Successes' PROVE r \in Successes  OBVIOUS
  <2>1. CASE r \in items' /\ r.ok  BY <1>3, <2>1 DEF Successes
  <2>2. ASSUME NEW i \in Jobs, assign'[i].at = "record", assign'[i].result.ok,
               r = assign'[i].result
        PROVE  r \in Successes
    BY <1>2, <1>4, <2>2 DEF Successes
  <2> QED BY <2>1, <2>2 DEF Successes
<1> QED BY <1>1, <1>5, SuccessKept DEF WithIp, Live

\* The insertion: the address was free, so there was no success before it.
LEMMA SuccessByAssign ==
  ASSUME Types, SuccessInv, NEW j \in Jobs, NEW id \in assign[j].left, AssignCandidate(j, id)
  PROVE  SuccessInv'
<1> DEFINE d == CHOOSE e \in Unused : TRUE
           name == NameFor(assign[j].loaded[id], id.ip)
<1>1. d \in Devices /\ device[d] = None
  <2>1. Unused # {}  BY DEF AssignCandidate
  <2> QED BY <2>1 DEF Unused
<1>2. /\ WithIp(id.ip) = {} /\ freed' = freed /\ items' = items
      /\ device' = [device EXCEPT ![d] = [name |-> name, ip |-> id.ip]]
  BY DEF AssignCandidate, Free, AssignOnly
<1>3. PICK ok \in BOOLEAN : Turn(j, id, ok, d)  BY DEF AssignCandidate
<1>4. id \in Ids /\ id.ip \in IPs /\ assign[j] \in JobType
  <2>1. assign[j] \in JobType  BY DEF Types, Typed
  <2>2. id \in Ids  BY <2>1 DEF JobType
  <2> QED BY <2>1, <2>2 DEF Ids
<1>5. name \in Names
  <2>1. assign[j].loaded[id] \in Heard  BY <1>4, SomeTyped DEF AssignCandidate, JobType
  <2> QED BY <1>4, <2>1, NameTyped
<1> HIDE DEF d, name
<1>a. device \in [Devices -> DeviceRows \cup {None, Gone}]  BY DEF Types, Typed
<1>6. device'[d] \in DeviceRows /\ device'[d].ip = id.ip
      /\ \A e \in Devices \ {d} : device'[e] = device[e]
  <2>1. device'[d] = [name |-> name, ip |-> id.ip]  BY <1>1, <1>2, <1>a
  <2>2. \A e \in Devices \ {d} : device'[e] = device[e]  BY <1>2, <1>a
  <2> QED BY <1>4, <1>5, <2>1, <2>2 DEF DeviceRows
<1>7. WithIp(id.ip)' # {}  BY <1>1, <1>6, LiveRow DEF WithIp, Live
<1>8. \A ip \in IPs : WithIp(ip) # {} => WithIp(ip)' # {}
  BY <1>1, <1>6 DEF WithIp, Live
<1> DEFINE new == [job |-> j, of |-> id, ok |-> ok, device |-> d]
<1>9. Successes' \subseteq Successes \cup {new}
  <2>1. assign'[j].result = new /\ \A i \in Jobs \ {j} : assign'[i] = assign[i]
    BY <1>3, <1>4 DEF Turn, Types, Typed, JobType
  <2> HIDE DEF new
  <2> QED BY <1>2, <2>1 DEF Successes
<1>10. new.of = id  OBVIOUS
<1> HIDE DEF new
<1>11. \A r \in Successes : freed[r.of.ip] = {} => r.of.ip # id.ip  BY <1>2 DEF SuccessInv
<1> SUFFICES ASSUME NEW r \in Successes', freed'[r.of.ip] = {}
             PROVE  /\ WithIp(r.of.ip)' # {}
                    /\ \A q \in Successes' : q.of.ip = r.of.ip => q = r
  BY DEF SuccessInv
<1>12. WithIp(r.of.ip)' # {}
  BY <1>2, <1>7, <1>8, <1>9, <1>10, SuccessTyped DEF SuccessInv
<1>13. ASSUME NEW q \in Successes', q.of.ip = r.of.ip PROVE q = r
  BY <1>2, <1>9, <1>10, <1>11, <1>13 DEF SuccessInv
<1> QED BY <1>12, <1>13

\* What operators and deletions do to devices: one that leaves its address is
\* recorded.
LEMMA DevicesLeave ==
  ASSUME Types, OperatorStep \/ AdminStep \/ DeleteStep, NEW ip \in IPs
  PROVE  /\ freed[ip] \subseteq freed'[ip]
         /\ WithIp(ip) # {} /\ WithIp(ip)' = {} =>
              \/ freed'[ip] \cap {"moved", "orphaned"} # {}
              \/ "deleted" \in freed'[ip] /\ dropping' # None /\ dropping'.gone /\ dropping'.ip = ip
<1> DEFINE Leaves == /\ freed[ip] \subseteq freed'[ip]
                     /\ WithIp(ip) # {} /\ WithIp(ip)' = {} =>
                          \/ freed'[ip] \cap {"moved", "orphaned"} # {}
                          \/ /\ "deleted" \in freed'[ip]
                             /\ dropping' # None /\ dropping'.gone /\ dropping'.ip = ip
<1>0. UNCHANGED <<device, freed>> => Leaves  BY DEF WithIp, Live
<1>1. ASSUME NEW name \in Given, SessionCreates(name) PROVE Leaves
  <2> DEFINE d == CHOOSE e \in Unused : TRUE
  <2>1. d \in Devices /\ device[d] = None
    <3>1. Unused # {}  BY <1>1 DEF SessionCreates
    <3> QED BY <3>1 DEF Unused
  <2>2. freed' = freed /\ \/ device' = device
                          \/ device' = [device EXCEPT ![d] = [name |-> name, ip |-> session.id.ip]]
    BY <1>1 DEF SessionCreates
  <2> HIDE DEF d
  <2>3. \A e \in Devices \ {d} : device'[e] = device[e]
    BY <2>2 DEF Types, Typed
  <2>4. WithIp(ip) \subseteq WithIp(ip)'  BY <2>1, <2>3 DEF WithIp, Live
  <2> QED BY <2>2, <2>4
<1>2. ASSUME SessionUpdates PROVE Leaves
  <2>1. CASE UNCHANGED <<device, freed>>  BY <1>0, <2>1
  <2>2. CASE /\ device' = [d \in Devices |->
                  IF d \in session.rename THEN [device[d] EXCEPT !.name = session.host]
                  ELSE IF d \in session.move THEN [device[d] EXCEPT !.ip = session.id.ip]
                  ELSE device[d]]
             /\ freed' = [i \in IPs |-> IF \E d \in session.move : device[d].ip = i
                                        THEN freed[i] \cup {"moved"} ELSE freed[i]]
             /\ \A d \in session.rename \cup session.move : Live(d)
    <3>1. freed[ip] \subseteq freed'[ip]  BY <2>2
    <3>2. ASSUME NEW d \in WithIp(ip), "moved" \notin freed'[ip] PROVE d \in WithIp(ip)'
      <4>1. d \in Devices /\ device[d] \in DeviceRows /\ device[d].ip = ip
        BY LiveTyped DEF WithIp, Types
      <4>2. d \notin session.move  BY <2>2, <3>2, <4>1
      <4>3. CASE d \in session.rename
        <5>1. device'[d] = [device[d] EXCEPT !.name = session.host]  BY <2>2, <4>1, <4>3
        <5>2. device'[d].ip = ip /\ device'[d] \in [name : {session.host}, ip : IPs]
          BY <4>1, <5>1 DEF DeviceRows
        <5>3. session.host \in Names
          BY <1>2, <4>3 DEF SessionUpdates, Types, Typed, SessionNames, Sessions, Heard, Names
        <5>4. device'[d] \in DeviceRows  BY <5>2, <5>3 DEF DeviceRows
        <5> QED BY <4>1, <5>2, <5>4, LiveRow DEF WithIp, Live
      <4>4. CASE d \notin session.rename
        <5>1. device'[d] = device[d]  BY <2>2, <4>1, <4>2, <4>4
        <5> QED BY <4>1, <5>1 DEF WithIp, Live
      <4> QED BY <4>3, <4>4
    <3> QED BY <3>1, <3>2
  <2> QED BY <1>2, <2>1, <2>2 DEF SessionUpdates
<1>3. ASSUME DeleteDevice PROVE Leaves
  <2> DEFINE d == dropping.of
  <2>0. dropping \in Deletions /\ dropping' = [dropping EXCEPT !.gone = TRUE]
    BY <1>3 DEF DeleteDevice, Types, Typed
  <2>n. dropping' # None /\ dropping'.gone /\ dropping'.ip = dropping.ip /\ d \in Devices
    BY <2>0, NoneAssumption DEF Deletions
  <2>1. CASE ~Live(d)
    <3>1. UNCHANGED <<device, freed>>  BY <1>3, <2>1 DEF DeleteDevice
    <3> QED BY <1>0, <3>1
  <2>2. CASE Live(d)
    <3>1. device[d] \in DeviceRows /\ device[d].ip \in IPs  BY <2>n, <2>2, LiveTyped DEF Types
    <3>2. /\ device' = [device EXCEPT ![d] = Gone]
          /\ freed' = [freed EXCEPT ![device[d].ip] = @ \cup
                 {IF device[d].ip = dropping.ip THEN "deleted" ELSE "orphaned"}]
      BY <1>3, <2>2 DEF DeleteDevice
    <3> HIDE DEF d
    <3>3. \A e \in Devices \ {d} : device'[e] = device[e]  BY <3>2 DEF Types, Typed
    <3>4. freed[ip] \subseteq freed'[ip]  BY <3>1, <3>2 DEF Types, Typed
    <3>5. CASE device[d].ip # ip
      <4>1. WithIp(ip) \subseteq WithIp(ip)'  BY <3>3, <3>5 DEF WithIp, Live
      <4> QED BY <3>4, <4>1
    <3>6. CASE device[d].ip = ip /\ dropping.ip = ip
      <4>1. "deleted" \in freed'[ip]  BY <3>1, <3>2, <3>6 DEF Types, Typed
      <4> QED BY <2>n, <3>4, <3>6, <4>1
    <3>7. CASE device[d].ip = ip /\ dropping.ip # ip
      <4>1. "orphaned" \in freed'[ip]  BY <3>1, <3>2, <3>7 DEF Types, Typed
      <4> QED BY <3>4, <4>1
    <3> QED BY <3>5, <3>6, <3>7
  <2> QED BY <2>1, <2>2
<1>4. ASSUME KillDelete PROVE Leaves
  <2>1. device' = device /\ freed[ip] \subseteq freed'[ip]
    BY <1>4 DEF KillDelete, Types, Typed
  <2> QED BY <2>1 DEF WithIp, Live
<1>5. (\E at \in IPs : IgnoreSelected(at) \/ OpenCandidate(at)) \/ SessionIgnores \/ SessionEnds
      \/ (\E d \in Devices : OpenDelete(d)) \/ DropCandidates => UNCHANGED <<device, freed>>
  BY DEF IgnoreSelected, OpenCandidate, SessionIgnores, SessionEnds, OpenDelete, DropCandidates
<1>6. ASSUME NEW d \in Devices, NEW row \in DeviceRows, Written(d, row) PROVE Leaves
  <2>1. device'[d] = row /\ \A e \in Devices \ {d} : device'[e] = device[e]  BY <1>6, WrittenRow
  <2>2. freed' = IF Live(d) /\ device[d].ip # row.ip
                 THEN [freed EXCEPT ![device[d].ip] = @ \cup {"moved"}] ELSE freed
    BY <1>6 DEF Written
  <2>3. Live(d) => device[d].ip \in IPs  BY LiveTyped DEF Types
  <2>4. freed[ip] \subseteq freed'[ip]  BY <2>2, <2>3 DEF Types, Typed
  <2>5. CASE Live(d) /\ device[d].ip = ip /\ row.ip # ip
    <3>1. "moved" \in freed'[ip]  BY <2>2, <2>3, <2>5 DEF Types, Typed
    <3> QED BY <2>4, <3>1
  <2>6. CASE ~(Live(d) /\ device[d].ip = ip /\ row.ip # ip)
    <3>1. Live(d)'  BY <1>6, WrittenRow
    <3>2. WithIp(ip) \subseteq WithIp(ip)'  BY <2>1, <2>6, <3>1 DEF WithIp, Live
    <3> QED BY <2>4, <3>2
  <2> QED BY <2>5, <2>6
<1>7. ASSUME NEW gone \in SUBSET Devices, Removed(gone) PROVE Leaves
  <2>1. /\ \A d \in Devices : device'[d] = IF d \in gone THEN Gone ELSE device[d]
        /\ freed'[ip] = IF \E d \in gone : device[d].ip = ip THEN freed[ip] \cup {"orphaned"}
                       ELSE freed[ip]
    BY <1>7 DEF Removed
  <2>2. CASE \E d \in gone : device[d].ip = ip  BY <2>1, <2>2
  <2>3. CASE ~\E d \in gone : device[d].ip = ip
    <3>1. WithIp(ip) \subseteq WithIp(ip)'  BY <2>1, <2>3 DEF WithIp, Live
    <3> QED BY <2>1, <2>3, <3>1
  <2> QED BY <2>2, <2>3
<1>8. AdminStep => Leaves
  <2> HIDE DEF Leaves
  <2> QED BY <1>0, <1>6, <1>7, AdminDevices
<1> HIDE DEF Leaves
<1>9. Leaves  BY <1>0, <1>1, <1>2, <1>3, <1>4, <1>5, <1>8 DEF OperatorStep, DeleteStep
<1> QED BY <1>9 DEF Leaves

\* Nobody but a job touches jobs and their items.
LEMMA PagesLeaveJobs ==
  ASSUME OperatorStep \/ AdminStep \/ DeleteStep
  PROVE  UNCHANGED <<items, assign>>
BY AdminAlone DEF OperatorStep, IgnoreSelected, OpenCandidate, SessionIgnores, SessionUpdates,
   SessionEnds, SessionCreates, OperatorOnly, DeleteStep, OpenDelete, DeleteDevice,
   DropCandidates, KillDelete, DeleteOnly

\* OneSuccessPerCandidate: two jobs that were given the same candidate do not
\* both turn it into a device, however their transactions interleave.
THEOREM CandidatesSucceedOnce == Spec => []OneSuccessPerCandidate
<1>1. Init /\ Types => SuccessInv
  BY DEF Init, SuccessInv, Successes, NewJob
<1>2. Types /\ Types' /\ SuccessInv /\ [Next]_vars => SuccessInv'
  <2> SUFFICES ASSUME Types, SuccessInv, [Next]_vars PROVE SuccessInv'  OBVIOUS
  <2>1. ASSUME NEW s \in Scans, ScanStep(s) PROVE SuccessInv'
    <3>1. UNCHANGED <<items, assign, device, freed>>
      BY <2>1 DEF ScanStep, CreateScan, StartScan, SelectCandidates, ClassifyCommit, ScanRaises,
                  SaveScan, KillScan, ScanRange, ClassifyOne, ScanOnly, history
    <3> QED BY <3>1, SuccessUntouched
  <2>2. ASSUME NEW j \in Jobs, JobStep(j) PROVE SuccessInv'
    BY <2>2, SuccessByTask, SuccessByAssign DEF JobStep
  <2>3. ASSUME OperatorStep \/ AdminStep \/ DeleteStep PROVE SuccessInv'
    <3>1. UNCHANGED <<items, assign>>  BY <2>3, PagesLeaveJobs
    <3>2. Successes' = Successes  BY <3>1 DEF Successes
    <3>3. \A ip \in IPs : freed'[ip] = {} =>
            freed[ip] = {} /\ (WithIp(ip) # {} => WithIp(ip)' # {})
      BY <2>3, DevicesLeave
    <3> QED BY <3>2, <3>3, SuccessKept
  <2>4. CASE UNCHANGED vars  BY <2>4, SuccessUntouched DEF vars
  <2> QED BY <2>1, <2>2, <2>3, <2>4 DEF Next
<1>3. Types /\ SuccessInv => OneSuccessPerCandidate
  BY DEF SuccessInv, Successes, OneSuccessPerCandidate
<1> QED BY <1>1, <1>2, <1>3, InitTypes, NextTypes, PTL DEF Spec
(***************************************************************************)
(* An exact match has its device                                           *)
(***************************************************************************)

\* The device an exact match is about, or the reason why it is not there.
HasDev(ip) == \/ WithIp(ip) # {}
              \/ freed[ip] \cap {"moved", "orphaned"} # {}
              \/ dropping # None /\ dropping.gone /\ dropping.ip = ip

\* The scan of this row has stored that address, and does not do so again: a
\* row that is gone does not come back under its primary key.
Inserted(id) == /\ scan[id.born].status \notin {"new", "pending"}
                /\ id.ip \notin scan[id.born].left

\* A page that goes on to write "match" without another look at the devices: an
\* update that moves none, or a promotion that has its device.
Settled(page) == page.review = "match" \/ (page.review = "mismatch" /\ page.move = {})

\* Every writer of "match" goes on with what it looked up: the scan with its
\* verdicts, the page with the devices it loaded or made.
MatchInv ==
    /\ \A ip \in IPs : Present(ip) =>
         Inserted(IdOf(ip)) /\ (cand[ip].review = "match" => HasDev(ip))
    /\ \A s \in Scans :
         /\ \A id \in DOMAIN scan[s].todo : Inserted(id)
         /\ \A id \in DOMAIN scan[s].verdict :
              scan[s].verdict[id] = "match" /\ Exists(id) => HasDev(id.ip)
    /\ session # None =>
         /\ Inserted(session.id) /\ session.rename \cap session.move = {}
         /\ Settled(session) /\ Exists(session.id) => HasDev(session.id.ip)

\* The scan of a row has started, and goes on without the addresses it stored.
LEMMA InsertedStays ==
  ASSUME Types, [Next]_vars, NEW id \in Ids, Inserted(id)
  PROVE  Inserted(id)'
<1>0. id.born \in Scans /\ scan[id.born] \in ScanType  BY DEF Ids, Types, Typed
<1>1. CASE scan' = scan  BY <1>1 DEF Inserted
<1>2. ASSUME NEW s \in Scans, ScanStep(s) PROVE Inserted(id)'
  <2>1. CASE id.born # s
    <3>1. scan'[id.born] = scan[id.born]
      BY <1>0, <1>2, <2>1 DEF ScanStep, CreateScan, StartScan, SelectCandidates, ClassifyCommit,
           ScanRaises, SaveScan, KillScan, ScanRange, ClassifyOne, At, Types, Typed
    <3> QED BY <3>1 DEF Inserted
  <2>2. CASE id.born = s
    <3> DEFINE Goes == scan'[s].status \notin {"new", "pending"} /\ scan'[s].left \subseteq scan[s].left
    <3>0. scan[s] \in ScanType /\ scan[s].status \notin {"new", "pending"}
          /\ scan \in [Scans -> ScanType] /\ scan[s].at # "queued"
      BY <1>0, <2>2 DEF Inserted, Types, Typed, ScanPhases
    <3>1. ~CreateScan(s) /\ ~StartScan(s)  BY <3>0 DEF CreateScan, StartScan
    <3>2. SelectCandidates(s) => Goes  BY <3>0 DEF SelectCandidates, ScanType
    <3>3. ClassifyCommit(s) => Goes  BY <3>0 DEF ClassifyCommit, At, ScanType
    <3>4. ScanRaises(s) => Goes  BY <3>0 DEF ScanRaises, At, ScanType
    <3>5. SaveScan(s) => Goes  BY <3>0 DEF SaveScan, NewScan
    <3>6. KillScan(s) => Goes  BY <3>0 DEF KillScan, NewScan
    <3>7. ASSUME NEW ip \in scan[s].left, ScanRange(s, ip) PROVE Goes
      BY <3>0, <3>7 DEF ScanRange, ScanType
    <3>8. ASSUME NEW i \in DOMAIN scan[s].todo, ClassifyOne(s, i) PROVE Goes
      <4>1. PICK verdict : scan' = [scan EXCEPT ![s] = [scan[s] EXCEPT !.verdict = verdict]]
        BY <3>0, <3>8 DEF ClassifyOne
      <4> QED BY <3>0, <4>1 DEF ScanType
    <3>9. Goes
      BY <1>2, <3>1, <3>2, <3>3, <3>4, <3>5, <3>6, <3>7, <3>8 DEF ScanStep
    <3> QED BY <2>2, <3>9 DEF Inserted
  <2> QED BY <2>1, <2>2
<1> QED BY <1>1, <1>2, OthersReview DEF Next, vars

\* A row that is there after a step was there before, unless a scan stored it.
LEMMA RowsStay ==
  ASSUME Types, [Next]_vars, NEW ip \in IPs, Present(ip)'
  PROVE  \/ Present(ip) /\ cand'[ip].born = cand[ip].born
         \/ ~Present(ip) /\ \E s \in Scans :
              /\ ip \in scan[s].left /\ ScanRange(s, ip) /\ cand'[ip].review = "open"
              /\ cand'[ip].born = s
<1>1. CASE cand' = cand  BY <1>1 DEF Present
<1>2. CASE Reviewed(ip, cand'[ip])
  <2>1. Present(ip) => cand[ip] \in Rows  BY RowThere DEF Types
  <2> QED BY <1>2, <2>1 DEF Reviewed, Present, Rows
<1>3. ASSUME NEW s \in Scans, ClassifyCommit(s)
      PROVE  Present(ip) /\ cand'[ip].born = cand[ip].born
  <2>1. CASE cand' = cand  BY <2>1 DEF Present
  <2>2. CASE Present(ip) /\ \E to : cand'[ip] = [cand[ip] EXCEPT !.review = to]
    <3>1. cand[ip] \in Rows  BY <2>2, RowThere DEF Types
    <3> QED BY <2>2, <3>1 DEF Rows
  <2>3. CASE cand'[ip] = cand[ip]  BY <2>3 DEF Present
  <2> QED BY <1>3, <2>1, <2>2, <2>3 DEF ClassifyCommit
<1>4. ASSUME NEW s \in Scans, NEW at \in scan[s].left, ScanRange(s, at), cand' # cand
      PROVE  \/ Present(ip) /\ cand'[ip].born = cand[ip].born
             \/ ~Present(ip) /\ ip = at /\ cand'[ip].review = "open" /\ cand'[ip].born = s
  <2>1. PICK host \in Answers[at] : cand' = [cand EXCEPT ![at] =
            IF Present(at) THEN [cand[at] EXCEPT !.host = host, !.seen = s]
            ELSE [born |-> s, host |-> host, review |-> "open", seen |-> s]]
    BY <1>4 DEF ScanRange
  <2>2. Present(ip) => cand[ip] \in Rows  BY RowThere DEF Types
  <2>3. CASE ip # at  BY <2>1, <2>3 DEF Present, Types, Typed
  <2>4. CASE ip = at /\ Present(ip)  BY <2>1, <2>2, <2>4 DEF Rows, Types, Typed
  <2>5. CASE ip = at /\ ~Present(ip)  BY <2>1, <2>5 DEF Types, Typed
  <2> QED BY <2>3, <2>4, <2>5
<1>5. ASSUME NEW s \in Scans, ScanStep(s), ~ClassifyCommit(s), cand' # cand
      PROVE  \E at \in scan[s].left : ScanRange(s, at)
  BY <1>5 DEF ScanStep, CreateScan, StartScan, SelectCandidates, ScanRaises, SaveScan, KillScan,
              ClassifyOne
<1> QED BY <1>1, <1>2, <1>3, <1>4, <1>5, OthersReview DEF Next, vars

\* A row that is gone does not come back.
LEMMA NotReborn ==
  ASSUME Types, [Next]_vars, NEW id \in Ids, Inserted(id), Exists(id)'
  PROVE  Exists(id)
<1>1. id.ip \in IPs /\ Present(id.ip)' /\ cand'[id.ip].born = id.born
  BY DEF Ids, Exists, Present
<1>2. ASSUME NEW s \in Scans, id.ip \in scan[s].left, cand'[id.ip].born = s PROVE FALSE
  BY <1>1, <1>2 DEF Inserted
<1> QED BY <1>1, <1>2, RowsStay DEF Exists

\* A device that leaves the address of a candidate says so.
LEMMA DeviceStays ==
  ASSUME Types, [Next]_vars, NEW ip \in IPs, HasDev(ip), Present(ip)'
  PROVE  HasDev(ip)'
<1>1. CASE UNCHANGED <<device, freed, dropping>>  BY <1>1 DEF HasDev, WithIp, Live
<1>2. ASSUME NEW s \in Scans, ScanStep(s) PROVE UNCHANGED <<device, freed, dropping>>
  BY <1>2 DEF ScanStep, CreateScan, StartScan, SelectCandidates, ClassifyCommit, ScanRaises,
              SaveScan, KillScan, ScanRange, ClassifyOne, ScanOnly, history
<1>3. ASSUME NEW j \in Jobs, JobStep(j) PROVE HasDev(ip)'
  <2>1. UNCHANGED <<freed, dropping>>
    BY <1>3 DEF JobStep, CreateJob, LoadCandidates, RecordItem, SaveJob, KillJob, AssignCandidate,
                AssignFails, AssignRollsBack, AssignOnly
  <2>2. CASE device' = device  BY <1>1, <2>1, <2>2
  <2>3. ASSUME NEW id \in assign[j].left, AssignCandidate(j, id) PROVE HasDev(ip)'
    <3> DEFINE d == CHOOSE e \in Unused : TRUE
    <3>1. device[d] = None
      <4>1. Unused # {}  BY <2>3 DEF AssignCandidate
      <4> QED BY <4>1 DEF Unused
    <3>2. PICK row : device' = [device EXCEPT ![d] = row]  BY <2>3 DEF AssignCandidate
    <3> HIDE DEF d
    <3>3. \A e \in Devices : e # d => device'[e] = device[e]  BY <3>2 DEF Types, Typed
    <3>4. WithIp(ip) \subseteq WithIp(ip)'  BY <3>1, <3>3 DEF WithIp, Live
    <3> QED BY <2>1, <3>4 DEF HasDev
  <2> QED BY <1>3, <2>2, <2>3 DEF JobStep, CreateJob, LoadCandidates, RecordItem, SaveJob, KillJob,
                                  AssignFails, AssignRollsBack
<1>4. ASSUME OperatorStep \/ AdminStep \/ DeleteStep PROVE HasDev(ip)'
  <2>1. freed[ip] \subseteq freed'[ip]  BY <1>4, DevicesLeave
  <2>2. WithIp(ip) # {} => HasDev(ip)'  BY <1>4, DevicesLeave DEF HasDev
  <2>3. freed[ip] \cap {"moved", "orphaned"} # {} => HasDev(ip)'  BY <2>1 DEF HasDev
  <2>4. ASSUME dropping # None, dropping.gone, dropping.ip = ip PROVE HasDev(ip)'
    <3>1. CASE dropping' = dropping  BY <2>4, <3>1 DEF HasDev
    <3>2. CASE DropCandidates
      <4>1. cand'[ip] = None  BY <2>4, <3>2 DEF DropCandidates, Present
      <4> QED BY <4>1 DEF Present
    <3>3. CASE KillDelete
      <4>1. "orphaned" \in freed'[ip]  BY <2>4, <3>3 DEF KillDelete, Types, Typed
      <4> QED BY <4>1 DEF HasDev
    <3>4. OperatorStep \/ AdminStep => dropping' = dropping
      BY AdminAlone DEF OperatorStep, IgnoreSelected, OpenCandidate, SessionIgnores, SessionUpdates,
           SessionEnds, SessionCreates, OperatorOnly
    <3> QED BY <1>4, <2>4, <3>1, <3>2, <3>3, <3>4 DEF DeleteStep, OpenDelete, DeleteDevice
  <2> QED BY <2>2, <2>3, <2>4 DEF HasDev
<1> QED BY <1>1, <1>2, <1>3, <1>4 DEF Next, vars
\* A device that is inserted is at its address.
LEMMA InsertedAt ==
  ASSUME Types, NEW name \in Names, NEW ip \in IPs, Unused # {},
         device' = [device EXCEPT ![CHOOSE e \in Unused : TRUE] = [name |-> name, ip |-> ip]]
  PROVE  WithIp(ip)' # {}
<1> DEFINE d == CHOOSE e \in Unused : TRUE
<1>1. d \in Devices  BY DEF Unused
<1>2. device' = [device EXCEPT ![d] = [name |-> name, ip |-> ip]]  OBVIOUS
<1> HIDE DEF d
<1>3. device'[d] = [name |-> name, ip |-> ip]  BY <1>1, <1>2 DEF Types, Typed
<1>4. device'[d] \in DeviceRows /\ device'[d].ip = ip  BY <1>3 DEF DeviceRows
<1> QED BY <1>1, <1>4, LiveRow DEF WithIp, Live

\* An operator's "update" ends with a device at the address of the candidate.
LEMMA UpdatedAt ==
  ASSUME Types, MatchInv, SessionUpdates, NEW ip \in IPs, session.id.ip = ip, Exists(session.id),
         Present(ip)', cand' # cand
  PROVE  HasDev(ip)'
<1>1. session \in Sessions /\ session # None /\ session.review = "mismatch"
      /\ session.rename \cap session.move = {}
  BY DEF SessionUpdates, Types, Typed, MatchInv
<1>2. /\ \A d \in session.rename \cup session.move : Live(d)
      /\ device' = [d \in Devices |->
           IF d \in session.rename THEN [device[d] EXCEPT !.name = session.host]
           ELSE IF d \in session.move THEN [device[d] EXCEPT !.ip = session.id.ip]
           ELSE device[d]]
  BY DEF SessionUpdates
<1>3. CASE session.move = {}
  <2>1. HasDev(ip)  BY <1>1, <1>3 DEF MatchInv, Settled
  <2>2. [Next]_vars  BY DEF Next, OperatorStep
  <2> QED BY <2>1, <2>2, DeviceStays
<1>4. ASSUME NEW d \in session.move PROVE HasDev(ip)'
  <2>1. d \in Devices /\ d \notin session.rename /\ device[d] \in DeviceRows
    BY <1>1, <1>2, LiveTyped DEF Sessions, Types
  <2>2. device'[d] = [device[d] EXCEPT !.ip = ip]  BY <1>2, <2>1
  <2>3. device'[d] \in DeviceRows /\ device'[d].ip = ip  BY <2>1, <2>2 DEF DeviceRows
  <2> QED BY <2>1, <2>3, LiveRow DEF HasDev, WithIp, Live
<1> QED BY <1>3, <1>4

\* Whoever writes "match", a device is at the address, or it left afterwards.
LEMMA MatchWritten ==
  ASSUME Types, MatchInv, [Next]_vars, NEW ip \in IPs, Present(ip)', cand'[ip].review = "match"
  PROVE  HasDev(ip)'
<1>1. CASE Present(ip) /\ cand[ip].review = "match"
  BY <1>1, DeviceStays DEF MatchInv
<1>2. CASE ~Present(ip)  BY <1>2, RowsStay
<1> SUFFICES ASSUME Present(ip), cand[ip].review # "match" PROVE HasDev(ip)'
  BY <1>1, <1>2
<1>0. cand[ip] \in Rows /\ IdOf(ip) \in Ids /\ IdOf(ip).ip = ip /\ Exists(IdOf(ip))
      /\ cand'[ip] # cand[ip] /\ cand' # cand
  BY RowThere DEF Types, Exists, IdOf
<1>3. ASSUME NEW s \in Scans, ScanStep(s) PROVE HasDev(ip)'
  <2>1. CASE ClassifyCommit(s)
    <3>1. IdOf(ip) \in DOMAIN scan[s].verdict
          /\ cand'[ip] = [cand[ip] EXCEPT !.review = scan[s].verdict[IdOf(ip)]]
      BY <1>0, <2>1 DEF ClassifyCommit
    <3>2. scan[s].verdict[IdOf(ip)] = "match"  BY <1>0, <3>1 DEF Rows
    <3>3. HasDev(ip)  BY <1>0, <3>1, <3>2 DEF MatchInv
    <3> QED BY <3>3, DeviceStays
  <2>2. ASSUME NEW at \in scan[s].left, ScanRange(s, at) PROVE FALSE
    <3>1. PICK host \in Answers[at] : cand' = [cand EXCEPT ![at] =
              IF Present(at) THEN [cand[at] EXCEPT !.host = host, !.seen = s]
              ELSE [born |-> s, host |-> host, review |-> "open", seen |-> s]]
      BY <1>0, <2>2 DEF ScanRange
    <3>2. cand'[ip].review = cand[ip].review  BY <1>0, <3>1 DEF Types, Typed, Rows
    <3> QED BY <3>2
  <2> QED BY <1>0, <1>3, <2>1, <2>2 DEF ScanStep, CreateScan, StartScan, SelectCandidates,
               ScanRaises, SaveScan, KillScan, ClassifyOne
<1>4. ASSUME NEW j \in Jobs, JobStep(j) PROVE HasDev(ip)'
  <2>1. PICK id \in assign[j].left : AssignCandidate(j, id)
    BY <1>0, <1>4 DEF JobStep, CreateJob, LoadCandidates, RecordItem, SaveJob, KillJob, AssignFails,
                      AssignRollsBack
  <2>2. assign[j] \in JobType  BY DEF Types, Typed
  <2>3. id \in Ids /\ assign[j].loaded[id] \in Heard
    BY <2>1, <2>2, SomeTyped DEF AssignCandidate, JobType
  <2>4. id.ip \in IPs /\ NameFor(assign[j].loaded[id], id.ip) \in Names
    BY <2>3, NameTyped DEF Ids
  <2>5. id.ip = ip  BY <1>0, <2>1 DEF AssignCandidate, Types, Typed
  <2>6. WithIp(ip)' # {}  BY <2>1, <2>4, <2>5, InsertedAt DEF AssignCandidate
  <2> QED BY <2>6 DEF HasDev
<1>5. ASSUME OperatorStep PROVE HasDev(ip)'
  <2>1. ASSUME NEW at \in IPs, IgnoreSelected(at) PROVE FALSE
    BY <1>0, <2>1 DEF IgnoreSelected, Review, Types, Typed, Rows
  <2>2. CASE SessionIgnores
    <3>1. cand' = [cand EXCEPT ![session.id.ip].review = "mismatch"]
      BY <1>0, <2>2 DEF SessionIgnores, Review
    <3> QED BY <1>0, <3>1 DEF Types, Typed, Rows
  <2>3. ASSUME NEW name \in Given, SessionCreates(name) PROVE HasDev(ip)'
    <3>1. cand' = [cand EXCEPT ![session.id.ip].review = "match"]
          /\ device' = [device EXCEPT ![CHOOSE d \in Unused : TRUE] =
                             [name |-> name, ip |-> session.id.ip]]
          /\ Unused # {}
      BY <1>0, <2>3 DEF SessionCreates, Review
    <3>2. session.id.ip = ip  BY <1>0, <3>1 DEF Types, Typed
    <3>3. WithIp(ip)' # {}  BY <3>1, <3>2, GivenAssumption, InsertedAt
    <3> QED BY <3>3 DEF HasDev
  <2>4. CASE SessionUpdates
    <3>1. cand' = [cand EXCEPT ![session.id.ip].review = "match"] /\ Exists(session.id)
      BY <1>0, <2>4 DEF SessionUpdates, Review
    <3>2. session.id.ip = ip  BY <1>0, <3>1 DEF Types, Typed
    <3> QED BY <1>0, <2>4, <3>1, <3>2, UpdatedAt
  <2> QED BY <1>0, <1>5, <2>1, <2>2, <2>3, <2>4 DEF OperatorStep, OpenCandidate, SessionEnds
<1>6. ASSUME DeleteStep PROVE HasDev(ip)'
  <2>1. cand'[ip] = cand[ip] \/ cand'[ip] = None
    BY <1>6 DEF DeleteStep, OpenDelete, DeleteDevice, DropCandidates, KillDelete
  <2> QED BY <1>0, <2>1 DEF Present
<1>7. ASSUME AdminStep PROVE HasDev(ip)'
  <2>1. cand'[ip] # [cand[ip] EXCEPT !.review = "mismatch"]  BY <1>0 DEF Rows
  <2>2. Promoted(ip)  BY <1>0, <1>7, <2>1, AdminCandidates DEF Present
  <2>3. HasDev(ip)  BY <2>2 DEF Promoted, MatchInv, Settled
  <2> QED BY <2>3, DeviceStays
<1> QED BY <1>0, <1>3, <1>4, <1>5, <1>6, <1>7 DEF Next, vars

\* A lookup that finds an exact match finds its device.
LEMMA VerdictHasDev ==
  ASSUME NEW host, NEW ip, Verdict(host, ip) = "match"
  PROVE  HasDev(ip)
BY DEF Verdict, HasDev

\* What a scan has looked up, after a step of its own.
LEMMA VerdictsKept ==
  ASSUME Types, MatchInv, [Next]_vars, NEW s \in Scans,
         NEW id \in DOMAIN scan'[s].verdict
  PROVE  /\ id \in Ids
         /\ \/ id \in DOMAIN scan[s].verdict /\ scan'[s].verdict[id] = scan[s].verdict[id]
            \/ id \in DOMAIN scan[s].todo /\ (scan'[s].verdict[id] = "match" => HasDev(id.ip))
<1>0. scan[s] \in ScanType /\ scan \in [Scans -> ScanType]
      /\ DOMAIN scan[s].verdict \subseteq Ids /\ DOMAIN scan[s].todo \subseteq Ids
  BY SomeTyped DEF Types, Typed, ScanType
<1>n. DOMAIN NewScan.verdict = {}  BY DEF NewScan
<1>1. CASE scan'[s].verdict = scan[s].verdict  BY <1>0, <1>1
<1>2. CASE DOMAIN scan'[s].verdict = {}  BY <1>2
<1>3. ASSUME NEW i \in DOMAIN scan[s].todo, ClassifyOne(s, i)
      PROVE  \/ id \in DOMAIN scan[s].verdict /\ scan'[s].verdict[id] = scan[s].verdict[id]
             \/ id = i /\ (scan'[s].verdict[id] = "match" => HasDev(id.ip))
  <2> DEFINE verdict == [k \in DOMAIN scan[s].verdict \cup {i} |->
                IF k = i THEN Verdict(scan[s].todo[i], i.ip) ELSE scan[s].verdict[k]]
  <2>1. scan' = [scan EXCEPT ![s] = [scan[s] EXCEPT !.verdict = verdict]]
    BY <1>0, <1>3 DEF ClassifyOne
  <2>2. id \in DOMAIN verdict =>
          \/ id \in DOMAIN scan[s].verdict /\ verdict[id] = scan[s].verdict[id]
          \/ id = i /\ verdict[id] = Verdict(scan[s].todo[i], i.ip)
    OBVIOUS
  <2> HIDE DEF verdict
  <2>3. scan'[s].verdict = verdict  BY <1>0, <2>1 DEF ScanType
  <2> QED BY <2>2, <2>3, VerdictHasDev
<1>4. ASSUME NEW t \in Scans, ScanStep(t)
      PROVE  \/ scan'[s].verdict = scan[s].verdict \/ DOMAIN scan'[s].verdict = {}
             \/ \E i \in DOMAIN scan[s].todo : ClassifyOne(s, i)
  <2>1. CASE s # t
    <3>1. scan'[s] = scan[s]
      BY <1>0, <1>4, <2>1 DEF ScanStep, CreateScan, StartScan, SelectCandidates, ClassifyCommit,
           ScanRaises, SaveScan, KillScan, ScanRange, ClassifyOne, At
    <3> QED BY <3>1
  <2>2. CASE s = t
    <3>1. CreateScan(s) => scan'[s].verdict = scan[s].verdict  BY <1>0 DEF CreateScan, ScanType
    <3>2. StartScan(s) => scan'[s].verdict = scan[s].verdict  BY <1>0 DEF StartScan, ScanType
    <3>3. SelectCandidates(s) => scan'[s].verdict = scan[s].verdict
      BY <1>0 DEF SelectCandidates, ScanType
    <3>4. ClassifyCommit(s) => scan'[s].verdict = scan[s].verdict
      BY <1>0 DEF ClassifyCommit, At, ScanType
    <3>5. ScanRaises(s) => scan'[s].verdict = scan[s].verdict  BY <1>0 DEF ScanRaises, At, ScanType
    <3>6. SaveScan(s) => scan'[s].verdict = NewScan.verdict  BY <1>0 DEF SaveScan, NewScan
    <3>7. KillScan(s) => scan'[s].verdict = NewScan.verdict  BY <1>0 DEF KillScan, NewScan
    <3>8. ASSUME NEW ip \in scan[s].left, ScanRange(s, ip)
          PROVE  scan'[s].verdict = scan[s].verdict
      <4>1. PICK left : scan' = [scan EXCEPT ![s] = [scan[s] EXCEPT !.left = left]]
        BY <1>0, <3>8 DEF ScanRange
      <4> QED BY <1>0, <4>1 DEF ScanType
    <3> QED BY <1>n, <1>4, <2>2, <3>1, <3>2, <3>3, <3>4, <3>5, <3>6, <3>7, <3>8 DEF ScanStep
  <2> QED BY <2>1, <2>2
<1>5. scan' = scan \/ \E t \in Scans : ScanStep(t)  BY OthersReview DEF Next, vars
<1> QED BY <1>0, <1>1, <1>2, <1>3, <1>4, <1>5

\* The list of a scan, after a step of its own.
LEMMA ListsKept ==
  ASSUME Types, MatchInv, [Next]_vars, NEW s \in Scans, NEW id \in DOMAIN scan'[s].todo
  PROVE  id \in Ids /\ Inserted(id)
<1>0. scan[s] \in ScanType /\ scan \in [Scans -> ScanType] /\ DOMAIN scan[s].todo \subseteq Ids
  BY SomeTyped DEF Types, Typed, ScanType
<1>n. DOMAIN NewScan.todo = {}  BY DEF NewScan
<1>1. CASE scan'[s].todo = scan[s].todo  BY <1>0, <1>1 DEF MatchInv
<1>2. CASE DOMAIN scan'[s].todo = {}  BY <1>2
<1>3. ASSUME SelectCandidates(s) PROVE id \in Ids /\ Inserted(id)
  <2> DEFINE mine == {i \in OpenIds : cand[i.ip].seen = s}
  <2>1. scan' = [scan EXCEPT ![s] = [scan[s] EXCEPT !.at = "classify", !.todo = Loaded(mine)]]
    BY <1>0, <1>3 DEF SelectCandidates
  <2>2. mine \in SUBSET Ids  BY OpenTyped DEF Types
  <2> HIDE DEF mine
  <2>3. scan'[s].todo = Loaded(mine)  BY <1>0, <2>1 DEF ScanType
  <2>4. id \in Ids /\ Exists(id)  BY <2>2, <2>3, LoadedTyped DEF Types
  <2>5. id.ip \in IPs /\ Present(id.ip) /\ IdOf(id.ip) = id  BY <2>4 DEF Ids, Exists, IdOf
  <2> QED BY <2>4, <2>5 DEF MatchInv
<1>4. ASSUME NEW t \in Scans, ScanStep(t)
      PROVE  \/ scan'[s].todo = scan[s].todo \/ DOMAIN scan'[s].todo = {} \/ SelectCandidates(s)
  <2>1. CASE s # t
    <3>1. scan'[s] = scan[s]
      BY <1>0, <1>4, <2>1 DEF ScanStep, CreateScan, StartScan, SelectCandidates, ClassifyCommit,
           ScanRaises, SaveScan, KillScan, ScanRange, ClassifyOne, At
    <3> QED BY <3>1
  <2>2. CASE s = t
    <3>1. CreateScan(s) => scan'[s].todo = scan[s].todo  BY <1>0 DEF CreateScan, ScanType
    <3>2. StartScan(s) => scan'[s].todo = scan[s].todo  BY <1>0 DEF StartScan, ScanType
    <3>4. ClassifyCommit(s) => scan'[s].todo = scan[s].todo
      BY <1>0 DEF ClassifyCommit, At, ScanType
    <3>5. ScanRaises(s) => scan'[s].todo = scan[s].todo  BY <1>0 DEF ScanRaises, At, ScanType
    <3>6. SaveScan(s) => scan'[s].todo = NewScan.todo  BY <1>0 DEF SaveScan, NewScan
    <3>7. KillScan(s) => scan'[s].todo = NewScan.todo  BY <1>0 DEF KillScan, NewScan
    <3>8. ASSUME NEW ip \in scan[s].left, ScanRange(s, ip)
          PROVE  scan'[s].todo = scan[s].todo
      <4>1. PICK left : scan' = [scan EXCEPT ![s] = [scan[s] EXCEPT !.left = left]]
        BY <1>0, <3>8 DEF ScanRange
      <4> QED BY <1>0, <4>1 DEF ScanType
    <3>9. ASSUME NEW i \in DOMAIN scan[s].todo, ClassifyOne(s, i)
          PROVE  scan'[s].todo = scan[s].todo
      <4>1. PICK verdict : scan' = [scan EXCEPT ![s] = [scan[s] EXCEPT !.verdict = verdict]]
        BY <1>0, <3>9 DEF ClassifyOne
      <4> QED BY <1>0, <4>1 DEF ScanType
    <3> QED
      BY <1>n, <1>4, <2>2, <3>1, <3>2, <3>4, <3>5, <3>6, <3>7, <3>8, <3>9 DEF ScanStep
  <2> QED BY <2>1, <2>2
<1>5. scan' = scan \/ \E t \in Scans : ScanStep(t)  BY OthersReview DEF Next, vars
<1> QED BY <1>1, <1>2, <1>3, <1>4, <1>5

\* The page an operator opens knows whether a device is at the address.
LEMMA PageOpened ==
  ASSUME Types, MatchInv, NEW ip \in IPs, OpenCandidate(ip)
  PROVE  /\ session'.id \in Ids /\ Inserted(session'.id)
         /\ session'.rename \cap session'.move = {}
         /\ Settled(session') => HasDev(session'.id.ip)
<1> DEFINE host == cand[ip].host
           rename == {d \in WithIp(ip) : host \notin {NoHost, device[d].name}}
           move == {d \in WithName(host) : device[d].ip # ip}
<1>1. session' = [id |-> IdOf(ip), host |-> host, review |-> cand[ip].review,
                  rename |-> rename, move |-> move]
  BY DEF OpenCandidate
<1>2. Present(ip) /\ cand[ip].review # "match"
      /\ (cand[ip].review = "mismatch" => WithIp(ip) \cup WithName(host) # {})
  BY DEF OpenCandidate
<1>3. IdOf(ip) \in Ids /\ Inserted(IdOf(ip)) /\ IdOf(ip).ip = ip
  BY <1>2, RowThere DEF MatchInv, Types
<1>4. rename \cap move = {}  BY DEF WithIp
<1>5. cand[ip].review = "mismatch" /\ move = {} => HasDev(ip)
  BY <1>2 DEF HasDev, WithIp, WithName
<1> HIDE DEF host, rename, move
<1> QED BY <1>1, <1>2, <1>3, <1>4, <1>5 DEF Settled

\* A promotion knows nothing of devices when it starts ...
LEMMA PromotionOpened ==
  ASSUME Types, MatchInv, NEW ip \in IPs, OpenPromotion(ip)
  PROVE  /\ session'.id \in Ids /\ Inserted(session'.id)
         /\ session'.rename \cap session'.move = {} /\ ~Settled(session')
<1>1. Present(ip) /\ session' = [id |-> IdOf(ip), host |-> cand[ip].host, review |-> "promoted",
                                rename |-> {}, move |-> {}]
  BY DEF OpenPromotion
<1>2. IdOf(ip) \in Ids /\ Inserted(IdOf(ip))  BY <1>1, RowThere DEF MatchInv, Types
<1> QED BY <1>1, <1>2 DEF Settled

\* ... and has one at the address from its lookup on.
LEMMA PromotionFound ==
  ASSUME Types, PromotionFinds, NEW ip \in IPs, session.id.ip = ip
  PROVE  HasDev(ip)'
<1> DEFINE name == IF session.host = NoHost THEN Dashed(ip) ELSE session.host
<1>1. \/ WithIp(ip) # {} /\ UNCHANGED device
      \/ /\ Unused # {}
         /\ device' = [device EXCEPT ![CHOOSE d \in Unused : TRUE] = [name |-> name, ip |-> ip]]
  BY DEF PromotionFinds
<1>2. name \in Names  BY DEF PromotionFinds, Types, Typed, Sessions, Heard, Names
<1> HIDE DEF name
<1>3. WithIp(ip)' # {}
  <2>1. CASE WithIp(ip) # {} /\ UNCHANGED device  BY <2>1 DEF WithIp, Live
  <2>2. CASE /\ Unused # {}
             /\ device' = [device EXCEPT ![CHOOSE d \in Unused : TRUE] = [name |-> name, ip |-> ip]]
    BY <1>2, <2>2, InsertedAt
  <2> QED BY <1>1, <2>1, <2>2
<1> QED BY <1>3 DEF HasDev

\* The page stays as it was opened, or a promotion has found its device.
LEMMA PageKept ==
  ASSUME [Next]_vars
  PROVE  \/ session' = session \/ session' = None
         \/ \E ip \in IPs : OpenCandidate(ip) \/ OpenPromotion(ip)
         \/ PromotionFinds
<1>1. ASSUME NEW s \in Scans, ScanStep(s) PROVE session' = session
  BY <1>1 DEF ScanStep, CreateScan, StartScan, SelectCandidates, ClassifyCommit, ScanRaises,
              SaveScan, KillScan, ScanRange, ClassifyOne, ScanOnly
<1>2. ASSUME NEW j \in Jobs, JobStep(j) PROVE session' = session
  BY <1>2 DEF JobStep, CreateJob, LoadCandidates, RecordItem, SaveJob, KillJob, AssignCandidate,
              AssignFails, AssignRollsBack, AssignOnly
<1> QED
  BY <1>1, <1>2, AdminPage DEF Next, vars, OperatorStep, IgnoreSelected, SessionIgnores,
       SessionUpdates, SessionEnds, SessionCreates, CloseSession, DeleteStep, OpenDelete,
       DeleteDevice, DropCandidates, KillDelete, DeleteOnly

\* MatchHasDevice: lookups and saves are apart in every writer of "match", and
\* the rows they are about may go meanwhile.  A row that a scan, a job or a page
\* listed as an exact match has a device at its address, unless one left it in
\* one of the ways that drop no candidates: it was moved, by a page or by an edit
\* through the API or the admin, it went with "delete selected" or in a deletion
\* that knew it by another address, or its deletion is half done or died there.
THEOREM MatchesHaveDevices == Spec => []MatchHasDevice
<1>1. Init /\ Types => MatchInv
  BY DEF Init, MatchInv, NewScan, Present
<1>2. Types /\ Types' /\ MatchInv /\ [Next]_vars => MatchInv'
  <2> SUFFICES ASSUME Types, Types', MatchInv, [Next]_vars PROVE MatchInv'  OBVIOUS
  <2>1. ASSUME NEW ip \in IPs, Present(ip)'
        PROVE  Inserted(IdOf(ip))' /\ (cand'[ip].review = "match" => HasDev(ip)')
    <3>1. Inserted(IdOf(ip))'
      <4>1. CASE Present(ip) /\ cand'[ip].born = cand[ip].born
        <5>1. IdOf(ip)' = IdOf(ip) /\ Inserted(IdOf(ip)) /\ IdOf(ip) \in Ids
          BY <4>1, RowThere DEF IdOf, MatchInv, Types
        <5>2. Inserted(IdOf(ip))'
          <6> DEFINE id == IdOf(ip)
          <6>1. id \in Ids /\ Inserted(id)  BY <5>1
          <6>2. scan'[id.born].status \notin {"new", "pending"} /\ id.ip \notin scan'[id.born].left
            BY <6>1, InsertedStays DEF Inserted
          <6> QED BY <5>1, <6>2 DEF Inserted
        <5> QED BY <5>2
      <4>2. ASSUME NEW s \in Scans, ip \in scan[s].left, ScanRange(s, ip), cand'[ip].born = s
            PROVE  Inserted(IdOf(ip))'
        <5>1. scan[s] \in ScanType /\ scan[s].at = "ranges" /\ scan[s].status = "running"
              /\ scan' = [scan EXCEPT ![s] = [scan[s] EXCEPT !.left = scan[s].left \ {ip}]]
          BY <4>2 DEF ScanRange, Types, Typed, ScanPhases
        <5>2. scan'[s].status = "running" /\ scan'[s].left = scan[s].left \ {ip}
          BY <5>1 DEF Types, Typed, ScanType
        <5> QED BY <4>2, <5>2 DEF Inserted, IdOf
      <4> QED BY <2>1, <4>1, <4>2, RowsStay
    <3>2. cand'[ip].review = "match" => HasDev(ip)'  BY <2>1, MatchWritten
    <3> QED BY <3>1, <3>2
  <2>2. ASSUME NEW s \in Scans, NEW id \in DOMAIN scan'[s].todo PROVE Inserted(id)'
    BY ListsKept, InsertedStays
  <2>3. ASSUME NEW s \in Scans, NEW id \in DOMAIN scan'[s].verdict,
               scan'[s].verdict[id] = "match", Exists(id)'
        PROVE  HasDev(id.ip)'
    <3>1. id \in Ids /\ id.ip \in IPs /\ Present(id.ip)'
      BY <2>3, VerdictsKept DEF Ids, Exists
    <3>2. id \in DOMAIN scan[s].todo
      BY VerdictsKept DEF Types, ScanPhases
    <3>3. Exists(id)  BY <2>3, <3>1, <3>2, NotReborn DEF MatchInv
    <3>4. HasDev(id.ip)  BY <2>3, <3>3, VerdictsKept DEF MatchInv
    <3> QED BY <3>1, <3>4, DeviceStays
  <2>4. ASSUME session' # None
        PROVE  /\ Inserted(session.id)' /\ session'.rename \cap session'.move = {}
               /\ Settled(session') /\ Exists(session.id)' => HasDev(session.id.ip)'
    <3> DEFINE id == session'.id
    <3>1. /\ id \in Ids /\ Inserted(id) /\ session'.rename \cap session'.move = {}
          /\ Settled(session') /\ Exists(id) /\ ~PromotionFinds => HasDev(id.ip)
      <4>1. CASE session' = session  BY <2>4, <4>1 DEF MatchInv, Types, Typed, Sessions
      <4>2. ASSUME NEW ip \in IPs, OpenCandidate(ip)
            PROVE  /\ id \in Ids /\ Inserted(id) /\ session'.rename \cap session'.move = {}
                   /\ Settled(session') => HasDev(id.ip)
        BY <4>2, PageOpened
      <4>3. ASSUME NEW ip \in IPs, OpenPromotion(ip)
            PROVE  /\ id \in Ids /\ Inserted(id) /\ session'.rename \cap session'.move = {}
                   /\ ~Settled(session')
        BY <4>3, PromotionOpened
      <4>4. CASE PromotionFinds
        <5>1. session \in Sessions /\ session # None /\ session' = [session EXCEPT !.review = "match"]
          BY <4>4 DEF PromotionFinds, Types, Typed
        <5>2. id = session.id /\ id \in Ids /\ session'.rename = session.rename
              /\ session'.move = session.move
          BY <5>1 DEF Sessions
        <5> QED BY <4>4, <5>1, <5>2 DEF MatchInv
      <4> QED BY <2>4, <4>1, <4>2, <4>3, <4>4, PageKept
    <3>2. PICK k \in Ids : k = id  BY <3>1
    <3>3. Inserted(k)'  BY <3>1, <3>2, InsertedStays
    <3>4. Exists(k)' => Exists(k) /\ k.ip \in IPs /\ Present(k.ip)'
      BY <3>1, <3>2, NotReborn DEF Exists, Ids
    <3>5. Settled(session') /\ Exists(k)' => HasDev(k.ip)'
      <4>1. CASE ~PromotionFinds  BY <3>1, <3>2, <3>4, <4>1, DeviceStays
      <4>2. CASE PromotionFinds
        <5>1. session \in Sessions /\ session' = [session EXCEPT !.review = "match"]
          BY <4>2 DEF PromotionFinds, Types, Typed
        <5>2. session.id = k /\ k.ip \in IPs  BY <3>2, <5>1 DEF Sessions, Ids
        <5> QED BY <4>2, <5>2, PromotionFound
      <4> QED BY <4>1, <4>2
    <3>6. Inserted(session.id)'  BY <3>2, <3>3 DEF Inserted
    <3>7. Exists(session.id)' => Exists(k)'  BY <3>2 DEF Exists, Present
    <3>8. HasDev(k.ip)' => HasDev(session.id.ip)'  BY <3>2 DEF HasDev, WithIp, Live
    <3> QED BY <3>1, <3>5, <3>6, <3>7, <3>8
  <2>5. ASSUME NEW s \in Scans PROVE
          /\ \A id \in DOMAIN scan'[s].todo : Inserted(id)'
          /\ \A id \in DOMAIN scan'[s].verdict :
               scan'[s].verdict[id] = "match" /\ Exists(id)' => HasDev(id.ip)'
    BY <2>2, <2>3
  <2> QED BY <2>1, <2>4, <2>5 DEF MatchInv
<1>3. MatchInv => MatchHasDevice  BY DEF MatchInv, HasDev, MatchHasDevice
<1> QED BY <1>1, <1>2, <1>3, InitTypes, NextTypes, PTL DEF Spec
(***************************************************************************)
(* A completed job accounts for every candidate                            *)
(***************************************************************************)

Mine(rows, j) == {it \in rows : it.job = j}
\* The items of j are about the candidates of S, one each; good of them are
\* successes and bad are failures.
Accounted(rows, j, S, good, bad) ==
    /\ IsFiniteSet(Mine(rows, j)) /\ {it.of : it \in Mine(rows, j)} = S
    /\ good \in Nat /\ bad \in Nat
    /\ Cardinality(Mine(rows, j)) = Cardinality(S)
    /\ good = Cardinality({it \in Mine(rows, j) : it.ok}) /\ good + bad = Cardinality(S)

\* Between two turns the candidates that are not left have their items; during
\* one, the candidate of the turn is counted and its item is to come.
CountedBy(j) ==
    /\ IsFiniteSet(assign[j].wanted)
    /\ assign[j].status \in {"new", "pending"} => Accounted(items, j, {}, assign[j].ok, assign[j].bad)
    /\ assign[j].status = "completed" => assign[j].left = {}
    /\ assign[j].at = "loop" \/ assign[j].status = "completed" =>
         Accounted(items, j, assign[j].wanted \ assign[j].left, assign[j].ok, assign[j].bad)
    /\ assign[j].at = "record" =>
         \E good, bad \in Nat :
           /\ Accounted(items, j, (assign[j].wanted \ assign[j].left) \ {assign[j].result.of}, good, bad)
           /\ assign[j].ok = (IF assign[j].result.ok THEN good + 1 ELSE good)
           /\ assign[j].ok + assign[j].bad = good + bad + 1
CountInv == \A j \in Jobs : CountedBy(j)

\* There are finitely many candidates.
LEMMA OpenFinite == IsFiniteSet(OpenIds)
<1> DEFINE P == {i \in IPs : Present(i) /\ cand[i].review = "open"}
           f == [ip \in P |-> IdOf(ip)]
<1>1. IsFiniteSet(P)  BY FiniteAssumption, FS_Subset
<1>2. OpenIds = {IdOf(ip) : ip \in P}  BY DEF OpenIds
<1> HIDE DEF P
<1>3. f \in [P -> OpenIds] /\ \A id \in OpenIds : \E ip \in P : f[ip] = id  BY <1>2
<1> HIDE DEF f
<1>4. f \in Surjection(P, OpenIds)  BY <1>3 DEF Surjection
<1> QED BY <1>1, <1>4, FS_Surjection

\* A step that leaves a job and its items alone.
LEMMA CountKept ==
  ASSUME CountInv, NEW j \in Jobs, assign'[j] = assign[j], Mine(items', j) = Mine(items, j)
  PROVE  CountedBy(j)'
<1>1. \A S, good, bad : Accounted(items, j, S, good, bad) => Accounted(items', j, S, good, bad)
  BY DEF Accounted
<1> QED BY <1>1 DEF CountInv, CountedBy

\* Storing the item of a candidate that had none.
LEMMA ItemStored ==
  ASSUME NEW j, NEW S, NEW good, NEW bad, Accounted(items, j, S, good, bad), IsFiniteSet(S),
         NEW it, it.job = j, it.of \notin S, items' = items \cup {it}
  PROVE  Accounted(items', j, S \cup {it.of}, IF it.ok THEN good + 1 ELSE good,
                   IF it.ok THEN bad ELSE bad + 1)
<1> DEFINE M == Mine(items, j)
           ok == {i \in M : i.ok}
<1>1. Mine(items', j) = M \cup {it}  BY DEF Mine
<1>2. it \notin M  BY DEF Accounted
<1>3. IsFiniteSet(M) /\ {i.of : i \in M} = S /\ good \in Nat /\ bad \in Nat
      /\ Cardinality(M) = Cardinality(S) /\ good = Cardinality(ok) /\ good + bad = Cardinality(S)
  BY DEF Accounted
<1>4. IsFiniteSet(ok)  BY <1>3, FS_Subset
<1>5. {i \in M \cup {it} : i.ok} = IF it.ok THEN ok \cup {it} ELSE ok  OBVIOUS
<1>6. {i.of : i \in M \cup {it}} = S \cup {it.of}  BY <1>3
<1> HIDE DEF M
<1>7. IsFiniteSet(M \cup {it}) /\ Cardinality(M \cup {it}) = Cardinality(M) + 1
  BY <1>2, <1>3, FS_AddElement
<1>8. Cardinality(S \cup {it.of}) = Cardinality(S) + 1  BY FS_AddElement
<1>9. it \notin ok  BY <1>2
<1> HIDE DEF ok
<1>10. Cardinality(ok \cup {it}) = Cardinality(ok) + 1  BY <1>4, <1>9, FS_AddElement
<1>11. Cardinality({i \in M \cup {it} : i.ok}) = IF it.ok THEN good + 1 ELSE good
  BY <1>3, <1>5, <1>10
<1>12. Cardinality(S) \in Nat  BY FS_CardinalityType
<1> DEFINE g == IF it.ok THEN good + 1 ELSE good
           b == IF it.ok THEN bad ELSE bad + 1
           T == S \cup {it.of}
<1>13. g \in Nat /\ b \in Nat /\ g + b = good + bad + 1  BY <1>3
<1>14. g = Cardinality({i \in M \cup {it} : i.ok})  BY <1>11
<1>15. g + b = Cardinality(T)  BY <1>3, <1>8, <1>13
<1>16. Cardinality(M \cup {it}) = Cardinality(T)  BY <1>3, <1>7, <1>8
<1>17. {i.of : i \in M \cup {it}} = T  BY <1>6
<1> HIDE DEF g, b, T
<1>18. Accounted(items', j, T, g, b)
  BY <1>1, <1>7, <1>13, <1>14, <1>15, <1>16, <1>17 DEF Accounted
<1> QED BY <1>18 DEF g, b, T

\* What a step of j does to the items, and to the other jobs.
LEMMA OtherJobs ==
  ASSUME Types, NEW j \in Jobs, JobStep(j), NEW i \in Jobs \ {j}
  PROVE  assign'[i] = assign[i] /\ Mine(items', i) = Mine(items, i)
<1>1. assign'[i] = assign[i]
  <2>1. ASSUME CreateJob(j) PROVE assign'[i] = assign[i]  BY <2>1 DEF CreateJob, Types, Typed
  <2>2. ASSUME LoadCandidates(j) \/ RecordItem(j) \/ SaveJob(j) \/ KillJob(j)
        PROVE  assign'[i] = assign[i]
    BY <2>2 DEF LoadCandidates, RecordItem, SaveJob, KillJob, Types, Typed
  <2>3. ASSUME NEW id, NEW ok, NEW d, Turn(j, id, ok, d) PROVE assign'[i] = assign[i]
    BY <2>3 DEF Turn, Types, Typed
  <2> QED BY <2>1, <2>2, <2>3 DEF JobStep, AssignCandidate, AssignFails, AssignRollsBack
<1>2. items' = items \/ (assign[j].at = "record" /\ items' = items \cup {assign[j].result})
  BY DEF JobStep, CreateJob, LoadCandidates, RecordItem, SaveJob, KillJob, AssignCandidate,
         AssignFails, AssignRollsBack, Job
<1>3. assign[j].at = "record" => assign[j].result.job = j  BY DEF Types, JobPhases
<1> QED BY <1>1, <1>2, <1>3 DEF Mine

\* The steps before and after the loop.
LEMMA CountByTask ==
  ASSUME Types, CountInv, NEW j \in Jobs,
         CreateJob(j) \/ LoadCandidates(j) \/ SaveJob(j) \/ KillJob(j)
  PROVE  CountedBy(j)'
<1>0. assign[j] \in JobType /\ assign \in [Jobs -> JobType] /\ CountedBy(j)
      /\ assign[j].left \subseteq assign[j].wanted
  BY DEF Types, Typed, JobPhases, CountInv
<1>1. items' = items  BY DEF CreateJob, LoadCandidates, SaveJob, KillJob
<1>2. \A S, good, bad : Accounted(items, j, S, good, bad) => Accounted(items', j, S, good, bad)
  BY <1>1 DEF Accounted, Mine
<1>3. CASE CreateJob(j)
  <2>1. PICK wanted \in SUBSET OpenIds :
          assign' = [assign EXCEPT ![j] = [assign[j] EXCEPT !.status = "pending", !.at = "queued",
                                                            !.wanted = wanted]]
    BY <1>0, <1>3 DEF CreateJob
  <2>2. /\ assign'[j].status = "pending" /\ assign'[j].at = "queued" /\ assign'[j].wanted = wanted
        /\ assign'[j].ok = assign[j].ok /\ assign'[j].bad = assign[j].bad
    BY <1>0, <2>1 DEF JobType
  <2>3. IsFiniteSet(wanted)  BY OpenFinite, FS_Subset
  <2>4. Accounted(items, j, {}, assign[j].ok, assign[j].bad)  BY <1>0, <1>3 DEF CreateJob, CountedBy
  <2> QED BY <1>2, <2>2, <2>3, <2>4 DEF CountedBy
<1>4. CASE LoadCandidates(j)
  <2>1. PICK loaded : assign' = [assign EXCEPT ![j] =
          [assign[j] EXCEPT !.status = "running", !.at = "loop", !.left = assign[j].wanted,
                            !.loaded = loaded]]
    BY <1>0, <1>4 DEF LoadCandidates
  <2>2. /\ assign'[j].status = "running" /\ assign'[j].at = "loop"
        /\ assign'[j].wanted = assign[j].wanted /\ assign'[j].left = assign[j].wanted
        /\ assign'[j].ok = assign[j].ok /\ assign'[j].bad = assign[j].bad
    BY <1>0, <2>1 DEF JobType
  <2>3. Accounted(items, j, {}, assign[j].ok, assign[j].bad)
    BY <1>0, <1>4 DEF LoadCandidates, Job, CountedBy, Types, JobPhases
  <2>4. assign[j].wanted \ assign[j].wanted = {}  OBVIOUS
  <2> QED BY <1>0, <1>2, <2>2, <2>3, <2>4 DEF CountedBy
<1>5. CASE SaveJob(j)
  <2>1. PICK status \in Final :
          /\ assign' = [assign EXCEPT ![j] = [assign[j] EXCEPT !.at = "idle", !.left = {},
                                                !.loaded = <<>>, !.status = status]]
          /\ status = "completed" => assign[j].at = "loop" /\ assign[j].left = {}
    BY <1>0, <1>5 DEF SaveJob, Job, Final
  <2>2. /\ assign'[j].status = status /\ assign'[j].at = "idle"
        /\ assign'[j].wanted = assign[j].wanted /\ assign'[j].left = {}
        /\ assign'[j].ok = assign[j].ok /\ assign'[j].bad = assign[j].bad
    BY <1>0, <2>1 DEF JobType
  <2>3. status \notin {"new", "pending"}  BY DEF Final
  <2> QED BY <1>0, <1>2, <2>1, <2>2, <2>3 DEF CountedBy
<1>6. CASE KillJob(j)
  <2>1. /\ assign' = [assign EXCEPT ![j] = [assign[j] EXCEPT !.at = "dead", !.left = {},
                                              !.loaded = <<>>, !.result = None]]
        /\ assign[j].status = "running"
    BY <1>0, <1>6 DEF KillJob, Types, JobPhases
  <2>2. /\ assign'[j].status = "running" /\ assign'[j].at = "dead"
        /\ assign'[j].wanted = assign[j].wanted
    BY <1>0, <2>1 DEF JobType
  <2> QED BY <1>0, <2>2 DEF CountedBy
<1> QED BY <1>3, <1>4, <1>5, <1>6

\* A turn counts its candidate; the item follows.
LEMMA CountByTurn ==
  ASSUME Types, CountInv, NEW j \in Jobs, NEW id \in assign[j].left,
         AssignCandidate(j, id) \/ AssignFails(j, id) \/ AssignRollsBack(j, id)
  PROVE  CountedBy(j)'
<1>0. assign[j].at = "loop" /\ CountedBy(j) /\ items' = items
      /\ id \in assign[j].wanted /\ assign[j].left \subseteq assign[j].wanted
  BY DEF AssignCandidate, AssignFails, AssignRollsBack, Job, CountInv, Types, JobPhases
<1>1. \E ok \in BOOLEAN, d \in Live3 : Turn(j, id, ok, d)
  <2>1. CASE AssignCandidate(j, id)
    <3>1. Unused # {} /\ \E ok \in BOOLEAN : Turn(j, id, ok, CHOOSE e \in Unused : TRUE)
      BY <2>1 DEF AssignCandidate
    <3>2. (CHOOSE e \in Unused : TRUE) \in Live3  BY <3>1 DEF Unused, Live3
    <3> QED BY <3>1, <3>2
  <2>2. CASE AssignFails(j, id) \/ AssignRollsBack(j, id)
    BY <2>2 DEF AssignFails, AssignRollsBack, Live3
  <2> QED BY <2>1, <2>2
<1>2. \E new \in JobType :
         /\ assign' = [assign EXCEPT ![j] = new]
         /\ new.at = "record" /\ new.status = "running"
         /\ new.left = assign[j].left \ {id} /\ new.wanted = assign[j].wanted
         /\ new.result \in Results /\ new.result.job = j /\ new.result.of = id
         /\ new.ok + new.bad = assign[j].ok + assign[j].bad + 1
         /\ new.ok = (IF new.result.ok THEN assign[j].ok + 1 ELSE assign[j].ok)
         /\ id \in new.wanted \ new.left /\ new.left \subseteq new.wanted
  BY <1>0, <1>1, TurnTyped
<1>3. PICK new \in JobType :
         /\ assign' = [assign EXCEPT ![j] = new]
         /\ new.at = "record" /\ new.status = "running"
         /\ new.left = assign[j].left \ {id} /\ new.wanted = assign[j].wanted
         /\ new.result.of = id
         /\ new.ok + new.bad = assign[j].ok + assign[j].bad + 1
         /\ new.ok = (IF new.result.ok THEN assign[j].ok + 1 ELSE assign[j].ok)
  BY <1>2
<1>4. assign'[j] = new  BY <1>3 DEF Types, Typed
<1>5. Accounted(items, j, assign[j].wanted \ assign[j].left, assign[j].ok, assign[j].bad)
  BY <1>0 DEF CountedBy
<1>6. (new.wanted \ new.left) \ {id} = assign[j].wanted \ assign[j].left  BY <1>0, <1>3
<1>7. Accounted(items', j, (new.wanted \ new.left) \ {id}, assign[j].ok, assign[j].bad)
  BY <1>0, <1>3, <1>4, <1>5, <1>6 DEF Accounted, Mine
<1>8. assign[j].ok \in Nat /\ assign[j].bad \in Nat  BY <1>5 DEF Accounted
<1>9. \E good, bad \in Nat :
         /\ Accounted(items', j, (new.wanted \ new.left) \ {new.result.of}, good, bad)
         /\ new.ok = (IF new.result.ok THEN good + 1 ELSE good)
         /\ new.ok + new.bad = good + bad + 1
  BY <1>3, <1>7, <1>8
<1>10. IsFiniteSet(new.wanted)  BY <1>0, <1>3 DEF CountedBy
<1>11. new.at = "record" /\ new.status = "running"  BY <1>3
<1> QED BY <1>4, <1>9, <1>10, <1>11 DEF CountedBy

\* The item is stored, or the job has failed.
LEMMA CountByRecord ==
  ASSUME Types, CountInv, NEW j \in Jobs, RecordItem(j)
  PROVE  CountedBy(j)'
<1> DEFINE it == assign[j].result
           S == (assign[j].wanted \ assign[j].left) \ {it.of}
<1>0. /\ assign[j] \in JobType /\ assign \in [Jobs -> JobType] /\ CountedBy(j)
      /\ assign[j].at = "record" /\ assign[j].status = "running" /\ it.job = j
      /\ it.of \in assign[j].wanted \ assign[j].left /\ it.ok \in BOOLEAN
  BY DEF RecordItem, Job, CountInv, Types, Typed, JobPhases, Results
<1>1. PICK good, bad \in Nat :
         /\ Accounted(items, j, S, good, bad)
         /\ assign[j].ok = (IF it.ok THEN good + 1 ELSE good)
         /\ assign[j].ok + assign[j].bad = good + bad + 1
  BY <1>0 DEF CountedBy
<1>2. CASE ~Referable(j)
  <2>1. assign' = [assign EXCEPT ![j] = [assign[j] EXCEPT !.at = "failed", !.result = None]]
    BY <1>0, <1>2 DEF RecordItem
  <2>2. assign'[j].at = "failed" /\ assign'[j].status = "running"
        /\ assign'[j].wanted = assign[j].wanted
    BY <1>0, <2>1 DEF JobType
  <2> QED BY <1>0, <2>2 DEF CountedBy
<1>3. CASE Referable(j)
  <2>1. /\ assign' = [assign EXCEPT ![j] = [assign[j] EXCEPT !.at = "loop", !.result = None]]
        /\ items' = items \cup {it}
    BY <1>0, <1>3 DEF RecordItem
  <2>2. /\ assign'[j].at = "loop" /\ assign'[j].status = "running"
        /\ assign'[j].wanted = assign[j].wanted /\ assign'[j].left = assign[j].left
        /\ assign'[j].ok = assign[j].ok /\ assign'[j].bad = assign[j].bad
    BY <1>0, <2>1 DEF JobType
  <2>3. IsFiniteSet(S)  BY <1>0, FS_Subset DEF CountedBy
  <2>4. it.of \notin S  OBVIOUS
  <2>5. S \cup {it.of} = assign[j].wanted \ assign[j].left  BY <1>0
  <2>6. (IF it.ok THEN bad ELSE bad + 1) = assign[j].bad
    BY <1>0, <1>1 DEF JobType
  <2> HIDE DEF it, S
  <2>7. Accounted(items', j, S \cup {it.of}, IF it.ok THEN good + 1 ELSE good,
                  IF it.ok THEN bad ELSE bad + 1)
    <3>1. PICK r : r = it  OBVIOUS
    <3>2. PICK T : T = S  OBVIOUS
    <3>3. Accounted(items, j, T, good, bad)  BY <1>1, <3>2
    <3>4. Accounted(items', j, T \cup {r.of}, IF r.ok THEN good + 1 ELSE good,
                    IF r.ok THEN bad ELSE bad + 1)
      BY <1>0, <2>1, <2>3, <2>4, <3>1, <3>2, <3>3, ItemStored
    <3> QED BY <3>1, <3>2, <3>4
  <2>8. Accounted(items', j, assign[j].wanted \ assign[j].left, assign[j].ok, assign[j].bad)
    BY <1>1, <2>5, <2>6, <2>7
  <2> QED BY <1>0, <2>2, <2>8 DEF CountedBy, Accounted
<1> QED BY <1>2, <1>3

\* The counts are right at first, and stay so.
LEMMA CountBegins == Init => CountInv
<1> SUFFICES ASSUME Init, NEW j \in Jobs PROVE CountedBy(j)  BY DEF CountInv
<1>1. assign[j] = NewJob /\ Mine(items, j) = {}  BY DEF Init, Mine
<1>2. {it \in {} : it.ok} = {} /\ {it.of : it \in {}} = {}  OBVIOUS
<1>3. Accounted(items, j, {}, 0, 0)  BY <1>1, <1>2, FS_EmptySet DEF Accounted
<1> QED BY <1>1, <1>3, FS_EmptySet DEF CountedBy, NewJob

LEMMA CountStays == Types /\ CountInv /\ [Next]_vars => CountInv'
<1> SUFFICES ASSUME Types, CountInv, [Next]_vars, NEW i \in Jobs PROVE CountedBy(i)'
  BY DEF CountInv
<1>1. ASSUME NEW j \in Jobs, JobStep(j) PROVE CountedBy(i)'
  <2>1. CASE i = j  BY <1>1, <2>1, CountByTask, CountByTurn, CountByRecord DEF JobStep
  <2>2. CASE i # j  BY <1>1, <2>2, OtherJobs, CountKept
  <2> QED BY <2>1, <2>2
<1>2. ASSUME UNCHANGED <<items, assign>> PROVE CountedBy(i)'
  BY <1>2, CountKept DEF Mine
<1>3. ASSUME NEW s \in Scans, ScanStep(s) PROVE UNCHANGED <<items, assign>>
  BY <1>3 DEF ScanStep, CreateScan, StartScan, SelectCandidates, ClassifyCommit, ScanRaises,
              SaveScan, KillScan, ScanRange, ClassifyOne, ScanOnly
<1>4. OperatorStep \/ AdminStep \/ DeleteStep => UNCHANGED <<items, assign>>
  BY PagesLeaveJobs
<1> QED BY <1>1, <1>2, <1>3, <1>4 DEF Next, vars

(* A COMPLETED auto-assign job accounts for every candidate it was asked    *)
(* for: one item each, the counts agree with the items and add up to        *)
(* total_candidates.                                                        *)
CompletedJobAccounts ==
    \A j \in Jobs : assign[j].status = "completed" =>
        LET mine == {it \in items : it.job = j} IN
        /\ {it.of : it \in mine} = assign[j].wanted
        /\ Cardinality(mine) = Cardinality(assign[j].wanted)
        /\ assign[j].ok = Cardinality({it \in mine : it.ok})
        /\ assign[j].ok + assign[j].bad = Cardinality(assign[j].wanted)

\* CompletedJobAccounts: whatever happens to candidates and devices while it
\* runs, a job that completes has one item for each candidate it was given, and
\* its counts are those of its items.
THEOREM CompletedJobsAccount == Spec => []CompletedJobAccounts
<1>3. CountInv => CompletedJobAccounts
  <2> SUFFICES ASSUME NEW j \in Jobs, CountedBy(j), assign[j].status = "completed"
               PROVE  LET mine == {it \in items : it.job = j} IN
                        /\ {it.of : it \in mine} = assign[j].wanted
                        /\ Cardinality(mine) = Cardinality(assign[j].wanted)
                        /\ assign[j].ok = Cardinality({it \in mine : it.ok})
                        /\ assign[j].ok + assign[j].bad = Cardinality(assign[j].wanted)
    BY DEF CountInv, CompletedJobAccounts
  <2>1. assign[j].wanted \ assign[j].left = assign[j].wanted  BY DEF CountedBy
  <2>2. Accounted(items, j, assign[j].wanted, assign[j].ok, assign[j].bad)  BY <2>1 DEF CountedBy
  <2> QED BY <2>2 DEF Accounted, Mine
<1> QED BY <1>3, CountBegins, CountStays, InitTypes, NextTypes, PTL DEF Spec
(***************************************************************************)
(* The jobs and the devices follow AssignContract                          *)
(***************************************************************************)

\* What the contract sees of a job.
Statuses == [j \in Jobs |-> assign[j].status]
Wants == [j \in Jobs |-> assign[j].wanted]
Tallies == [j \in Jobs |-> Counts(j)]

AtMostOne(S) == \A d, e \in S : d = e
\* No two devices share a name or an address.
NoneShared == \A d, e \in Devices :
                 Live(d) /\ Live(e) /\ d # e => /\ device[d].name # device[e].name
                                                /\ device[d].ip # device[e].ip
\* An operator's page changes one device of each kind at most, as it has loaded
\* them when no two shared a name or an address.
OnePage == session # None => AtMostOne(session.rename) /\ AtMostOne(session.move)
\* A success is about a device.
SuccessNames == \A j \in Jobs : assign[j].at = "record" /\ assign[j].result.ok =>
                                  assign[j].result.device \in Devices
ContractInv == NoneShared /\ OnePage /\ SuccessNames

\* Devices and items in the words of the contract.
LEMMA ContractSees ==
  /\ Contract!Apart <=> NoneShared
  /\ \A d \in Devices : Contract!There(d) <=> Live(d)
  /\ \A j : Contract!Mine(j) = Mine(items, j)
  /\ \A j : Contract!Answered(j) = {it.of : it \in Mine(items, j)}
<1>1. \A d \in Devices : Contract!There(d) <=> Live(d)  BY DEF Contract!There, Live
<1>2. \A j : Contract!Mine(j) = Mine(items, j)  BY DEF Contract!Mine, Mine
<1>3. Contract!Apart <=> NoneShared  BY <1>1 DEF Contract!Apart, NoneShared
<1>4. \A j : Contract!Answered(j) = {it.of : it \in Mine(items, j)}
  BY <1>2 DEF Contract!Answered
<1> QED BY <1>1, <1>2, <1>3, <1>4

\* The items it counts.
LEMMA ContractCounts ==
  \A j, ok : Contract!Count(j, ok) = Cardinality({it \in Mine(items, j) : it.ok = ok})
<1>1. \A S : Contract!Cardinality(S) = Cardinality(S)
  BY Zenon DEF Contract!Cardinality, Cardinality
<1>2. \A j : Contract!Mine(j) = Mine(items, j)  BY DEF Contract!Mine, Mine
<1> QED BY <1>1, <1>2 DEF Contract!Count

\* A device that is inserted under a name and an address that are free.
LEMMA InsertedApart ==
  ASSUME Types, NoneShared, NEW d \in Devices, NEW name \in Names, NEW ip \in IPs, Free(name, ip),
         device' = [device EXCEPT ![d] = [name |-> name, ip |-> ip]]
  PROVE  NoneShared'
<1>1. device'[d] = [name |-> name, ip |-> ip] /\ \A e \in Devices \ {d} : device'[e] = device[e]
  BY DEF Types, Typed
<1>2. \A e \in Devices : Live(e) => device[e].name # name /\ device[e].ip # ip
  BY DEF Free, WithName, WithIp
<1>3. device'[d].name = name /\ device'[d].ip = ip  BY <1>1
<1> QED BY <1>1, <1>2, <1>3 DEF NoneShared, Live

\* A device that is written under a name and an address nobody else has.
LEMMA WrittenApart ==
  ASSUME Types, NoneShared, NEW d \in Devices, NEW row \in DeviceRows, Written(d, row)
  PROVE  NoneShared'
<1>1. device'[d] = row /\ \A e \in Devices \ {d} : device'[e] = device[e]  BY WrittenRow
<1>2. \A e \in Devices \ {d} : Live(e) => device[e].name # row.name /\ device[e].ip # row.ip
  BY DEF Written, WithName, WithIp
<1> QED BY <1>1, <1>2 DEF NoneShared, Live

\* An update renames one device and moves one, if nothing has the name or the
\* address by now.
LEMMA UpdatedApart ==
  ASSUME Types, NoneShared, OnePage, SessionUpdates
  PROVE  NoneShared'
<1>0. CASE device' = device  BY <1>0 DEF NoneShared, Live
<1>1. ASSUME /\ \A d \in session.rename \cup session.move : Live(d)
             /\ session.rename # {} => WithName(session.host) = {}
             /\ session.move # {} => WithIp(session.id.ip) = {}
             /\ device' = [d \in Devices |->
                  IF d \in session.rename THEN [device[d] EXCEPT !.name = session.host]
                  ELSE IF d \in session.move THEN [device[d] EXCEPT !.ip = session.id.ip]
                  ELSE device[d]]
      PROVE  NoneShared'
  <2>0. AtMostOne(session.rename) /\ AtMostOne(session.move)
    BY DEF SessionUpdates, OnePage
  <2> DEFINE named(d) == IF d \in session.rename THEN session.host ELSE device[d].name
             placed(d) == IF d \in session.move \ session.rename THEN session.id.ip ELSE device[d].ip
  <2>1. ASSUME NEW d \in Devices, Live(d)'
        PROVE  Live(d) /\ device'[d].name = named(d) /\ device'[d].ip = placed(d)
    <3>1. Live(d)  BY <1>1, <2>1 DEF Live
    <3>2. device[d] \in DeviceRows  BY <3>1, LiveTyped DEF Types
    <3>3. CASE d \in session.rename
      <4>1. device'[d] = [device[d] EXCEPT !.name = session.host]  BY <1>1, <3>3
      <4> QED BY <3>1, <3>2, <3>3, <4>1 DEF DeviceRows
    <3>4. CASE d \in session.move \ session.rename
      <4>1. device'[d] = [device[d] EXCEPT !.ip = session.id.ip]  BY <1>1, <3>4
      <4> QED BY <3>1, <3>2, <3>4, <4>1 DEF DeviceRows
    <3>5. CASE d \notin session.move \cup session.rename  BY <1>1, <3>1, <3>5
    <3> QED BY <3>3, <3>4, <3>5
  <2>2. ASSUME NEW d \in Devices, NEW e \in Devices, Live(d), Live(e), d # e
        PROVE  named(d) # named(e) /\ placed(d) # placed(e)
    <3>1. device[d].name # device[e].name /\ device[d].ip # device[e].ip  BY <2>2 DEF NoneShared
    <3>2. session.rename # {} => device[d].name # session.host /\ device[e].name # session.host
      BY <1>1, <2>2 DEF WithName
    <3>3. session.move # {} => device[d].ip # session.id.ip /\ device[e].ip # session.id.ip
      BY <1>1, <2>2 DEF WithIp
    <3>4. ~(d \in session.rename /\ e \in session.rename) /\ ~(d \in session.move /\ e \in session.move)
      BY <2>0, <2>2 DEF AtMostOne
    <3> QED BY <3>1, <3>2, <3>3, <3>4
  <2> HIDE DEF named, placed
  <2> QED BY <2>1, <2>2 DEF NoneShared
<1> QED BY <1>0, <1>1 DEF SessionUpdates

\* The pages, what is done by hand and the deletions.
LEMMA PagesKeepContract ==
  ASSUME Types, ContractInv, OperatorStep \/ AdminStep \/ DeleteStep
  PROVE  ContractInv'
<1> USE DEF ContractInv
<1>1. UNCHANGED assign  BY PagesLeaveJobs
<1>2. SuccessNames'  BY <1>1 DEF SuccessNames
<1>3. OnePage'
  <2>1. session' = session \/ session' = None => OnePage'  BY DEF OnePage
  <2>2. ASSUME NEW ip \in IPs, OpenCandidate(ip) PROVE OnePage'
    <3>1. /\ session'.rename = {d \in WithIp(ip) : cand[ip].host \notin {NoHost, device[d].name}}
          /\ session'.move = {d \in WithName(cand[ip].host) : device[d].ip # ip}
      BY <2>2 DEF OpenCandidate
    <3>2. AtMostOne(WithIp(ip)) /\ AtMostOne(WithName(cand[ip].host))
      BY DEF AtMostOne, WithIp, WithName, NoneShared
    <3> QED BY <3>1, <3>2 DEF OnePage, AtMostOne
  <2>3. ASSUME NEW ip \in IPs, OpenPromotion(ip) PROVE OnePage'
    <3>1. session'.rename = {} /\ session'.move = {}  BY <2>3 DEF OpenPromotion
    <3> QED BY <3>1 DEF OnePage, AtMostOne
  <2>4. ASSUME PromotionFinds PROVE OnePage'
    <3>1. session \in Sessions /\ session # None /\ session' = [session EXCEPT !.review = "match"]
      BY <2>4 DEF PromotionFinds, Types, Typed
    <3>2. session'.rename = session.rename /\ session'.move = session.move
      BY <3>1 DEF Sessions
    <3> QED BY <3>1, <3>2 DEF OnePage, AtMostOne
  <2>5. [Next]_vars  BY DEF Next
  <2> QED BY <2>1, <2>2, <2>3, <2>4, <2>5, PageKept
<1>4. NoneShared'
  <2>1. device' = device => NoneShared'  BY DEF NoneShared, Live
  <2>2. ASSUME NEW name \in Given, SessionCreates(name) PROVE NoneShared'
    <3> DEFINE d == CHOOSE e \in Unused : TRUE
    <3>1. d \in Devices
      <4>1. Unused # {}  BY <2>2 DEF SessionCreates
      <4> QED BY <4>1 DEF Unused
    <3>2. session.id.ip \in IPs  BY <2>2 DEF SessionCreates, Types, Typed, Sessions, Ids
    <3>3. \/ device' = device
          \/ /\ Free(name, session.id.ip)
             /\ device' = [device EXCEPT ![d] = [name |-> name, ip |-> session.id.ip]]
      BY <2>2 DEF SessionCreates
    <3> HIDE DEF d
    <3> QED BY <2>1, <3>1, <3>2, <3>3, GivenAssumption, InsertedApart
  <2>3. ASSUME DeleteDevice PROVE NoneShared'
    <3> DEFINE d == dropping.of
    <3>1. d \in Devices /\ (device' = device \/ device' = [device EXCEPT ![d] = Gone])
      BY <2>3 DEF DeleteDevice, Types, Typed, Deletions
    <3> HIDE DEF d
    <3>2. CASE device' = [device EXCEPT ![d] = Gone]
      <4>1. device'[d] = Gone /\ \A e \in Devices \ {d} : device'[e] = device[e]
        BY <3>1, <3>2 DEF Types, Typed
      <4> QED BY <4>1 DEF NoneShared, Live
    <3> QED BY <2>1, <3>1, <3>2
  <2>4. SessionUpdates => NoneShared'  BY UpdatedApart
  <2>5. (\E at \in IPs : IgnoreSelected(at) \/ OpenCandidate(at)) \/ SessionIgnores \/ SessionEnds
        \/ (\E d \in Devices : OpenDelete(d)) \/ DropCandidates \/ KillDelete => device' = device
    BY DEF IgnoreSelected, OpenCandidate, SessionIgnores, SessionEnds, OpenDelete, DropCandidates,
           KillDelete
  <2>6. ASSUME NEW d \in Devices, NEW row \in DeviceRows, Written(d, row) PROVE NoneShared'
    BY <2>6, WrittenApart
  <2>7. ASSUME NEW gone \in SUBSET Devices, Removed(gone) PROVE NoneShared'
    <3>1. \A d \in Devices : device'[d] = IF d \in gone THEN Gone ELSE device[d]
      BY <2>7 DEF Removed
    <3> QED BY <3>1 DEF NoneShared, Live
  <2>8. AdminStep => NoneShared'  BY <2>1, <2>6, <2>7, AdminDevices
  <2> QED BY <2>1, <2>2, <2>3, <2>4, <2>5, <2>8 DEF OperatorStep, DeleteStep
<1> QED BY <1>2, <1>3, <1>4

\* A turn has one candidate less to go, and answers it.
LEMMA TurnNames ==
  ASSUME Types, NEW j \in Jobs, assign[j].at = "loop", NEW id \in assign[j].left,
         NEW ok \in BOOLEAN, NEW d \in Live3, Turn(j, id, ok, d)
  PROVE  /\ assign'[j].at = "record" /\ assign'[j].result.ok = ok /\ assign'[j].result.device = d
         /\ assign'[j].status = assign[j].status /\ assign'[j].wanted = assign[j].wanted
         /\ assign[j].status = "running"
         /\ \A i \in Jobs \ {j} : assign'[i] = assign[i]
<1>1. assign' = [assign EXCEPT ![j] = Turned(j, id, ok, d)]
  BY DEF Turn, Turned, Types, Typed
<1>2. assign[j] \in JobType /\ assign \in [Jobs -> JobType]  BY DEF Types, Typed
<1>3. /\ Turned(j, id, ok, d).at = "record" /\ Turned(j, id, ok, d).status = assign[j].status
      /\ Turned(j, id, ok, d).wanted = assign[j].wanted
      /\ Turned(j, id, ok, d).result = [job |-> j, of |-> id, ok |-> ok, device |-> d]
  BY <1>2 DEF Turned, JobType
<1>4. assign'[j] = Turned(j, id, ok, d) /\ \A i \in Jobs \ {j} : assign'[i] = assign[i]
  BY <1>1, <1>2
<1>5. assign[j].status = "running"  BY DEF Types, JobPhases
<1> HIDE DEF Turned
<1> QED BY <1>3, <1>4, <1>5

\* A turn of a job: its device, if it made one, is apart from the others.
LEMMA TurnKeepsContract ==
  ASSUME Types, ContractInv, NEW j \in Jobs, NEW id \in assign[j].left,
         AssignCandidate(j, id) \/ AssignFails(j, id) \/ AssignRollsBack(j, id)
  PROVE  /\ ContractInv'
         /\ assign'[j].at = "record" /\ assign[j].status = "running"
         /\ assign'[j].status = "running" /\ assign'[j].wanted = assign[j].wanted
<1> USE DEF ContractInv
<1>0. assign[j].at = "loop" /\ session' = session
  BY DEF AssignCandidate, AssignFails, AssignRollsBack, Job, AssignOnly
<1>1. OnePage'  BY <1>0 DEF OnePage
<1>2. CASE AssignCandidate(j, id)
  <2> DEFINE d == CHOOSE e \in Unused : TRUE
             name == NameFor(assign[j].loaded[id], id.ip)
  <2>1. d \in Devices
    <3>1. Unused # {}  BY <1>2 DEF AssignCandidate
    <3> QED BY <3>1 DEF Unused
  <2>2. name \in Names /\ id.ip \in IPs
    <3>1. assign[j] \in JobType  BY DEF Types, Typed
    <3>2. assign[j].loaded[id] \in Heard  BY <1>2, <3>1, SomeTyped DEF AssignCandidate, JobType
    <3>3. id \in Ids  BY <3>1 DEF JobType
    <3> QED BY <3>2, <3>3, NameTyped DEF Ids
  <2> HIDE DEF d, name
  <2>3. Free(name, id.ip) /\ device' = [device EXCEPT ![d] = [name |-> name, ip |-> id.ip]]
    BY <1>2 DEF AssignCandidate, d, name
  <2>4. PICK ok \in BOOLEAN : Turn(j, id, ok, d)  BY <1>2 DEF AssignCandidate, d
  <2>5. d \in Live3  BY <2>1 DEF Live3
  <2>6. NoneShared'  BY <2>1, <2>2, <2>3, InsertedApart
  <2>7. /\ assign'[j].at = "record" /\ assign'[j].result.device = d
        /\ assign'[j].status = assign[j].status /\ assign'[j].wanted = assign[j].wanted
        /\ assign[j].status = "running" /\ \A i \in Jobs \ {j} : assign'[i] = assign[i]
    BY <1>0, <2>4, <2>5, TurnNames
  <2>8. SuccessNames'  BY <2>1, <2>7 DEF SuccessNames
  <2> QED BY <1>1, <2>6, <2>7, <2>8
<1>3. CASE AssignFails(j, id) \/ AssignRollsBack(j, id)
  <2>1. PICK d \in Live3 : Turn(j, id, FALSE, d)
    BY <1>3 DEF AssignFails, AssignRollsBack, Live3
  <2>2. device' = device  BY <1>3 DEF AssignFails, AssignRollsBack
  <2>3. /\ assign'[j].at = "record" /\ assign'[j].result.ok = FALSE
        /\ assign'[j].status = assign[j].status /\ assign'[j].wanted = assign[j].wanted
        /\ assign[j].status = "running" /\ \A i \in Jobs \ {j} : assign'[i] = assign[i]
    BY <1>0, <2>1, TurnNames
  <2>4. SuccessNames'  BY <2>3 DEF SuccessNames
  <2>5. NoneShared'  BY <2>2 DEF NoneShared, Live
  <2> QED BY <1>1, <2>3, <2>4, <2>5
<1> QED BY <1>2, <1>3

\* What the other steps of a job make of its row.
LEMMA TaskRow ==
  ASSUME Types, NEW j \in Jobs
  PROVE  /\ CreateJob(j) => \E new \in JobType, wanted \in SUBSET Ids :
              /\ assign' = [assign EXCEPT ![j] = new] /\ new.at = "queued" /\ wanted # {}
              /\ assign[j].status = "new" /\ new.status = "pending" /\ new.wanted = wanted
         /\ LoadCandidates(j) => \E new \in JobType :
              /\ assign' = [assign EXCEPT ![j] = new] /\ new.at = "loop"
              /\ assign[j].status = "pending" /\ new.status = "running"
              /\ new.wanted = assign[j].wanted
         /\ RecordItem(j) => \E new \in JobType :
              /\ assign' = [assign EXCEPT ![j] = new] /\ new.at \in {"loop", "failed"}
              /\ assign[j].status = "running" /\ new.status = "running"
              /\ new.wanted = assign[j].wanted
         /\ SaveJob(j) => \E new \in JobType :
              /\ assign' = [assign EXCEPT ![j] = new] /\ new.at = "idle"
              /\ assign[j].status = "running" /\ new.wanted = assign[j].wanted
              /\ new.ok = assign[j].ok /\ new.bad = assign[j].bad
              /\ \/ new.status = "failed"
                 \/ new.status = "completed" /\ assign[j].at = "loop" /\ assign[j].left = {}
         /\ KillJob(j) => \E new \in JobType :
              /\ assign' = [assign EXCEPT ![j] = new] /\ new.at = "dead"
              /\ assign[j].status = "running" /\ new.status = "running"
              /\ new.wanted = assign[j].wanted
<1> USE DEF Types
<1>0. assign[j] \in JobType /\ assign \in [Jobs -> JobType]  BY DEF Typed
<1>1. ASSUME CreateJob(j)
      PROVE  \E new \in JobType, wanted \in SUBSET Ids :
              /\ assign' = [assign EXCEPT ![j] = new] /\ new.at = "queued" /\ wanted # {}
              /\ assign[j].status = "new" /\ new.status = "pending" /\ new.wanted = wanted
  <2>1. PICK wanted \in (SUBSET OpenIds) \ {{}} :
          assign' = [assign EXCEPT ![j].status = "pending", ![j].at = "queued",
                                   ![j].wanted = wanted]
    BY <1>1 DEF CreateJob
  <2>2. wanted \in SUBSET Ids /\ wanted # {}  BY OpenTyped
  <2> DEFINE new == [assign[j] EXCEPT !.status = "pending", !.at = "queued", !.wanted = wanted]
  <2>3. assign' = [assign EXCEPT ![j] = new]  BY <1>0, <2>1
  <2>4. new \in JobType /\ new.status = "pending" /\ new.at = "queued" /\ new.wanted = wanted
    BY <1>0, <2>2 DEF JobType
  <2> HIDE DEF new
  <2> QED BY <1>1, <2>2, <2>3, <2>4 DEF CreateJob
<1>2. ASSUME LoadCandidates(j)
      PROVE  \E new \in JobType :
              /\ assign' = [assign EXCEPT ![j] = new] /\ new.at = "loop"
              /\ assign[j].status = "pending" /\ new.status = "running"
              /\ new.wanted = assign[j].wanted
  <2> DEFINE loaded == Loaded(assign[j].wanted)
             new == [assign[j] EXCEPT !.status = "running", !.at = "loop",
                                      !.left = assign[j].wanted, !.loaded = loaded]
  <2>1. loaded \in Some(Ids, Heard)  BY <1>0, LoadedTyped DEF JobType
  <2>2. assign' = [assign EXCEPT ![j] = new]  BY <1>0, <1>2 DEF LoadCandidates
  <2> HIDE DEF loaded
  <2>3. new \in JobType /\ new.status = "running" /\ new.at = "loop" /\ new.wanted = assign[j].wanted
    BY <1>0, <2>1 DEF JobType
  <2>4. assign[j].status = "pending"  BY <1>2 DEF LoadCandidates, Job, JobPhases
  <2> HIDE DEF new
  <2> QED BY <2>2, <2>3, <2>4
<1>3. ASSUME RecordItem(j)
      PROVE  \E new \in JobType :
              /\ assign' = [assign EXCEPT ![j] = new] /\ new.at \in {"loop", "failed"}
              /\ assign[j].status = "running" /\ new.status = "running"
              /\ new.wanted = assign[j].wanted
  <2>1. PICK at \in {"loop", "failed"} :
          assign' = [assign EXCEPT ![j].at = at, ![j].result = None]
    BY <1>3 DEF RecordItem
  <2> DEFINE new == [assign[j] EXCEPT !.at = at, !.result = None]
  <2>2. assign' = [assign EXCEPT ![j] = new]  BY <1>0, <2>1
  <2>3. new \in JobType /\ new.status = assign[j].status /\ new.at = at /\ new.wanted = assign[j].wanted
    BY <1>0 DEF JobType
  <2>4. assign[j].status = "running"  BY <1>3 DEF RecordItem, Job, JobPhases
  <2> HIDE DEF new
  <2> QED BY <2>2, <2>3, <2>4
<1>4. ASSUME SaveJob(j)
      PROVE  \E new \in JobType :
              /\ assign' = [assign EXCEPT ![j] = new] /\ new.at = "idle"
              /\ assign[j].status = "running" /\ new.wanted = assign[j].wanted
              /\ new.ok = assign[j].ok /\ new.bad = assign[j].bad
              /\ \/ new.status = "failed"
                 \/ new.status = "completed" /\ assign[j].at = "loop" /\ assign[j].left = {}
  <2>1. PICK status \in Final :
          /\ assign' = [assign EXCEPT ![j] = [assign[j] EXCEPT !.at = "idle", !.left = {},
                                                !.loaded = <<>>, !.status = status]]
          /\ status = "completed" => assign[j].at = "loop" /\ assign[j].left = {}
    BY <1>0, <1>4 DEF SaveJob, Job, Final
  <2> DEFINE new == [assign[j] EXCEPT !.at = "idle", !.left = {}, !.loaded = <<>>, !.status = status]
  <2>2. <<>> \in Some(Ids, Heard)  BY SomeTyped
  <2>3. /\ new \in JobType /\ new.status = status /\ new.at = "idle"
        /\ new.wanted = assign[j].wanted /\ new.ok = assign[j].ok /\ new.bad = assign[j].bad
    BY <1>0, <2>2 DEF JobType, Final
  <2>4. assign[j].status = "running"  BY <1>4 DEF SaveJob, Job, JobPhases
  <2>5. assign' = [assign EXCEPT ![j] = new]  BY <2>1
  <2> HIDE DEF new
  <2> QED BY <2>1, <2>3, <2>4, <2>5 DEF Final
<1>5. ASSUME KillJob(j)
      PROVE  \E new \in JobType :
              /\ assign' = [assign EXCEPT ![j] = new] /\ new.at = "dead"
              /\ assign[j].status = "running" /\ new.status = "running"
              /\ new.wanted = assign[j].wanted
  <2> DEFINE new == [assign[j] EXCEPT !.at = "dead", !.left = {}, !.loaded = <<>>, !.result = None]
  <2>1. assign' = [assign EXCEPT ![j] = new]  BY <1>0, <1>5 DEF KillJob
  <2>2. <<>> \in Some(Ids, Heard)  BY SomeTyped
  <2>3. new \in JobType /\ new.status = assign[j].status /\ new.at = "dead" /\ new.wanted = assign[j].wanted
    BY <1>0, <2>2 DEF JobType
  <2>4. assign[j].status = "running"  BY <1>5 DEF KillJob, JobPhases
  <2> HIDE DEF new
  <2> QED BY <2>1, <2>3, <2>4
<1> QED BY <1>1, <1>2, <1>3, <1>4, <1>5

\* What the contract sees of a step that changes the row of one job.
LEMMA RowSeen ==
  ASSUME Types, NEW j \in Jobs, NEW new \in JobType, assign' = [assign EXCEPT ![j] = new]
  PROVE  /\ Statuses' = [Statuses EXCEPT ![j] = new.status]
         /\ Wants' = [Wants EXCEPT ![j] = new.wanted]
         /\ new.status = assign[j].status => Statuses' = Statuses
         /\ new.wanted = assign[j].wanted => Wants' = Wants
         /\ assign[j].status # "completed" /\ new.status # "completed" => Tallies' = Tallies
         /\ new.status = "completed" =>
              Tallies' = [Tallies EXCEPT ![j] = [ok |-> new.ok, bad |-> new.bad]]
<1>1. assign'[j] = new /\ \A i \in Jobs \ {j} : assign'[i] = assign[i]  BY DEF Types, Typed
<1>2. \A i \in Jobs \ {j} : Counts(i)' = Counts(i)  BY <1>1 DEF Counts
<1>3. Counts(j)' = IF new.status = "completed" THEN [ok |-> new.ok, bad |-> new.bad] ELSE None
  BY <1>1 DEF Counts
<1>4. assign[j].status # "completed" => Counts(j) = None  BY DEF Counts
<1>5. Statuses' = [Statuses EXCEPT ![j] = new.status]
  <2>1. Statuses' = [i \in Jobs |-> assign'[i].status]  BY DEF Statuses
  <2>2. \A i \in Jobs : assign'[i].status = IF i = j THEN new.status ELSE assign[i].status  BY <1>1
  <2>3. Statuses = [i \in Jobs |-> assign[i].status]  BY DEF Statuses
  <2> QED BY <2>1, <2>2, <2>3
<1>10. Wants' = [Wants EXCEPT ![j] = new.wanted]
  <2>1. Wants' = [i \in Jobs |-> assign'[i].wanted]  BY DEF Wants
  <2>2. \A i \in Jobs : assign'[i].wanted = IF i = j THEN new.wanted ELSE assign[i].wanted  BY <1>1
  <2>3. Wants = [i \in Jobs |-> assign[i].wanted]  BY DEF Wants
  <2> QED BY <2>1, <2>2, <2>3
<1>6. new.status = assign[j].status => Statuses' = Statuses  BY <1>1 DEF Statuses
<1>7. new.wanted = assign[j].wanted => Wants' = Wants  BY <1>1 DEF Wants
<1>8. assign[j].status # "completed" /\ new.status # "completed" => Tallies' = Tallies
  BY <1>2, <1>3, <1>4 DEF Tallies
<1>9. new.status = "completed" => Tallies' = [Tallies EXCEPT ![j] = [ok |-> new.ok, bad |-> new.bad]]
  BY <1>2, <1>3 DEF Tallies
<1> QED BY <1>5, <1>6, <1>7, <1>8, <1>9, <1>10

\* A step that shows no change of the jobs and their items.
LEMMA DevicesFollow ==
  ASSUME Statuses' = Statuses, Wants' = Wants, Tallies' = Tallies, items' = items, NoneShared',
         \A d \in Devices : device[d] # None => device'[d] # None
  PROVE  Contract!Next
<1>1. Contract!Apart'
  BY DEF Contract!Apart, Contract!There, NoneShared, Live
<1>2. Contract!Register
  BY <1>1 DEF Contract!Register, Contract!jobs, Statuses, Wants, Tallies
<1> QED BY <1>2 DEF Contract!Next

\* A task begins, and records or counts its answers.
LEMMA TaskFollows ==
  ASSUME Types, CountInv, ContractInv, NEW j \in Jobs,
         CreateJob(j) \/ LoadCandidates(j) \/ RecordItem(j) \/ SaveJob(j) \/ KillJob(j)
  PROVE  Contract!Next \/ UNCHANGED Contract!rows
<1>0. device' = device
  BY DEF CreateJob, LoadCandidates, RecordItem, SaveJob, KillJob
<1>1. CASE CreateJob(j)
  <2>i. items' = items  BY <1>1 DEF CreateJob
  <2>1. PICK new \in JobType, wanted \in SUBSET Ids :
          /\ assign' = [assign EXCEPT ![j] = new] /\ wanted # {}
          /\ assign[j].status = "new" /\ new.status = "pending" /\ new.wanted = wanted
    BY <1>1, TaskRow
  <2>s. Statuses[j] = "new"  BY <2>1 DEF Statuses
  <2>2. /\ Statuses' = [Statuses EXCEPT ![j] = new.status]
        /\ Wants' = [Wants EXCEPT ![j] = new.wanted] /\ Tallies' = Tallies
    <3>1. /\ Statuses' = [Statuses EXCEPT ![j] = new.status]
          /\ Wants' = [Wants EXCEPT ![j] = new.wanted]
          /\ assign[j].status # "completed" /\ new.status # "completed" => Tallies' = Tallies
      BY <2>1, RowSeen, Zenon
    <3> QED BY <2>1, <3>1
  <2>3. Contract!Ask(j)
    BY <1>0, <2>i, <2>s, <2>1, <2>2 DEF Contract!Ask, Contract!Move, Statuses, Wants, Tallies
  <2> QED BY <2>3 DEF Contract!Next
<1>2. CASE LoadCandidates(j)
  <2>i. items' = items  BY <1>2 DEF LoadCandidates
  <2>1. PICK new \in JobType :
          /\ assign' = [assign EXCEPT ![j] = new]
          /\ assign[j].status = "pending" /\ new.status = "running" /\ new.wanted = assign[j].wanted
    BY <1>2, TaskRow
  <2>s. Statuses[j] = "pending"  BY <2>1 DEF Statuses
  <2>r. /\ Statuses' = [Statuses EXCEPT ![j] = new.status]
        /\ new.wanted = assign[j].wanted => Wants' = Wants
        /\ assign[j].status # "completed" /\ new.status # "completed" => Tallies' = Tallies
    BY <2>1, RowSeen, Zenon
  <2>2. /\ Statuses' = [Statuses EXCEPT ![j] = "running"]
        /\ Wants' = Wants /\ Tallies' = Tallies
    BY <2>1, <2>r
  <2>3. Contract!Start(j)
    BY <1>0, <2>i, <2>s, <2>2 DEF Contract!Start, Contract!Move, Statuses, Wants, Tallies
  <2> QED BY <2>3 DEF Contract!Next
<1>3. CASE RecordItem(j)
  <2>1. PICK new \in JobType :
          /\ assign' = [assign EXCEPT ![j] = new]
          /\ assign[j].status = "running" /\ new.status = "running" /\ new.wanted = assign[j].wanted
    BY <1>3, TaskRow
  <2>r. /\ new.status = assign[j].status => Statuses' = Statuses
        /\ new.wanted = assign[j].wanted => Wants' = Wants
        /\ assign[j].status # "completed" /\ new.status # "completed" => Tallies' = Tallies
    BY <2>1, RowSeen, Zenon
  <2>s. Statuses[j] = "running"  BY <2>1 DEF Statuses
  <2>2. Statuses[j] = "running" /\ Statuses' = Statuses /\ Wants' = Wants /\ Tallies' = Tallies
    BY <2>1, <2>r, <2>s
  <2>3. CASE ~Referable(j)
    <3>1. items' = items  BY <1>3, <2>3 DEF RecordItem
    <3> QED BY <1>0, <2>2, <3>1 DEF Contract!rows, Contract!jobs, Statuses, Wants, Tallies
  <2>4. CASE Referable(j)
    <3> DEFINE it == assign[j].result
    <3>1. /\ assign[j].at = "record" /\ it \in Results /\ it.job = j
          /\ it.of \in assign[j].wanted \ assign[j].left
      BY <1>3 DEF RecordItem, Job, Types, JobPhases
    <3>2. items' = items \cup {it}  BY <1>3, <2>4 DEF RecordItem
    <3>3. it.of \notin {i.of : i \in Mine(items, j)}
      BY <3>1 DEF CountInv, CountedBy, Accounted
    <3>4. it = [job |-> j, of |-> it.of, ok |-> it.ok, device |-> it.device] /\ it.ok \in BOOLEAN
      BY <3>1 DEF Results
    <3>5. it.device = NoDevice \/ (it.device \in Devices /\ Live(it.device))
      BY <2>4 DEF Referable
    <3>6. it.device = NoDevice => ~it.ok
      BY <3>1, InventoryAssumption DEF ContractInv, SuccessNames
    <3> HIDE DEF it
    <3>7. PICK c, ok, d : it = [job |-> j, of |-> c, ok |-> ok, device |-> d] /\ ok \in BOOLEAN
                          /\ c = it.of /\ ok = it.ok /\ d = it.device
      BY <3>4
    <3>8. c \in Wants[j] \ Contract!Answered(j)
      BY <3>1, <3>3, <3>7, ContractSees DEF Wants, it
    <3>9. d \in Devices \cup {NoDevice} /\ (d = NoDevice => ~ok) /\ (d # NoDevice => Contract!There(d))
      BY <3>5, <3>6, <3>7, ContractSees
    <3>10. items' = items \cup {[job |-> j, of |-> c, ok |-> ok, device |-> d]}  BY <3>2, <3>7
    <3>11. Contract!Answer(j)
      BY <1>0, <2>2, <3>7, <3>8, <3>9, <3>10 DEF Contract!Answer, Statuses, Wants, Tallies
    <3> QED BY <3>11 DEF Contract!Next
  <2> QED BY <2>3, <2>4
<1>4. CASE SaveJob(j)
  <2>i. items' = items  BY <1>4 DEF SaveJob
  <2>1. PICK new \in JobType :
          /\ assign' = [assign EXCEPT ![j] = new]
          /\ assign[j].status = "running" /\ new.wanted = assign[j].wanted
          /\ new.ok = assign[j].ok /\ new.bad = assign[j].bad
          /\ \/ new.status = "failed"
             \/ new.status = "completed" /\ assign[j].at = "loop" /\ assign[j].left = {}
    BY <1>4, TaskRow
  <2>2. /\ Statuses[j] = "running" /\ Statuses' = [Statuses EXCEPT ![j] = new.status]
        /\ Wants' = Wants
    <3>1. /\ Statuses' = [Statuses EXCEPT ![j] = new.status]
          /\ new.wanted = assign[j].wanted => Wants' = Wants
      BY <2>1, RowSeen, Zenon
    <3>2. Statuses[j] = "running"  BY <2>1 DEF Statuses
    <3> QED BY <2>1, <3>1, <3>2
  <2>3. CASE new.status = "failed"
    <3>0. assign[j].status # "completed" /\ new.status # "completed" => Tallies' = Tallies
      BY <2>1, RowSeen, Zenon
    <3>1. Tallies' = Tallies  BY <2>1, <2>3, <3>0
    <3>2. Contract!Fail(j)
      BY <1>0, <2>i, <2>2, <2>3, <3>1 DEF Contract!Fail, Contract!Move, Statuses, Wants, Tallies
    <3> QED BY <3>2 DEF Contract!Next
  <2>4. CASE new.status = "completed" /\ assign[j].at = "loop" /\ assign[j].left = {}
    <3> DEFINE M == Mine(items, j)
               good == {it \in M : it.ok}
               bad == {it \in M : ~it.ok}
    <3>1. Accounted(items, j, assign[j].wanted, assign[j].ok, assign[j].bad)
      <4>1. assign[j].wanted \ assign[j].left = assign[j].wanted  BY <2>4
      <4> QED BY <2>4, <4>1 DEF CountInv, CountedBy
    <3>2. /\ IsFiniteSet(M) /\ {it.of : it \in M} = assign[j].wanted
          /\ assign[j].ok = Cardinality(good) /\ assign[j].ok \in Nat /\ assign[j].bad \in Nat
          /\ assign[j].ok + assign[j].bad = Cardinality(M)
      BY <3>1 DEF Accounted
    <3>3. {it \in M : it.ok = TRUE} = good /\ {it \in M : it.ok = FALSE} = bad
      <4>1. \A it \in M : it.ok \in BOOLEAN  BY DEF Mine, Types, Typed
      <4> QED BY <4>1
    <3>4. bad = M \ good /\ M \cap good = good  OBVIOUS
    <3>5. Contract!Count(j, TRUE) = Cardinality(good) /\ Contract!Count(j, FALSE) = Cardinality(bad)
      BY <3>3, ContractCounts
    <3> HIDE DEF good, bad, M
    <3>6. Cardinality(bad) = Cardinality(M) - Cardinality(good)
      <4>1. IsFiniteSet(M)  BY <3>2
      <4>2. Cardinality(M \ good) = Cardinality(M) - Cardinality(M \cap good)
        BY <4>1, FS_Difference
      <4> QED BY <3>4, <4>2
    <3>n. assign[j].ok = Cardinality(good) /\ assign[j].bad \in Nat /\ assign[j].ok \in Nat
          /\ assign[j].ok + assign[j].bad = Cardinality(M)
      BY <3>2
    <3>b. assign[j].bad = Cardinality(bad)
      BY <3>6, <3>n
    <3>7. Contract!Count(j, TRUE) = assign[j].ok /\ Contract!Count(j, FALSE) = assign[j].bad
      BY <3>5, <3>b, <3>n
    <3> USE DEF M
    <3>r. new.status = "completed" =>
            Tallies' = [Tallies EXCEPT ![j] = [ok |-> new.ok, bad |-> new.bad]]
      BY <2>1, RowSeen, Zenon
    <3>8. Tallies' = [Tallies EXCEPT ![j] = [ok |-> assign[j].ok, bad |-> assign[j].bad]]
      BY <2>1, <2>4, <3>r
    <3>9. Contract!Answered(j) = Wants[j]  BY <3>2, ContractSees DEF Wants
    <3>10. Contract!Complete(j)
      BY <1>0, <2>i, <2>2, <2>4, <3>7, <3>8, <3>9
      DEF Contract!Complete, Contract!Move, Statuses, Wants, Tallies
    <3> QED BY <3>10 DEF Contract!Next
  <2> QED BY <2>1, <2>3, <2>4
<1>5. CASE KillJob(j)
  <2>i. items' = items  BY <1>5 DEF KillJob
  <2>1. PICK new \in JobType :
          /\ assign' = [assign EXCEPT ![j] = new]
          /\ assign[j].status = "running" /\ new.status = "running" /\ new.wanted = assign[j].wanted
    BY <1>5, TaskRow
  <2>r. /\ new.status = assign[j].status => Statuses' = Statuses
        /\ new.wanted = assign[j].wanted => Wants' = Wants
        /\ assign[j].status # "completed" /\ new.status # "completed" => Tallies' = Tallies
    BY <2>1, RowSeen, Zenon
  <2>2. Statuses' = Statuses /\ Wants' = Wants /\ Tallies' = Tallies
    BY <2>1, <2>r
  <2> QED BY <1>0, <2>i, <2>2 DEF Contract!rows, Contract!jobs, Statuses, Wants, Tallies
<1> QED BY <1>1, <1>2, <1>3, <1>4, <1>5

\* A device that was inserted once is there or deleted ever after.
LEMMA NoneForgotten ==
  ASSUME Types, [Next]_vars, NEW d \in Devices
  PROVE  device[d] # None => device'[d] # None
<1> DEFINE Stays == device[d] # None => device'[d] # None
<1>0. device' = device => Stays  OBVIOUS
<1>1. device \in [Devices -> DeviceRows \cup {None, Gone}]  BY DEF Types, Typed
<1>2. ASSUME Unused # {}, NEW row \in DeviceRows,
             device' = [device EXCEPT ![CHOOSE e \in Unused : TRUE] = row]
      PROVE  Stays
  <2>1. PICK e \in Unused : device' = [device EXCEPT ![e] = row]  BY <1>2
  <2>2. e \in Devices /\ device[e] = None  BY DEF Unused
  <2>3. row # None  BY LiveRow
  <2> QED BY <1>1, <2>1, <2>2, <2>3, NoneAssumption
<1>3. ASSUME NEW j \in Jobs, JobStep(j) PROVE Stays
  <2>1. ASSUME NEW id \in assign[j].left, AssignCandidate(j, id) PROVE Stays
    <3> DEFINE name == NameFor(assign[j].loaded[id], id.ip)
    <3>1. assign[j] \in JobType  BY DEF Types, Typed
    <3>2. assign[j].loaded[id] \in Heard  BY <2>1, <3>1, SomeTyped DEF AssignCandidate, JobType
    <3>3. id.ip \in IPs  BY <3>1 DEF JobType, Ids
    <3>4. [name |-> name, ip |-> id.ip] \in DeviceRows  BY <3>2, <3>3, NameTyped DEF DeviceRows
    <3>5. Unused # {} /\ device' = [device EXCEPT ![CHOOSE e \in Unused : TRUE] =
                                        [name |-> name, ip |-> id.ip]]
      BY <2>1 DEF AssignCandidate
    <3> HIDE DEF name, Stays
    <3> QED BY <1>2, <3>4, <3>5
  <2>2. (CreateJob(j) \/ LoadCandidates(j) \/ RecordItem(j) \/ SaveJob(j) \/ KillJob(j)
         \/ \E id \in assign[j].left : AssignFails(j, id) \/ AssignRollsBack(j, id)) => device' = device
    BY DEF CreateJob, LoadCandidates, RecordItem, SaveJob, KillJob, AssignFails, AssignRollsBack
  <2> QED BY <1>0, <1>3, <2>1, <2>2 DEF JobStep
<1>4. ASSUME NEW name \in Given, SessionCreates(name) PROVE Stays
  <2>1. session.id.ip \in IPs  BY <1>4 DEF SessionCreates, Types, Typed, Sessions, Ids
  <2>2. [name |-> name, ip |-> session.id.ip] \in DeviceRows  BY <2>1, GivenAssumption DEF DeviceRows
  <2>3. /\ Unused # {}
        /\ \/ device' = device
           \/ device' = [device EXCEPT ![CHOOSE e \in Unused : TRUE] =
                            [name |-> name, ip |-> session.id.ip]]
    BY <1>4 DEF SessionCreates
  <2> HIDE DEF Stays
  <2> QED BY <1>0, <1>2, <2>2, <2>3
<1>5. ASSUME SessionUpdates PROVE Stays
  <2>1. CASE device' = device  BY <2>1
  <2>2. CASE /\ \A e \in session.rename \cup session.move : Live(e)
             /\ device' = [e \in Devices |->
                  IF e \in session.rename THEN [device[e] EXCEPT !.name = session.host]
                  ELSE IF e \in session.move THEN [device[e] EXCEPT !.ip = session.id.ip]
                  ELSE device[e]]
    <3>1. CASE d \notin session.rename \cup session.move  BY <2>2, <3>1
    <3>2. CASE d \in session.rename \cup session.move
      <4>1. device[d] \in DeviceRows /\ device[d] # Gone  BY <2>2, <3>2, LiveTyped DEF Types, Live
      <4>2. session.id.ip \in IPs /\ (d \in session.rename => session.host \in Names)
        BY <1>5 DEF SessionUpdates, Types, Typed, SessionNames, Sessions, Heard, Names, Ids
      <4>3. device'[d] = IF d \in session.rename THEN [device[d] EXCEPT !.name = session.host]
                         ELSE [device[d] EXCEPT !.ip = session.id.ip]
        BY <2>2, <3>2
      <4>4. device'[d] \in DeviceRows  BY <4>1, <4>2, <4>3 DEF DeviceRows
      <4> QED BY <4>1, <4>4, LiveRow
    <3> QED BY <3>1, <3>2
  <2> QED BY <1>5, <2>1, <2>2 DEF SessionUpdates
<1>6. ASSUME DeleteDevice PROVE Stays
  <2>1. device' = device \/ device' = [device EXCEPT ![dropping.of] = Gone]
    BY <1>6 DEF DeleteDevice
  <2> QED BY <1>1, <2>1, NoneAssumption
<1>7. (\E s \in Scans : ScanStep(s)) \/ UNCHANGED vars
      \/ (\E at \in IPs : IgnoreSelected(at) \/ OpenCandidate(at)) \/ SessionIgnores \/ SessionEnds
      \/ (\E e \in Devices : OpenDelete(e)) \/ DropCandidates \/ KillDelete => device' = device
  BY DEF vars, ScanStep, CreateScan, StartScan, SelectCandidates, ClassifyCommit, ScanRaises,
         SaveScan, KillScan, ScanRange, ClassifyOne, ScanOnly, IgnoreSelected, OpenCandidate,
         SessionIgnores, SessionEnds, OpenDelete, DropCandidates, KillDelete
<1>9. ASSUME AdminStep PROVE Stays
  <2>1. ASSUME NEW e \in Devices, NEW row \in DeviceRows, Written(e, row) PROVE Stays
    <3>1. device'[e] = row /\ row # None /\ \A f \in Devices \ {e} : device'[f] = device[f]
      BY <2>1, WrittenRow, LiveRow
    <3> QED BY <3>1
  <2>2. ASSUME NEW gone \in SUBSET Devices, Removed(gone) PROVE Stays
    BY <2>2, NoneAssumption DEF Removed
  <2> HIDE DEF Stays
  <2> QED BY <1>0, <1>9, <2>1, <2>2, AdminDevices
<1> HIDE DEF Stays
<1>8. Stays  BY <1>0, <1>3, <1>4, <1>5, <1>6, <1>7, <1>9 DEF Next, OperatorStep, DeleteStep
<1> QED BY <1>8 DEF Stays

\* The scans leave jobs, items and devices alone.
LEMMA ScansStandBy ==
  ASSUME NEW s \in Scans, ScanStep(s)
  PROVE  UNCHANGED <<items, assign, device, session>>
BY DEF ScanStep, CreateScan, StartScan, SelectCandidates, ClassifyCommit, ScanRaises,
       SaveScan, KillScan, ScanRange, ClassifyOne, ScanOnly

\* What the contract asks of the devices, and of what a page and a task hold,
\* stays so.
LEMMA ContractInvStays == Types /\ ContractInv /\ [Next]_vars => ContractInv'
<1> SUFFICES ASSUME Types, ContractInv, [Next]_vars PROVE ContractInv'  OBVIOUS
<1>1. ASSUME UNCHANGED <<assign, device, session>> PROVE ContractInv'
  BY <1>1 DEF ContractInv, NoneShared, Live, OnePage, SuccessNames
<1>2. ASSUME NEW j \in Jobs,
             CreateJob(j) \/ LoadCandidates(j) \/ RecordItem(j) \/ SaveJob(j) \/ KillJob(j)
      PROVE  ContractInv'
  <2>1. UNCHANGED <<device, session>>
    BY <1>2 DEF CreateJob, LoadCandidates, RecordItem, SaveJob, KillJob, AssignOnly
  <2>2. assign'[j].at # "record" /\ \A i \in Jobs \ {j} : assign'[i] = assign[i]
    <3>1. PICK new \in JobType : assign' = [assign EXCEPT ![j] = new] /\ new.at # "record"
      BY <1>2, TaskRow
    <3> QED BY <3>1 DEF Types, Typed
  <2> QED BY <2>1, <2>2 DEF ContractInv, NoneShared, Live, OnePage, SuccessNames
<1> QED BY <1>1, <1>2, TurnKeepsContract, ScansStandBy, PagesKeepContract
    DEF Next, JobStep, vars

\* Each step is one that the contract allows, or one it does not see.
LEMMA StepsFollowContract ==
  ASSUME Types, CountInv, ContractInv, [Next]_vars
  PROVE  Contract!Next \/ UNCHANGED Contract!rows
<1>0. NoneShared' /\ \A d \in Devices : device[d] # None => device'[d] # None
  BY ContractInvStays, NoneForgotten DEF ContractInv
<1>1. ASSUME UNCHANGED <<assign, items>> PROVE Contract!Next
  <2>1. Statuses' = Statuses /\ Wants' = Wants /\ Tallies' = Tallies
    BY <1>1 DEF Statuses, Wants, Tallies, Counts
  <2> QED BY <1>0, <1>1, <2>1, DevicesFollow
<1>2. ASSUME NEW j \in Jobs, NEW id \in assign[j].left,
             AssignCandidate(j, id) \/ AssignFails(j, id) \/ AssignRollsBack(j, id)
      PROVE  Contract!Next
  <2>1. /\ assign[j].status = "running" /\ assign'[j].status = "running"
        /\ assign'[j].wanted = assign[j].wanted
    BY <1>2, TurnKeepsContract
  <2>2. \A i \in Jobs \ {j} : assign'[i] = assign[i]
    BY <1>2, OtherJobs DEF JobStep
  <2>3. Statuses' = Statuses /\ Wants' = Wants  BY <2>1, <2>2 DEF Statuses, Wants
  <2>4. Tallies' = Tallies  BY <2>1, <2>2 DEF Tallies, Counts
  <2>5. items' = items  BY <1>2 DEF AssignCandidate, AssignFails, AssignRollsBack
  <2> QED BY <1>0, <2>3, <2>4, <2>5, DevicesFollow
<1>3. OperatorStep \/ AdminStep \/ DeleteStep => UNCHANGED <<assign, items>>
  BY PagesLeaveJobs
<1>4. UNCHANGED vars => UNCHANGED <<assign, items>>  BY DEF vars
<1> QED BY <1>1, <1>2, <1>3, <1>4, TaskFollows, ScansStandBy DEF Next, JobStep

\* The initial state is one of the contract.
LEMMA ContractInit == Init => Contract!Init /\ ContractInv
<1> SUFFICES ASSUME Init PROVE Contract!Init /\ ContractInv  OBVIOUS
<1>1. \A d \in Devices : Live(d) => d \in DOMAIN Inventory /\ device[d] = Inventory[d]
  BY DEF Init, Live
<1>2. NoneShared  BY <1>1, InventoryAssumption DEF NoneShared
<1>3. OnePage /\ SuccessNames  BY DEF Init, OnePage, SuccessNames, NewJob
<1>4. \A j \in Jobs : assign[j].status = "new" /\ assign[j].wanted = {}  BY DEF Init, NewJob
<1>5. Statuses = [j \in Jobs |-> "new"] /\ Wants = [j \in Jobs |-> {}]  BY <1>4 DEF Statuses, Wants
<1>6. Tallies = [j \in Jobs |-> None]  BY <1>4 DEF Tallies, Counts
<1>7. Contract!Apart /\ items = {}  BY <1>2, ContractSees DEF Init
<1> QED BY <1>2, <1>3, <1>5, <1>6, <1>7 DEF Contract!Init, ContractInv, Statuses, Wants, Tallies

\* ImplementsContract: the jobs, their items and the devices go through states
\* of AssignContract only, for any number of jobs, scans, pages and deletions.
THEOREM DiscoveryImplementsContract == Spec => ImplementsContract
<1>1. Init => CountInv  BY CountBegins
<1>2. Types /\ CountInv /\ [Next]_vars => CountInv'  BY CountStays
<1>3. Types /\ CountInv /\ ContractInv /\ [Next]_vars => [Contract!Next]_(Contract!rows)
  BY StepsFollowContract
<1> QED BY <1>1, <1>2, <1>3, ContractInit, ContractInvStays, InitTypes, NextTypes,
           PTL DEF Spec, ImplementsContract, Contract!Spec

==============================================================================
