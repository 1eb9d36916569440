------------------------------ MODULE Topology ------------------------------
(***************************************************************************)
(* The neighbours of one device.  A collection asks the device for what it *)
(* hears by CDP and by LLDP, upserts a row for each neighbour on a port    *)
(* that is known, and deletes the other rows of the protocols for which it *)
(* got an answer.  No constraint keeps a neighbour from having two rows.   *)
(*                                                                         *)
(* A collection of the task or the command commits every statement; one    *)
(* that ends a synchronization is a part of its transaction.  A statement  *)
(* waits for a transaction that has written a row it is about to write.    *)
(***************************************************************************)
EXTENDS Naturals

CONSTANTS
    Protocols,
    Entries,        \* [port, protocol, name]: neighbours that can be heard
    Rows,           \* primary keys, numbered
    Collectors,     \* workers, threads of the command, synchronizations
    MaxRuns         \* bound: collections

Ports == {e.port : e \in Entries}
\* Nothing keeps two rows from being the same.
TopologyNeighbor == [port : Ports, protocol : Protocols, name : {e.name : e \in Entries}]
Assumptions == MaxRuns \in Nat /\ Rows \subseteq Nat /\ Entries \subseteq TopologyNeighbor

VARIABLES
    ports,      \* the device's interfaces
    rows,       \* committed TopologyNeighbor rows: the entry that each records
    old,        \* rows that were not seen within the days of the cleanup
    collector, runs,
    alone,      \* history: the collection that no other one overlaps, nor the loss of a port
    exact,      \* history: protocols last collected by one that was alone
    heard       \* history: and what they heard on known ports

vars == <<ports, rows, old, collector, runs, alone, exact, heard>>

(* report: what was heard; todo: what of it is to be upserted yet; entry:   *)
(* the one that was not found; seen: rows upserted; inserts, deletes: those *)
(* of a transaction; lost: the interface of one to insert is gone.          *)
Idle == [at |-> "idle", tx |-> FALSE, answered |-> {}, report |-> {}, todo |-> {},
         entry |-> {}, seen |-> {}, inserts |-> <<>>, deletes |-> {}, lost |-> FALSE,
         done |-> FALSE]

TypeOK ==
    /\ ports \subseteq Ports
    /\ DOMAIN rows \subseteq Rows /\ \A r \in DOMAIN rows : rows[r] \in TopologyNeighbor
    /\ \A r \in DOMAIN rows : rows[r].port \in ports
    /\ old \subseteq DOMAIN rows
    /\ \A c \in Collectors :
         /\ collector[c].at \in {"idle", "upsert", "insert", "commit"}
         /\ collector[c].answered \subseteq Protocols
         /\ collector[c].todo \subseteq collector[c].report
         /\ collector[c].tx \/ DOMAIN collector[c].inserts = {}
    /\ runs \in 0..MaxRuns /\ exact \subseteq Protocols /\ alone \subseteq Collectors

Init ==
    /\ ports = Ports /\ rows = <<>> /\ old = {}
    /\ collector = [c \in Collectors |-> Idle] /\ runs = 0
    /\ alone = {} /\ exact = {} /\ heard = {}

Put(f, k, v) == [x \in {k} \cup DOMAIN f |-> IF x = k THEN v ELSE f[x]]
Without(f, K) == [k \in DOMAIN f \ K |-> f[k]]
Over(new, f) == [x \in DOMAIN new \cup DOMAIN f |-> IF x \in DOMAIN new THEN new[x] ELSE f[x]]
Go(c, entry) == collector' = [collector EXCEPT ![c] = entry]
Same == UNCHANGED <<ports, rows, old, runs, alone, exact, heard>>

\* What a statement of c sees, and what it would have to wait for.
Visible(c) == Over(collector[c].inserts, Without(rows, collector[c].deletes))
Holds(c) == IF collector[c].tx THEN collector[c].seen \cup collector[c].deletes ELSE {}
Locked(c) == UNION {Holds(b) : b \in Collectors \ {c}}
\* The key of a new row.
Free == LET keys == Rows \ (DOMAIN rows \cup UNION {DOMAIN collector[c].inserts : c \in Collectors})
        IN {k \in keys : \A r \in keys : k <= r}
ToInsert(c) == {collector[c].inserts[r] : r \in DOMAIN collector[c].inserts}
                 \cup IF collector[c].at = "insert" THEN collector[c].entry ELSE {}
Of(protocols) == {e \in Entries : e.protocol \in protocols}

-----------------------------------------------------------------------------
\* A protocol without a valid answer is left alone.
Collect(c, tx) ==
    /\ collector[c].at = "idle"
    /\ runs < MaxRuns /\ runs' = runs + 1
    /\ \E answered \in SUBSET Protocols : \E report \in SUBSET Of(answered) :
         /\ Go(c, [Idle EXCEPT !.at = "upsert", !.tx = tx, !.answered = answered,
                               !.report = report, !.todo = report])
         /\ exact' = exact \ answered
    /\ alone' = IF \A b \in Collectors : collector[b].at = "idle" THEN {c} ELSE {}
    /\ UNCHANGED <<ports, rows, old, heard>>

\* By the task and the threads of the command; at the end of a synchronization.
CollectDirectly(c) == Collect(c, FALSE)
CollectInSync(c) == Collect(c, TRUE)

\* An exception ends the collection, and a synchronization goes on to commit.
Abort(c) == Go(c, IF collector[c].tx THEN [collector[c] EXCEPT !.at = "commit"] ELSE Idle)

\* Under any of the ways to write its name.
Known(e) == e.port \in ports
Matches(c, e) == {r \in DOMAIN Visible(c) : Visible(c)[r] = e}

\* An entry on a port that is not known is skipped.
Skip(c, e) ==
    /\ ~Known(e) /\ UNCHANGED old
    /\ Go(c, [collector[c] EXCEPT !.report = @ \ {e}, !.todo = @ \ {e}])
Misses(c, e) ==
    /\ Known(e) /\ Matches(c, e) = {} /\ UNCHANGED old
    /\ Go(c, [collector[c] EXCEPT !.at = "insert", !.entry = {e}, !.todo = @ \ {e}])
Updates(c, e, r) ==
    /\ Known(e) /\ Matches(c, e) = {r} /\ r \notin Locked(c)
    /\ old' = IF collector[c].tx THEN old ELSE old \ {r}
    /\ Go(c, [collector[c] EXCEPT !.seen = @ \cup {r}, !.todo = @ \ {e}])
\* MultipleObjectsReturned, which is only logged.
Ambiguous(c, e) ==
    /\ Known(e) /\ \E q, r \in Matches(c, e) : q # r
    /\ Abort(c) /\ UNCHANGED old
\* CDP before LLDP.
Upsert(c) ==
    /\ collector[c].at = "upsert"
    /\ \E e \in collector[c].todo : \/ Skip(c, e) \/ Misses(c, e) \/ Ambiguous(c, e)
                                    \/ \E r \in Matches(c, e) : Updates(c, e, r)
    /\ UNCHANGED <<ports, rows, runs, alone, exact, heard>>

\* In a transaction the lost interface is noticed when it commits.
Inserts(c, e, r) ==
    /\ rows' = IF collector[c].tx THEN rows ELSE Put(rows, r, e)
    /\ Go(c, [collector[c] EXCEPT !.at = "upsert", !.seen = @ \cup {r},
                !.inserts = IF collector[c].tx THEN Put(collector[c].inserts, r, e) ELSE @])
Insert(c) ==
    /\ collector[c].at = "insert"
    /\ IF collector[c].lost /\ ~collector[c].tx THEN Abort(c) /\ UNCHANGED rows
       ELSE \E e \in collector[c].entry : \E r \in Free : Inserts(c, e, r)
    /\ UNCHANGED <<ports, old, runs, alone, exact, heard>>

\* Regression: the protocols that did not answer are cleaned up as well.
StaleOfAll(c) == (DOMAIN Visible(c)) \ collector[c].seen
Stale(c) == {r \in DOMAIN Visible(c) : Visible(c)[r].protocol \in collector[c].answered}
              \ collector[c].seen

Finish(c) ==
    /\ exact' = exact \cup (IF c \in alone THEN collector[c].answered ELSE {})
    /\ heard' = IF c \in alone
                THEN {e \in heard : e.protocol \notin collector[c].answered}
                       \cup collector[c].report
                ELSE heard
    /\ UNCHANGED <<ports, runs, alone>>

DeleteStale(c) ==
    /\ collector[c].at = "upsert" /\ collector[c].todo = {}
    /\ Stale(c) \cap Locked(c) = {}
    /\ IF collector[c].tx
       THEN /\ Go(c, [collector[c] EXCEPT !.at = "commit", !.done = TRUE, !.deletes = Stale(c)])
            /\ Same
       ELSE /\ rows' = Without(rows, Stale(c)) /\ old' = old \ Stale(c)
            /\ Go(c, Idle) /\ Finish(c)

\* The synchronization commits, if no interface of its rows is gone.
Commit(c) ==
    /\ collector[c].at = "commit" /\ ~collector[c].lost
    /\ rows' = Visible(c)
    /\ old' = old \ (collector[c].deletes \cup collector[c].seen)
    /\ IF collector[c].done THEN Finish(c) ELSE UNCHANGED <<ports, runs, alone, exact, heard>>
    /\ Go(c, Idle)

\* The device hangs up, the process is killed, the synchronization rolls back:
\* always if the interface of a row that it has inserted is gone.
Fail(c) == collector[c].at # "idle" /\ Go(c, Idle) /\ Same

-----------------------------------------------------------------------------
(* Time, and what happens to the interfaces                                 *)

GetOld ==
    /\ old # DOMAIN rows /\ old' = DOMAIN rows
    /\ \A c \in Collectors : collector[c].at = "idle"   \* which take minutes, not days
    /\ UNCHANGED <<ports, rows, collector, runs, alone, exact, heard>>

Drop(R) == /\ R \cap UNION {Holds(c) : c \in Collectors} = {}
           /\ rows' = Without(rows, R) /\ old' = old \ R

\* cleanup_topology_neighbors: also of neighbours that a device still hears,
\* if it has not been collected for so long.
CleanupOld ==
    /\ old # {} /\ Drop(old)
    /\ exact' = exact \ {rows[r].protocol : r \in old}
    /\ UNCHANGED <<ports, collector, runs, alone, heard>>

\* A synchronization deletes a port that is gone, and the neighbours go too.
DeletePort(p) ==
    /\ p \in ports /\ ports' = ports \ {p}
    /\ Drop({r \in DOMAIN rows : rows[r].port = p})
    /\ heard' = {e \in heard : e.port # p} /\ alone' = {}
    /\ collector' = [c \in Collectors |->
                       IF \E e \in ToInsert(c) : e.port = p
                       THEN [collector[c] EXCEPT !.lost = TRUE] ELSE collector[c]]
    /\ UNCHANGED <<runs, exact>>

AddPort(p) ==
    /\ p \notin ports /\ ports' = ports \cup {p}
    /\ UNCHANGED <<rows, old, collector, runs, alone, exact, heard>>

Next ==
    \/ \E c \in Collectors :
         \/ CollectDirectly(c) \/ CollectInSync(c) \/ Upsert(c) \/ Insert(c)
         \/ DeleteStale(c) \/ Commit(c) \/ Fail(c)
    \/ GetOld \/ CleanupOld
    \/ \E p \in Ports : DeletePort(p) \/ AddPort(p)

Spec == Init /\ [][Next]_vars

-----------------------------------------------------------------------------
(* A collection that no other one overlapped leaves, for each protocol that *)
(* answered, one row for each neighbour heard on a known port and no other  *)
(* row, whatever duplicates overlapping collections have left before; and   *)
(* collections in which the protocol does not answer leave them so.         *)
NeighboursFollow ==
    \A p \in exact :
      LET R == {r \in DOMAIN rows : rows[r].protocol = p} IN
      /\ {rows[r] : r \in R} = {e \in heard : e.protocol = p}
      /\ \A q, r \in R : rows[q] = rows[r] => q = r

=============================================================================
