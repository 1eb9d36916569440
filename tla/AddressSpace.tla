---------------------------- MODULE AddressSpace ----------------------------
(***************************************************************************)
(* Prefixes and IP addresses.  The pages validate a form against the rows  *)
(* they query, and save it by a later statement; the API validates only    *)
(* that an address lies in its prefix and is new to the VRF.  The database *)
(* knows one row per network, site and VRF, and one per address and prefix.*)
(*                                                                         *)
(* A network is a block <<first, size>> of addresses.  A prefix without a  *)
(* VRF belongs to the VRF None, which all sites share.                     *)
(***************************************************************************)
EXTENDS Naturals

CONSTANTS
    Nets,           \* networks; any two of them nest or are disjoint
    Places,         \* sites with one of their VRFs, or with None
    Interfaces,     \* interfaces, as the site of each
    PrefixIds, AddressIds,
    None,
    Procs,          \* requests
    MaxForms        \* bound: requests

Members(net) == net[1] .. net[1] + net[2] - 1
Inside(a, b) == Members(a) \subseteq Members(b)

Assumptions ==
    /\ \A a, b \in Nets : Inside(a, b) \/ Inside(b, a) \/ Members(a) \cap Members(b) = {}
    /\ MaxForms \in Nat

VARIABLES
    prefixes,       \* committed Prefix rows
    addresses,      \* committed IPAddress rows
    proc,           \* the validated row that each request is about to save
    forms,
    saw,            \* history: for each address, those that its check saw and
                    \* that have not been saved since
    moved           \* history: a prefix went to another place, or came back
                    \* while a form named it

vars == <<prefixes, addresses, proc, forms, saw, moved>>

Prefixes == [net : Nets, place : Places, parent : PrefixIds \cup {None}]
Addresses == [at : UNION {Members(n) : n \in Nets}, prefix : PrefixIds,
              on : DOMAIN Interfaces \cup {None}, primary : BOOLEAN, retired : BOOLEAN]
Idle == [table |-> "none"]
Put(rows, i, row) == [j \in {i} \cup DOMAIN rows |-> IF j = i THEN row ELSE rows[j]]

TypeOK ==
    /\ DOMAIN prefixes \subseteq PrefixIds /\ DOMAIN addresses \subseteq AddressIds
    /\ \A i \in DOMAIN prefixes : prefixes[i] \in Prefixes
    /\ \A i \in DOMAIN prefixes : prefixes[i].parent \in DOMAIN prefixes \cup {None}    \* SET_NULL
    /\ \A i \in DOMAIN addresses : /\ addresses[i] \in Addresses
                                   /\ addresses[i].prefix \in DOMAIN prefixes           \* PROTECT
    /\ \A p \in Procs : proc[p].table \in {"none", "prefix", "address"}
    /\ forms \in 0..MaxForms /\ DOMAIN saw = DOMAIN addresses

Init == /\ prefixes = <<>> /\ addresses = <<>> /\ saw = <<>>
        /\ proc = [p \in Procs |-> Idle] /\ forms = 0 /\ moved = FALSE

-----------------------------------------------------------------------------
(* Prefixes                                                                 *)

ParentFits(row) ==
    row.parent # None =>
      LET parent == prefixes[row.parent]
      IN /\ parent.place = row.place
         /\ Inside(row.net, parent.net) /\ row.net # parent.net

\* Those of the place, other than the one validated, that contain its network.
Containing(i, row) == {j \in (DOMAIN prefixes) \ {i} : /\ prefixes[j].place = row.place
                                                      /\ Inside(row.net, prefixes[j].net)}

\* The prefix, its parent, the parent of this one, and so on.
Ancestors(j) ==
    {a \in DOMAIN prefixes :
       \A S \in SUBSET DOMAIN prefixes :
         /\ j \in S
         /\ \A k \in S : prefixes[k].parent \in S \cup {None}
         => a \in S}
\* The loop goes round for ever if the parents run in a circle that does not
\* meet a candidate.
HasAncestor(row, candidates) ==
    row.parent # None /\ Ancestors(row.parent) \cap candidates # {}
\* regression: the walk begins at the parent's parent
HasGrandparent(row, candidates) ==
    /\ row.parent # None /\ prefixes[row.parent].parent # None
    /\ Ancestors(prefixes[row.parent].parent) \cap candidates # {}
Walks(row, candidates) == HasAncestor(row, candidates)

\* Networks that overlap nest, so no other overlap is left to be refused.
Overlaps(i, row) ==
    LET containing == Containing(i, row)
    IN \/ \E j \in containing : prefixes[j].net = row.net
       \/ containing # {} /\ ~Walks(row, containing)

ValidPrefix(i, row) == ParentFits(row) /\ ~Overlaps(i, row)
UniqueNet(i, row) == \A j \in (DOMAIN prefixes) \ {i} :
                        <<prefixes[j].net, prefixes[j].place>> # <<row.net, row.place>>

Request == forms < MaxForms /\ forms' = forms + 1

\* p is about to save an address in the prefix.
NamesPrefix(p, i) == proc[p].table = "address" /\ proc[p].row.prefix = i
PutPrefix(i, row) ==
    /\ prefixes' = Put(prefixes, i, row)
    /\ moved' = (moved \/ IF i \in DOMAIN prefixes THEN prefixes[i].place # row.place
                          ELSE \E p \in Procs : NamesPrefix(p, i))
    /\ UNCHANGED <<addresses, saw>>

\* regression: the parent is a number, not a foreign key
SaveOrphan(i, row) == IF UniqueNet(i, row) THEN PutPrefix(i, row)
                      ELSE UNCHANGED <<prefixes, addresses, saw, moved>>
\* Fails if the network is taken or the parent has been deleted meanwhile.
SavePrefix(i, row) ==
    IF UniqueNet(i, row) /\ row.parent \in DOMAIN prefixes \cup {i, None}
    THEN PutPrefix(i, row)
    ELSE UNCHANGED <<prefixes, addresses, saw, moved>>

\* The forms for a new prefix and for one that exists.
PrefixForm(p) ==
    /\ proc[p] = Idle /\ Request
    /\ \E i \in PrefixIds, row \in Prefixes :
         /\ row.parent \in DOMAIN prefixes \cup {None}
         /\ ValidPrefix(i, row)
         /\ proc' = [proc EXCEPT ![p] = [table |-> "prefix", id |-> i, row |-> row]]
    /\ UNCHANGED <<prefixes, addresses, saw, moved>>

\* The API's serializer only rewrites the network in its canonical form.
PrefixApi ==
    /\ Request
    /\ \E i \in PrefixIds, row \in Prefixes :
         /\ row.parent \in DOMAIN prefixes \cup {None}
         /\ SavePrefix(i, row)
    /\ UNCHANGED proc

DeletePrefix(i) ==
    /\ Request /\ i \in DOMAIN prefixes
    /\ \A j \in DOMAIN addresses : addresses[j].prefix # i
    /\ prefixes' = [j \in (DOMAIN prefixes) \ {i} |->
                      IF prefixes[j].parent = i THEN [prefixes[j] EXCEPT !.parent = None]
                      ELSE prefixes[j]]
    /\ UNCHANGED <<addresses, proc, saw, moved>>

-----------------------------------------------------------------------------
(* Addresses                                                                *)

Vrf(i) == prefixes[i].place.vrf
\* All but the first and the last address of a network that has more than two.
Hosts(net) == IF net[2] > 2 THEN Members(net) \ {net[1], net[1] + net[2] - 1} ELSE Members(net)
\* Deprecated addresses of the prefix, and those of others, do not count as used.
Used(i) == {addresses[j].at : j \in {k \in DOMAIN addresses :
                                       addresses[k].prefix = i /\ ~addresses[k].retired}}
Free(i) == Hosts(prefixes[i].net) \ Used(i)

\* regression: duplicates are looked for in the prefix
InPrefix(j, row) == addresses[j].prefix = row.prefix
InVrf(j, row) == Vrf(addresses[j].prefix) = Vrf(row.prefix)
Duplicate(i, row) == \E j \in (DOMAIN addresses) \ {i} :
                        addresses[j].at = row.at /\ InVrf(j, row)

PrimaryTaken(i, row) ==
    /\ row.primary
    /\ \E j \in (DOMAIN addresses) \ {i} :
         addresses[j].on = row.on /\ addresses[j].primary /\ ~addresses[j].retired

ValidForApi(i, row) ==
    /\ row.at \in Members(prefixes[row.prefix].net)
    /\ ~Duplicate(i, row)
ValidAddress(i, row) ==
    /\ ValidForApi(i, row)
    /\ row.on # None => /\ Interfaces[row.on] = prefixes[row.prefix].place.site
                        /\ ~PrimaryTaken(i, row)

\* A form without an address takes the first that is free, and is refused if
\* there is none.  Who is primary only matters on an interface.
Offered(row) == row.at \in Free(row.prefix) /\ \A a \in Free(row.prefix) : row.at <= a
AddressForm(p) ==
    /\ proc[p] = Idle /\ Request
    /\ \E i \in AddressIds, row \in Addresses, empty, api \in BOOLEAN :
         /\ row.prefix \in DOMAIN prefixes
         /\ row.primary => row.on # None
         /\ empty => ~api /\ Offered(row)
         /\ IF api THEN ValidForApi(i, row) ELSE ValidAddress(i, row)
         /\ proc' = [proc EXCEPT ![p] = [table |-> "address", id |-> i, row |-> row,
                                         saw |-> (DOMAIN addresses) \ {i}]]
    /\ UNCHANGED <<prefixes, addresses, saw, moved>>

\* Fails if the prefix is gone or has another row of the address.
SaveAddress(i, row, seen) ==
    IF /\ row.prefix \in DOMAIN prefixes
       /\ \A j \in (DOMAIN addresses) \ {i} :
            <<addresses[j].at, addresses[j].prefix>> # <<row.at, row.prefix>>
    THEN /\ addresses' = Put(addresses, i, row)
         /\ saw' = Put([j \in DOMAIN saw |-> saw[j] \ {i}], i, seen)
         /\ UNCHANGED <<prefixes, moved>>
    ELSE UNCHANGED <<prefixes, addresses, saw, moved>>

\* What forms that were checked before saw is not this row any more.
Forget(i) == [p \in Procs |-> IF proc[p].table = "address"
                              THEN [proc[p] EXCEPT !.saw = @ \ {i}] ELSE proc[p]]

SaveForm(p) ==
    /\ proc[p].table = "prefix"
    /\ SavePrefix(proc[p].id, proc[p].row)
    /\ proc' = [proc EXCEPT ![p] = Idle]
    /\ UNCHANGED forms

Save(p) ==
    /\ proc[p].table = "address"
    /\ SaveAddress(proc[p].id, proc[p].row, proc[p].saw)
    /\ proc' = [Forget(proc[p].id) EXCEPT ![p] = Idle]
    /\ UNCHANGED forms

DeleteAddress(i) ==
    /\ Request /\ i \in DOMAIN addresses
    /\ addresses' = [j \in (DOMAIN addresses) \ {i} |-> addresses[j]]
    /\ saw' = [j \in (DOMAIN saw) \ {i} |-> saw[j] \ {i}]
    /\ proc' = Forget(i)
    /\ UNCHANGED <<prefixes, moved>>

DeleteInterface(n) ==       \* SET_NULL
    /\ \E i \in DOMAIN addresses : addresses[i].on = n
    /\ Request
    /\ addresses' = [i \in DOMAIN addresses |->
                       IF addresses[i].on = n THEN [addresses[i] EXCEPT !.on = None]
                       ELSE addresses[i]]
    /\ UNCHANGED <<prefixes, proc, saw, moved>>

Next ==
    \/ \E p \in Procs : PrefixForm(p) \/ SaveForm(p) \/ AddressForm(p) \/ Save(p)
    \/ PrefixApi
    \/ \E i \in PrefixIds : DeletePrefix(i)
    \/ \E i \in AddressIds : DeleteAddress(i)
    \/ \E n \in DOMAIN Interfaces : DeleteInterface(n)

Spec == Init /\ [][Next]_vars

-----------------------------------------------------------------------------
(* Two rows of one address in a VRF: neither was there when the other was    *)
(* checked, or a prefix has gone to another VRF, or came back under a form   *)
(* that named it.  So the address that the allocation offers, which regards  *)
(* one prefix and skips the deprecated rows, never repeats an address that   *)
(* the check could see.                                                      *)
AddressesApart ==
    \A i, j \in DOMAIN addresses :
      i # j /\ addresses[i].at = addresses[j].at
            /\ Vrf(addresses[i].prefix) = Vrf(addresses[j].prefix) /\ ~moved
      => i \notin saw[j] /\ j \notin saw[i]

(* Unless a prefix is submitted as its own parent, no walk along the parents *)
(* decides, however the API has linked them, in circles even: the form is    *)
(* accepted if its network is new and its parent contains it, or if nothing  *)
(* contains it and it has no parent.                                         *)
ParentDecides ==
    \A i \in PrefixIds, row \in Prefixes :
      row.parent \in (DOMAIN prefixes \cup {None}) \ {i} =>
        (ValidPrefix(i, row) <=>
           /\ UniqueNet(i, row) /\ ParentFits(row)
           /\ row.parent = None => Containing(i, row) = {})

=============================================================================
