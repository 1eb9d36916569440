------------------------ MODULE AddressSpaceProofs ------------------------
(***************************************************************************)
(* Proofs about AddressSpace, for any networks, sites, VRFs, numbers of    *)
(* rows and of requests.                                                   *)
(*                                                                         *)
(* That two rows of one address did not see each other is not inductive:   *)
(* an address may wait in a form while rows and prefixes change.  IInv     *)
(* adds what a form that waits still knows: unless a prefix has moved, its *)
(* address is not that of a row it saw, as long as its prefix exists.      *)
(***************************************************************************)
EXTENDS AddressSpace, TLAPS

Forms == [table : {"none"}]
         \cup [table : {"prefix"}, id : PrefixIds, row : Prefixes]
         \cup [table : {"address"}, id : AddressIds, row : Addresses, saw : SUBSET AddressIds]

\* Rows of one address in one VRF.
Same(a, b) == a.at = b.at /\ Vrf(a.prefix) = Vrf(b.prefix)

RowsTyped == /\ \A i \in DOMAIN prefixes : prefixes[i] \in Prefixes
             /\ \A i \in DOMAIN addresses : addresses[i] \in Addresses
             /\ DOMAIN addresses \subseteq AddressIds
             /\ proc \in [Procs -> Forms]
Protected == \A j \in DOMAIN addresses : addresses[j].prefix \in DOMAIN prefixes
SawOthers == /\ DOMAIN saw = DOMAIN addresses
             /\ \A j \in DOMAIN addresses : saw[j] \subseteq (DOMAIN addresses) \ {j}
RowsSawNone == moved \/ \A j \in DOMAIN addresses : \A k \in saw[j] :
                           ~Same(addresses[j], addresses[k])
FormSawOthers == \A p \in Procs : proc[p].table = "address" =>
                    proc[p].saw \subseteq (DOMAIN addresses) \ {proc[p].id}
FormsSawNone == moved \/ \A p \in Procs :
                   proc[p].table = "address" /\ proc[p].row.prefix \in DOMAIN prefixes =>
                     \A k \in proc[p].saw : ~Same(proc[p].row, addresses[k])

IInv == /\ RowsTyped /\ Protected /\ SawOthers /\ RowsSawNone
        /\ FormSawOthers /\ FormsSawNone

(***************************************************************************)
(* Prefixes                                                                *)
(***************************************************************************)

\* Saving a prefix preserves the inductive invariant, whatever form ends with
\* it: a prefix that moves, or that a form still names, sets moved.
LEMMA SavePrefixInv ==
  ASSUME IInv, NEW i \in PrefixIds, NEW row \in Prefixes, SavePrefix(i, row),
         proc' \in [Procs -> Forms],
         \A p \in Procs : proc'[p] = proc[p] \/ proc'[p].table = "none"
  PROVE  IInv'
<1> USE DEF IInv
<1>1. CASE UNCHANGED <<prefixes, addresses, saw, moved>>
  BY <1>1 DEF RowsTyped, Protected, SawOthers, RowsSawNone, FormSawOthers, FormsSawNone, Same, Vrf
<1>2. CASE PutPrefix(i, row)
  <2>1. /\ prefixes' = Put(prefixes, i, row) /\ UNCHANGED <<addresses, saw>>
        /\ DOMAIN prefixes' = {i} \cup DOMAIN prefixes
        /\ \A j \in DOMAIN prefixes' : prefixes'[j] = IF j = i THEN row ELSE prefixes[j]
    BY <1>2 DEF PutPrefix, Put
  <2>2. ~moved' => /\ ~moved
                   /\ \A j \in DOMAIN prefixes : Vrf(j)' = Vrf(j)
                   /\ i \notin DOMAIN prefixes => \A p \in Procs : ~NamesPrefix(p, i)
    BY <1>2, <2>1 DEF PutPrefix, Vrf
  <2>3. RowsTyped'  BY <2>1 DEF RowsTyped
  <2>4. Protected'  BY <2>1 DEF Protected
  <2>5. SawOthers'  BY <2>1 DEF SawOthers
  <2>6. RowsSawNone'
    <3> SUFFICES ASSUME ~moved', NEW j \in DOMAIN addresses, NEW k \in saw[j]
                 PROVE  ~Same(addresses[j], addresses[k])'
      BY <2>1 DEF RowsSawNone
    <3>1. k \in DOMAIN addresses /\ ~Same(addresses[j], addresses[k])
      BY <2>2 DEF SawOthers, RowsSawNone
    <3> QED BY <2>1, <2>2, <3>1 DEF Same, Protected
  <2>7. FormSawOthers'  BY <2>1 DEF FormSawOthers
  <2>8. FormsSawNone'
    <3> SUFFICES ASSUME ~moved', NEW p \in Procs, proc'[p].table = "address",
                        proc'[p].row.prefix \in DOMAIN prefixes', NEW k \in proc'[p].saw
                 PROVE  ~Same(proc[p].row, addresses[k])'
      BY DEF FormsSawNone
    <3>1. proc'[p] = proc[p]  OBVIOUS
    <3>2. proc[p].row.prefix \in DOMAIN prefixes  BY <2>1, <2>2, <3>1 DEF NamesPrefix
    <3>3. k \in DOMAIN addresses /\ ~Same(proc[p].row, addresses[k])
      BY <2>2, <3>1, <3>2 DEF FormSawOthers, FormsSawNone
    <3> QED BY <2>1, <2>2, <3>1, <3>2, <3>3 DEF Same, Protected
  <2> QED BY <2>3, <2>4, <2>5, <2>6, <2>7, <2>8
<1> QED BY <1>1, <1>2 DEF SavePrefix

\* PrefixForm preserves the inductive invariant: a form that waits with a
\* prefix knows nothing of addresses.
LEMMA PrefixFormInv ==
  ASSUME IInv, NEW p \in Procs, PrefixForm(p)
  PROVE  IInv'
<1> USE DEF IInv
<1>1. PICK i \in PrefixIds, row \in Prefixes :
        proc' = [proc EXCEPT ![p] = [table |-> "prefix", id |-> i, row |-> row]]
  BY DEF PrefixForm
<1>2. UNCHANGED <<prefixes, addresses, saw, moved>>  BY DEF PrefixForm
<1>3. /\ proc' \in [Procs -> Forms] /\ proc'[p].table = "prefix"
      /\ \A q \in Procs \ {p} : proc'[q] = proc[q]
  BY <1>1 DEF RowsTyped, Forms
<1>4. RowsTyped' /\ Protected' /\ SawOthers'
  BY <1>2, <1>3 DEF RowsTyped, Protected, SawOthers
<1>5. RowsSawNone'  BY <1>2 DEF RowsSawNone, Same, Vrf
<1>6. FormSawOthers'  BY <1>2, <1>3 DEF FormSawOthers
<1>7. FormsSawNone'  BY <1>2, <1>3 DEF FormsSawNone, Same, Vrf
<1> QED BY <1>4, <1>5, <1>6, <1>7

\* SaveForm preserves it: the form that waited is saved or fails.
LEMMA SaveFormInv ==
  ASSUME IInv, NEW p \in Procs, SaveForm(p)
  PROVE  IInv'
<1>1. proc[p].id \in PrefixIds /\ proc[p].row \in Prefixes
  BY DEF SaveForm, IInv, RowsTyped, Forms
<1>2. /\ proc' \in [Procs -> Forms]
      /\ \A q \in Procs : proc'[q] = proc[q] \/ proc'[q].table = "none"
  BY DEF SaveForm, IInv, RowsTyped, Forms, Idle
<1> QED BY <1>1, <1>2, SavePrefixInv DEF SaveForm

\* PrefixApi preserves it: saved without a form, a prefix is saved all the same.
LEMMA PrefixApiInv ==
  ASSUME IInv, PrefixApi
  PROVE  IInv'
<1>1. PICK i \in PrefixIds, row \in Prefixes : SavePrefix(i, row)  BY DEF PrefixApi
<1>2. /\ proc' \in [Procs -> Forms]
      /\ \A q \in Procs : proc'[q] = proc[q]
  BY DEF PrefixApi, IInv, RowsTyped
<1> QED BY <1>1, <1>2, SavePrefixInv

\* DeletePrefix preserves it: no address is in the prefix, and a form that
\* names it will fail.
LEMMA DeletePrefixInv ==
  ASSUME IInv, NEW i \in PrefixIds, DeletePrefix(i)
  PROVE  IInv'
<1> USE DEF IInv
<1>1. /\ UNCHANGED <<addresses, proc, saw, moved>>
      /\ DOMAIN prefixes' = (DOMAIN prefixes) \ {i}
      /\ \A j \in DOMAIN addresses : addresses[j].prefix # i
  BY DEF DeletePrefix
<1>2. \A j \in DOMAIN prefixes' : /\ prefixes'[j] \in Prefixes
                                  /\ prefixes'[j].place = prefixes[j].place
  BY DEF DeletePrefix, RowsTyped, Prefixes
<1>3. \A j \in DOMAIN prefixes' : Vrf(j)' = Vrf(j)  BY <1>2 DEF Vrf
<1>4. RowsTyped' /\ Protected' /\ SawOthers'
  BY <1>1, <1>2 DEF RowsTyped, Protected, SawOthers
<1>5. RowsSawNone'
  BY <1>1, <1>3 DEF RowsSawNone, Same, SawOthers, Protected
<1>6. FormSawOthers'  BY <1>1 DEF FormSawOthers
<1>7. FormsSawNone'
  BY <1>1, <1>3 DEF FormsSawNone, FormSawOthers, Same, Protected
<1> QED BY <1>4, <1>5, <1>6, <1>7

(***************************************************************************)
(* Addresses                                                               *)
(***************************************************************************)

\* AddressForm preserves it: the check for a duplicate has looked at every
\* row that the form remembers.
LEMMA AddressFormInv ==
  ASSUME IInv, NEW p \in Procs, AddressForm(p)
  PROVE  IInv'
<1> USE DEF IInv
<1>1. PICK i \in AddressIds, row \in Addresses :
        /\ ValidForApi(i, row)
        /\ proc' = [proc EXCEPT ![p] = [table |-> "address", id |-> i, row |-> row,
                                        saw |-> (DOMAIN addresses) \ {i}]]
  BY DEF AddressForm, ValidAddress
<1>2. UNCHANGED <<prefixes, addresses, saw, moved>>  BY DEF AddressForm
<1>3. /\ proc' \in [Procs -> Forms]
      /\ \A q \in Procs \ {p} : proc'[q] = proc[q]
      /\ proc'[p] = [table |-> "address", id |-> i, row |-> row,
                     saw |-> (DOMAIN addresses) \ {i}]
  <2>1. DOMAIN addresses \subseteq AddressIds  BY DEF RowsTyped
  <2> QED BY <1>1, <2>1 DEF RowsTyped, Forms
<1>4. RowsTyped' /\ Protected' /\ SawOthers'
  BY <1>2, <1>3 DEF RowsTyped, Protected, SawOthers
<1>5. RowsSawNone'  BY <1>2 DEF RowsSawNone, Same, Vrf
<1>6. FormSawOthers'  BY <1>2, <1>3 DEF FormSawOthers
<1>7. \A k \in (DOMAIN addresses) \ {i} : ~Same(row, addresses[k])
  BY <1>1 DEF ValidForApi, Duplicate, InVrf, Same
<1>8. FormsSawNone'
  <2> SUFFICES ASSUME ~moved, NEW q \in Procs, proc'[q].table = "address",
                      proc'[q].row.prefix \in DOMAIN prefixes, NEW k \in proc'[q].saw
               PROVE  ~Same(proc'[q].row, addresses[k])
    BY <1>2 DEF FormsSawNone, Same, Vrf
  <2>1. CASE q = p  BY <2>1, <1>3, <1>7
  <2>2. CASE q # p  BY <2>2, <1>3 DEF FormsSawNone
  <2> QED BY <2>1, <2>2
<1> QED BY <1>4, <1>5, <1>6, <1>8

\* When row i is saved or deleted the forms that wait forget it.
LEMMA Forgotten ==
  ASSUME RowsTyped, NEW i \in AddressIds, NEW q \in Procs
  PROVE  /\ Forget(i) \in [Procs -> Forms]
         /\ Forget(i)[q].table = proc[q].table
         /\ proc[q].table = "address" => /\ Forget(i)[q].id = proc[q].id
                                         /\ Forget(i)[q].row = proc[q].row
                                         /\ Forget(i)[q].saw = proc[q].saw \ {i}
<1>1. ASSUME NEW p \in Procs, proc[p].table = "address"
      PROVE  LET forgets == [proc[p] EXCEPT !.saw = @ \ {i}]
             IN /\ forgets \in Forms /\ forgets.table = "address"
                /\ forgets.id = proc[p].id /\ forgets.row = proc[p].row
                /\ forgets.saw = proc[p].saw \ {i}
  <2> DEFINE Waiting == [table : {"address"}, id : AddressIds, row : Addresses,
                         saw : SUBSET AddressIds]
  <2>1. proc[p] \in Waiting  BY <1>1 DEF RowsTyped, Forms
  <2>2. \A form \in Waiting :
          LET forgets == [form EXCEPT !.saw = @ \ {i}]
          IN /\ forgets \in Waiting /\ forgets.table = "address"
             /\ forgets.id = form.id /\ forgets.row = form.row
             /\ forgets.saw = form.saw \ {i}
    OBVIOUS
  <2>3. Waiting \subseteq Forms  BY DEF Forms
  <2> QED BY <2>1, <2>2, <2>3
<1>2. \A p \in Procs : proc[p] \in Forms  BY DEF RowsTyped
<1> QED BY <1>1, <1>2 DEF Forget

\* Save preserves it: what the form saw is what the saved row saw, and every
\* other row forgets the one that was replaced.
LEMMA SaveInv ==
  ASSUME IInv, NEW p \in Procs, Save(p)
  PROVE  IInv'
<1> USE DEF IInv
<1> DEFINE i == proc[p].id
           row == proc[p].row
           seen == proc[p].saw
<1>1. /\ proc[p].table = "address" /\ i \in AddressIds /\ row \in Addresses
      /\ seen \subseteq (DOMAIN addresses) \ {i}
  BY DEF Save, RowsTyped, Forms, FormSawOthers
<1>2. /\ proc' \in [Procs -> Forms]
      /\ \A q \in Procs : proc'[q].table = "address" =>
           /\ q # p /\ proc[q].table = "address"
           /\ proc'[q].id = proc[q].id /\ proc'[q].row = proc[q].row
           /\ proc'[q].saw = proc[q].saw \ {i}
  <2>1. proc' = [Forget(i) EXCEPT ![p] = Idle]  BY DEF Save
  <2>2. Idle \in Forms /\ Idle.table # "address"  BY DEF Idle, Forms
  <2>3. Forget(i) \in [Procs -> Forms]  BY <1>1, Forgotten
  <2>4. proc' \in [Procs -> Forms]  BY <2>1, <2>2, <2>3
  <2>5. \A q \in Procs \ {p} : proc'[q] = Forget(i)[q]  BY <2>1, <2>3
  <2>6. proc'[p] = Idle  BY <2>1, <2>3
  <2> QED BY <1>1, <2>2, <2>4, <2>5, <2>6, Forgotten
<1>3. CASE UNCHANGED <<prefixes, addresses, saw, moved>>
  <2>1. RowsTyped' /\ Protected' /\ SawOthers'
    BY <1>2, <1>3 DEF RowsTyped, Protected, SawOthers
  <2>2. RowsSawNone'  BY <1>3 DEF RowsSawNone, Same, Vrf
  <2>3. FormSawOthers'  BY <1>2, <1>3 DEF FormSawOthers
  <2>4. FormsSawNone'  BY <1>2, <1>3 DEF FormsSawNone, Same, Vrf
  <2> QED BY <2>1, <2>2, <2>3, <2>4
<1>4. CASE /\ row.prefix \in DOMAIN prefixes /\ UNCHANGED <<prefixes, moved>>
           /\ addresses' = Put(addresses, i, row)
           /\ saw' = Put([j \in DOMAIN saw |-> saw[j] \ {i}], i, seen)
  <2>1. /\ DOMAIN addresses' = {i} \cup DOMAIN addresses
        /\ \A j \in DOMAIN addresses' : addresses'[j] = IF j = i THEN row ELSE addresses[j]
    BY <1>4 DEF Put
  <2>2. /\ DOMAIN saw' = {i} \cup DOMAIN addresses
        /\ \A j \in DOMAIN saw' : saw'[j] = IF j = i THEN seen ELSE saw[j] \ {i}
    BY <1>4 DEF Put, SawOthers
  <2>3. RowsTyped'  BY <1>1, <1>2, <1>4, <2>1 DEF RowsTyped
  <2>4. Protected'  BY <1>4, <2>1 DEF Protected
  <2>5. SawOthers'
    <3>1. DOMAIN saw' = DOMAIN addresses'  BY <2>1, <2>2
    <3>2. ASSUME NEW j \in DOMAIN addresses' PROVE saw'[j] \subseteq (DOMAIN addresses') \ {j}
      <4>1. CASE j = i  BY <1>1, <2>1, <2>2, <4>1
      <4>2. CASE j # i
        <5>1. saw[j] \subseteq (DOMAIN addresses) \ {j}  BY <2>1, <4>2 DEF SawOthers
        <5> QED BY <2>1, <2>2, <4>2, <5>1
      <4> QED BY <4>1, <4>2
    <3> QED BY <3>1, <3>2 DEF SawOthers
  <2>6. RowsSawNone'
    <3> SUFFICES ASSUME ~moved, NEW j \in DOMAIN addresses', NEW k \in saw'[j]
                 PROVE  ~Same(addresses'[j], addresses'[k])
      BY <1>4 DEF RowsSawNone, Same, Vrf
    <3>1. k # i /\ k \in DOMAIN addresses
      <4>1. CASE j = i  BY <1>1, <2>1, <2>2, <4>1
      <4>2. CASE j # i
        <5>1. j \in DOMAIN addresses /\ j \in DOMAIN saw'  BY <2>1, <2>2, <4>2
        <5>2. saw'[j] = saw[j] \ {i}  BY <2>2, <4>2, <5>1
        <5>3. saw[j] \subseteq (DOMAIN addresses) \ {j}  BY <5>1 DEF SawOthers
        <5> QED BY <5>2, <5>3
      <4> QED BY <4>1, <4>2
    <3>2. CASE j = i
      <4>1. ~Same(row, addresses[k])  BY <1>1, <1>4, <2>1, <2>2, <3>2 DEF FormsSawNone
      <4> QED BY <2>1, <3>1, <3>2, <4>1
    <3>3. CASE j # i
      <4>1. ~Same(addresses[j], addresses[k])  BY <2>1, <2>2, <3>3 DEF RowsSawNone, SawOthers
      <4> QED BY <2>1, <3>1, <3>3, <4>1
    <3> QED BY <3>2, <3>3
  <2>7. FormSawOthers'  BY <1>2, <2>1 DEF FormSawOthers
  <2>8. FormsSawNone'
    <3> SUFFICES ASSUME ~moved, NEW q \in Procs, proc'[q].table = "address",
                        proc'[q].row.prefix \in DOMAIN prefixes, NEW k \in proc'[q].saw
                 PROVE  ~Same(proc'[q].row, addresses'[k])
      BY <1>4 DEF FormsSawNone, Same, Vrf
    <3>1. k # i /\ k \in proc[q].saw /\ k \in DOMAIN addresses  BY <1>2 DEF FormSawOthers
    <3>2. ~Same(proc[q].row, addresses[k])  BY <1>2, <3>1 DEF FormsSawNone
    <3> QED BY <1>2, <2>1, <3>1, <3>2
  <2> QED BY <2>3, <2>4, <2>5, <2>6, <2>7, <2>8
<1> QED BY <1>3, <1>4 DEF Save, SaveAddress

\* DeleteAddress preserves it: every row and every form forgets the address.
LEMMA DeleteAddressInv ==
  ASSUME IInv, NEW i \in AddressIds, DeleteAddress(i)
  PROVE  IInv'
<1> USE DEF IInv
<1>1. UNCHANGED <<prefixes, moved>> /\ proc' = Forget(i)  BY DEF DeleteAddress
<1>2. /\ proc' \in [Procs -> Forms]
      /\ \A q \in Procs : proc'[q].table = "address" =>
           /\ proc[q].table = "address"
           /\ proc'[q].id = proc[q].id /\ proc'[q].row = proc[q].row
           /\ proc'[q].saw = proc[q].saw \ {i}
  <2>1. proc' \in [Procs -> Forms]
    <3>1. CASE Procs = {}  BY <1>1, <3>1 DEF Forget
    <3>2. CASE Procs # {}  BY <1>1, <3>2, Forgotten
    <3> QED BY <3>1, <3>2
  <2> QED BY <1>1, <2>1, Forgotten
<1>3. /\ DOMAIN addresses' = (DOMAIN addresses) \ {i}
      /\ \A j \in DOMAIN addresses' : addresses'[j] = addresses[j]
  BY DEF DeleteAddress
<1>4. /\ DOMAIN saw' = (DOMAIN addresses) \ {i}
      /\ \A j \in DOMAIN saw' : saw'[j] = saw[j] \ {i}
  BY DEF DeleteAddress, SawOthers
<1>5. RowsTyped' /\ Protected' /\ SawOthers'
  BY <1>1, <1>2, <1>3, <1>4 DEF RowsTyped, Protected, SawOthers
<1>6. RowsSawNone'
  BY <1>1, <1>3, <1>4 DEF RowsSawNone, SawOthers, Same, Vrf
<1>7. FormSawOthers'  BY <1>2, <1>3 DEF FormSawOthers
<1>8. FormsSawNone'
  BY <1>1, <1>2, <1>3 DEF FormsSawNone, FormSawOthers, Same, Vrf
<1> QED BY <1>5, <1>6, <1>7, <1>8

\* DeleteInterface preserves it: it changes neither an address nor its prefix.
LEMMA DeleteInterfaceInv ==
  ASSUME IInv, NEW n \in DOMAIN Interfaces, DeleteInterface(n)
  PROVE  IInv'
<1> USE DEF IInv
<1>1. UNCHANGED <<prefixes, proc, saw, moved>> /\ DOMAIN addresses' = DOMAIN addresses
  BY DEF DeleteInterface
<1>2. \A j \in DOMAIN addresses : /\ addresses'[j] \in Addresses
                                  /\ addresses'[j].at = addresses[j].at
                                  /\ addresses'[j].prefix = addresses[j].prefix
  BY DEF DeleteInterface, RowsTyped, Addresses
<1>3. RowsTyped' /\ Protected' /\ SawOthers'
  BY <1>1, <1>2 DEF RowsTyped, Protected, SawOthers
<1>4. RowsSawNone'  BY <1>1, <1>2 DEF RowsSawNone, SawOthers, Same, Vrf
<1>5. FormSawOthers'  BY <1>1 DEF FormSawOthers
<1>6. FormsSawNone'  BY <1>1, <1>2 DEF FormsSawNone, FormSawOthers, Same, Vrf
<1> QED BY <1>3, <1>4, <1>5, <1>6

(***************************************************************************)
(* The theorems                                                            *)
(***************************************************************************)

\* The inductive invariant holds at first, when there is no row and no form.
LEMMA InitInv == ASSUME Init PROVE IInv
  BY DEF Init, Idle, IInv, RowsTyped, Protected, SawOthers, RowsSawNone, FormSawOthers,
         FormsSawNone, Forms

\* Every step preserves it.
LEMMA NextInv == ASSUME IInv, [Next]_vars PROVE IInv'
<1>1. ASSUME NEW p \in Procs, PrefixForm(p) PROVE IInv'  BY <1>1, PrefixFormInv
<1>2. ASSUME NEW p \in Procs, SaveForm(p) PROVE IInv'  BY <1>2, SaveFormInv
<1>3. ASSUME NEW p \in Procs, AddressForm(p) PROVE IInv'  BY <1>3, AddressFormInv
<1>4. ASSUME NEW p \in Procs, Save(p) PROVE IInv'  BY <1>4, SaveInv
<1>5. CASE PrefixApi  BY <1>5, PrefixApiInv
<1>6. ASSUME NEW i \in PrefixIds, DeletePrefix(i) PROVE IInv'  BY <1>6, DeletePrefixInv
<1>7. ASSUME NEW i \in AddressIds, DeleteAddress(i) PROVE IInv'  BY <1>7, DeleteAddressInv
<1>8. ASSUME NEW n \in DOMAIN Interfaces, DeleteInterface(n) PROVE IInv'
  BY <1>8, DeleteInterfaceInv
<1>9. CASE UNCHANGED vars
  BY <1>9 DEF vars, IInv, RowsTyped, Protected, SawOthers, RowsSawNone, FormSawOthers,
              FormsSawNone, Same, Vrf
<1> QED BY <1>1, <1>2, <1>3, <1>4, <1>5, <1>6, <1>7, <1>8, <1>9 DEF Next

\* So it holds of every state.
THEOREM Invariant == Spec => []IInv
BY InitInv, NextInv, PTL DEF Spec

\* What the rows saw tells that duplicates are races.
LEMMA InvApart == ASSUME IInv PROVE AddressesApart
  BY DEF IInv, SawOthers, RowsSawNone, AddressesApart, Same

\* Two rows of one address in a VRF: neither form was checked when the other
\* row was there, or a prefix moved or came back (IPAddress validation).
THEOREM DuplicatesAreRaces == Spec => []AddressesApart
BY InvApart, Invariant, PTL

(***************************************************************************)
(* The parents of prefixes                                                 *)
(***************************************************************************)

\* A prefix that is there is among its own ancestors, where the walk begins.
LEMMA WalkBegins ==
  ASSUME NEW j \in DOMAIN prefixes PROVE j \in Ancestors(j)
BY DEF Ancestors

\* Where the parents lead never decides whether the form is accepted: what
\* contains the network is met at once, or there is no parent (Prefix.clean).
LEMMA WalksNeverDecide == ParentDecides
<1> SUFFICES ASSUME NEW i \in PrefixIds, NEW row \in Prefixes,
                    row.parent \in (DOMAIN prefixes \cup {None}) \ {i}
             PROVE  ValidPrefix(i, row) <=>
                      /\ UniqueNet(i, row) /\ ParentFits(row)
                      /\ row.parent = None => Containing(i, row) = {}
  BY DEF ParentDecides
<1>1. \A j \in DOMAIN prefixes :
        j # i /\ prefixes[j].net = row.net /\ prefixes[j].place = row.place =>
          j \in Containing(i, row)
  BY DEF Containing, Inside
<1>2. UniqueNet(i, row) <=> ~\E j \in Containing(i, row) : prefixes[j].net = row.net
  BY <1>1 DEF UniqueNet, Containing
<1>3. ParentFits(row) /\ row.parent # None =>
        row.parent \in Containing(i, row) \cap Ancestors(row.parent)
  BY WalkBegins DEF ParentFits, Containing
<1>4. ParentFits(row) => (HasAncestor(row, Containing(i, row)) <=> row.parent # None)
  BY <1>3 DEF HasAncestor
<1>5. row.parent # None /\ ParentFits(row) => Containing(i, row) # {}
  BY <1>3
<1> QED BY <1>2, <1>4 DEF ValidPrefix, Overlaps, Walks

(***************************************************************************)
(* The types                                                               *)
(***************************************************************************)

\* The parent of a prefix is a row (SET_NULL), forms are bounded.
Bounded == /\ forms \in 0..MaxForms /\ DOMAIN prefixes \subseteq PrefixIds
           /\ \A i \in DOMAIN prefixes : prefixes[i].parent \in DOMAIN prefixes \cup {None}

\* Saving a prefix keeps the foreign key.
LEMMA SaveKeepsParents ==
  ASSUME Bounded, NEW i \in PrefixIds, NEW row, SavePrefix(i, row)
  PROVE  /\ DOMAIN prefixes' \subseteq PrefixIds
         /\ \A j \in DOMAIN prefixes' : prefixes'[j].parent \in DOMAIN prefixes' \cup {None}
<1>1. CASE UNCHANGED prefixes  BY <1>1 DEF Bounded
<1>2. CASE row.parent \in DOMAIN prefixes \cup {i, None} /\ prefixes' = Put(prefixes, i, row)
  BY <1>2 DEF Bounded, Put
<1> QED BY <1>1, <1>2 DEF SavePrefix, PutPrefix

\* A step keeps the foreign key and begins at most one form.
LEMMA StepBounded ==
  ASSUME Assumptions, IInv, Bounded, [Next]_vars
  PROVE  Bounded'
<1>1. Request => forms' \in 0..MaxForms  BY DEF Request, Bounded, Assumptions
<1>2. ASSUME NEW p \in Procs, PrefixForm(p) \/ AddressForm(p) PROVE Bounded'
  BY <1>1, <1>2 DEF PrefixForm, AddressForm, Bounded
<1>3. ASSUME NEW p \in Procs, SaveForm(p) PROVE Bounded'
  <2>1. proc[p].id \in PrefixIds  BY <1>3 DEF SaveForm, IInv, RowsTyped, Forms
  <2> QED BY <1>3, <2>1, SaveKeepsParents DEF SaveForm, Bounded
<1>4. CASE PrefixApi  BY <1>1, <1>4, SaveKeepsParents DEF PrefixApi, Bounded
<1>5. ASSUME NEW i \in PrefixIds, DeletePrefix(i) PROVE Bounded'
  <2>1. \A j \in DOMAIN prefixes : prefixes[j] \in Prefixes  BY DEF IInv, RowsTyped
  <2>2. /\ DOMAIN prefixes' = (DOMAIN prefixes) \ {i}
        /\ \A j \in DOMAIN prefixes' :
             prefixes'[j].parent = IF prefixes[j].parent = i THEN None ELSE prefixes[j].parent
    BY <1>5, <2>1 DEF DeletePrefix, Prefixes
  <2>3. forms' \in 0..MaxForms  BY <1>1, <1>5 DEF DeletePrefix
  <2> QED BY <2>2, <2>3 DEF Bounded
<1>6. ASSUME NEW p \in Procs, Save(p) PROVE Bounded'
  BY <1>6 DEF Save, SaveAddress, Bounded
<1>7. ASSUME NEW i, DeleteAddress(i) \/ DeleteInterface(i) PROVE Bounded'
  BY <1>1, <1>7 DEF DeleteAddress, DeleteInterface, Bounded
<1>8. CASE UNCHANGED vars  BY <1>8 DEF vars, Bounded
<1> QED BY <1>2, <1>3, <1>4, <1>5, <1>6, <1>7, <1>8 DEF Next

\* Both together tell the types.
LEMMA InvTyped == ASSUME IInv, Bounded PROVE TypeOK
  BY DEF IInv, RowsTyped, Protected, SawOthers, Bounded, TypeOK, Forms

============================================================================
