------------------------ MODULE RackOccupancyProofs ------------------------
(***************************************************************************)
(* Proofs about RackOccupancy, for any devices, racks, sizes, writers and  *)
(* bounds.                                                                 *)
(*                                                                         *)
(* IInv says what a writer under way knows.  The list of a rack in exact   *)
(* is right unless a writer without a transaction is changing the rack     *)
(* (Busy); so are the list that a writer is about to store and those its   *)
(* transaction holds, for the racks that its own row does not touch.  And  *)
(* a writer that is alone has, or will have, recomputed all that it does.  *)
(***************************************************************************)
EXTENDS RackOccupancy, TLAPS

Lists == UNION {[S -> SUBSET Nat] : S \in SUBSET Racks}
WriterType ==
    [at : {"idle", "chosen", "ready", "todo", "update"},
     kind : {"save", "api", "assign", "resize", "delete"}, tx : BOOLEAN,
     device : Devices \cup {None}, goal : Rows \cup {NoDevice},
     todo : SUBSET Racks, again : SUBSET Racks, rack : Racks \cup {None},
     units : SUBSET Nat, pending : Lists, touched : SUBSET Racks]

Typed ==
    /\ placed \in [Devices -> Rows \cup {NoDevice}]
    /\ occupied \in [Racks -> SUBSET Nat]
    /\ writer \in [Writers -> WriterType]
    /\ writes \in 0..MaxWrites /\ faults \in 0..MaxFaults
    /\ alone \subseteq Writers /\ exact \subseteq Racks /\ raced \subseteq Racks

Before(w) == writer[w].at \in {"chosen", "ready"}
During(w) == writer[w].at \in {"todo", "update"}

\* What each step leaves to the next one.
Steps == \A w \in Writers :
    /\ Before(w) \/ InTx(w) => writer[w].device \in Devices
    /\ Before(w) => /\ writer[w].kind # "delete" => writer[w].goal \in Rows
                    /\ DOMAIN writer[w].pending = {}
    /\ ~writer[w].tx => DOMAIN writer[w].pending = {}
    /\ writer[w].at = "update" => writer[w].rack \in Racks

\* An open transaction holds its device, and knows the racks it will change.
Exclusive == \A v, w \in Writers :
    v # w /\ InTx(v) /\ InTx(w) => writer[v].device # writer[w].device
HoldsRow == \A w \in Writers : InTx(w) =>
    /\ {placed[writer[w].device].rack, writer[w].goal.rack} \subseteq writer[w].touched \cup {None}
    /\ writer[w].kind = "resize" =>
         /\ writer[w].goal.rack = placed[writer[w].device].rack
         /\ writer[w].goal.at = placed[writer[w].device].at
    /\ writer[w].kind = "delete" => writer[w].goal.rack = None

Busy(r) == \E v \in Writers : During(v) /\ ~writer[v].tx /\ r \in writer[v].touched
Settled == {r \in exact : ~Busy(r)}

OccupiedRight == \A r \in Settled : occupied[r] = Units(placed, r)
UnitsRight == \A w \in Writers :
    writer[w].at = "update" /\ writer[w].rack \in Settled \ writer[w].touched =>
        writer[w].units = Units(placed, writer[w].rack)
PendingRight == \A w \in Writers : InTx(w) =>
    \A r \in (DOMAIN writer[w].pending) \cap (Settled \ writer[w].touched) :
        writer[w].pending[r] = Units(placed, r)

\* The writer that is alone.
AloneIsAlone == \A w \in alone : \A v \in Writers \ {w} : writer[v].at = "idle"
AloneReady == \A w \in alone : writer[w].at = "ready" =>
    {placed[writer[w].device].rack}
      \cup (IF writer[w].kind \in {"delete", "resize"} THEN {} ELSE {writer[w].goal.rack})
    \subseteq writer[w].todo \cup {None}
AloneUnits == \A w \in alone :
    /\ writer[w].at = "update" => writer[w].units = Units(Seen(w), writer[w].rack)
    /\ InTx(w) => \A r \in DOMAIN writer[w].pending : writer[w].pending[r] = Units(Seen(w), r)
AloneTouched == \A w \in alone : During(w) => \A r \in writer[w].touched :
    \/ r \in writer[w].todo
    \/ writer[w].at = "update" /\ writer[w].rack = r
    \/ IF writer[w].tx THEN r \in DOMAIN writer[w].pending ELSE occupied[r] = Units(placed, r)
AloneApart == \A w \in alone :
    /\ Before(w) \/ InTx(w)
    /\ writer[w].kind = "save" \/ (writer[w].kind = "assign" /\ writer[w].goal.rack \in exact)
    /\ writer[w].goal.rack # None /\ writer[w].goal.at # 0
    => \A e \in Devices \ {writer[w].device} :
         ~(placed[e].rack = writer[w].goal.rack /\ placed[e].at = writer[w].goal.at)

Locks == Steps /\ Exclusive /\ HoldsRow
Right == OccupiedRight /\ UnitsRight /\ PendingRight
Alone == AloneIsAlone /\ AloneReady /\ AloneUnits /\ AloneTouched /\ AloneApart

IInv == Typed /\ Locks /\ Right /\ Alone /\ PositionsApart

(***************************************************************************)
(* Units and lists                                                         *)
(***************************************************************************)

\* The units of a rack depend on the devices in it alone.
LEMMA SameUnits ==
  ASSUME NEW a, NEW b, NEW r,
         \A e \in Devices : a[e].rack = r \/ b[e].rack = r => a[e] = b[e]
  PROVE  Units(a, r) = Units(b, r)
<1> DEFINE In(x) == {e \in Devices : x[e].rack = r /\ x[e].at # 0}
           Of(x) == {x[e].at .. (x[e].at + x[e].size - 1) : e \in In(x)}
<1>1. In(a) = In(b)  OBVIOUS
<1>2. \A e \in In(a) : a[e] = b[e]  OBVIOUS
<1>3. Of(a) = Of(b)  BY <1>1, <1>2
<1> QED BY <1>3 DEF Units

\* Positions and sizes are numbers.
LEMMA RowTyped ==
  ASSUME NEW row \in Rows \cup {NoDevice}
  PROVE  /\ row.at \in Nat /\ row.size \in Nat /\ row.rack \in Racks \cup {None}
         /\ row # NoDevice => row.size >= 1
<1>1. CASE row \in Rows
  <2>1. row.at \in Positions /\ row.size \in Sizes /\ row.rack \in Racks \cup {None}
    BY <1>1 DEF Rows
  <2>2. Positions \subseteq Nat  BY SizesAssumption DEF Positions
  <2>3. Sizes \subseteq Nat \ {0}  BY SizesAssumption
  <2>4. row.size \in Nat \ {0}  BY <2>1, <2>3
  <2>5. row.size >= 1  BY <2>4
  <2> QED BY <2>1, <2>2, <2>4, <2>5
<1>2. CASE row = NoDevice  BY <1>2 DEF NoDevice
<1> QED BY <1>1, <1>2

\* Units are natural numbers.
LEMMA UnitsAreNat ==
  ASSUME NEW a \in [Devices -> Rows \cup {NoDevice}], NEW r
  PROVE  Units(a, r) \in SUBSET Nat
<1>1. ASSUME NEW e \in Devices
      PROVE  a[e].at .. (a[e].at + a[e].size - 1) \subseteq Nat
  <2>1. a[e].at \in Nat /\ a[e].size \in Nat  BY RowTyped
  <2> QED BY <2>1
<1> QED BY <1>1 DEF Units

\* The position of a mounted device is one of its units.
LEMMA PositionIsUnit ==
  ASSUME NEW a \in [Devices -> Rows \cup {NoDevice}], NEW e \in Devices,
         a[e].rack # None, a[e].at # 0
  PROVE  a[e].at \in Units(a, a[e].rack)
<1>1. a[e] # NoDevice  BY DEF NoDevice
<1>2. a[e].at \in Nat /\ a[e].size \in Nat /\ a[e].size >= 1  BY <1>1, RowTyped
<1>3. a[e].at \in a[e].at .. (a[e].at + a[e].size - 1)  BY <1>2
<1> QED BY <1>3 DEF Units

\* What an overlay of two lists has.
LEMMA OverlayAt ==
  ASSUME NEW a, NEW b
  PROVE  /\ DOMAIN Overlay(a, b) = DOMAIN a \cup DOMAIN b
         /\ \A r \in DOMAIN Overlay(a, b) :
              Overlay(a, b)[r] = IF r \in DOMAIN a THEN a[r] ELSE b[r]
BY DEF Overlay

\* An overlay of lists is lists.
LEMMA OverlayTyped ==
  ASSUME NEW a \in Lists, NEW b \in Lists
  PROVE  Overlay(a, b) \in Lists
<1>1. PICK S \in SUBSET Racks : a \in [S -> SUBSET Nat]  BY DEF Lists
<1>2. PICK T \in SUBSET Racks : b \in [T -> SUBSET Nat]  BY DEF Lists
<1>3. Overlay(a, b) \in [S \cup T -> SUBSET Nat]  BY <1>1, <1>2 DEF Overlay
<1> QED BY <1>3 DEF Lists

\* Lists of no rack, of one, and of some.
LEMMA ListsTyped ==
  /\ [r \in {} |-> {}] \in Lists
  /\ \A r \in Racks, u \in SUBSET Nat : [q \in {r} |-> u] \in Lists
  /\ \A l \in Lists : DOMAIN l \subseteq Racks /\ \A r \in DOMAIN l : l[r] \in SUBSET Nat
<1>1. [r \in {} |-> {}] \in [{} -> SUBSET Nat]  OBVIOUS
<1>2. \A r \in Racks, u \in SUBSET Nat : [q \in {r} |-> u] \in [{r} -> SUBSET Nat]  OBVIOUS
<1>3. {} \in SUBSET Racks /\ \A r \in Racks : {r} \in SUBSET Racks  OBVIOUS
<1>4. [r \in {} |-> {}] \in Lists  BY <1>1, <1>3 DEF Lists
<1>5. ASSUME NEW r \in Racks, NEW u \in SUBSET Nat PROVE [q \in {r} |-> u] \in Lists
  <2>1. [q \in {r} |-> u] \in [{r} -> SUBSET Nat]  BY <1>2
  <2>2. {r} \in SUBSET Racks  BY <1>3
  <2>3. \A f, S : f \in [S -> SUBSET Nat] /\ S \in SUBSET Racks => f \in Lists  BY DEF Lists
  <2> QED BY <2>1, <2>2, <2>3
<1>6. ASSUME NEW l \in Lists
      PROVE  DOMAIN l \subseteq Racks /\ \A r \in DOMAIN l : l[r] \in SUBSET Nat
  <2>1. PICK S \in SUBSET Racks : l \in [S -> SUBSET Nat]  BY DEF Lists
  <2> QED BY <2>1
<1> QED BY <1>4, <1>5, <1>6

\* An idle writer has no list.
LEMMA IdleTyped == Idle \in WriterType /\ DOMAIN Idle.pending = {}
BY ListsTyped DEF Idle, WriterType

(***************************************************************************)
(* A request or a task starts                                              *)
(***************************************************************************)

\* A writer that starts breaks nothing if it knows what Alone asks of one that
\* nobody else overlaps.
LEMMA StartsInv ==
  ASSUME IInv, NEW w \in Writers, NEW new \in WriterType, Starts(w, new),
         new.at \in {"chosen", "ready"}, new.device \in Devices, DOMAIN new.pending = {},
         new.kind # "delete" => new.goal \in Rows,
         new.at = "ready" => new.kind = "delete" /\ new.todo = InRack(placed[new.device].rack),
         /\ \A v \in Writers : writer[v].at = "idle"
         /\ new.kind = "save" \/ (new.kind = "assign" /\ new.goal.rack \in exact)
         /\ new.goal.rack # None /\ new.goal.at # 0
         => \A e \in Devices \ {new.device} :
              ~(placed[e].rack = new.goal.rack /\ placed[e].at = new.goal.at)
  PROVE  IInv'
<1> USE DEF IInv
<1>1. /\ UNCHANGED <<placed, occupied, faults, exact, raced>>
      /\ writer' = [writer EXCEPT ![w] = new] /\ writer[w].at = "idle"
      /\ alone' = IF \A v \in Writers : writer[v].at = "idle" THEN {w} ELSE {}
      /\ writes' \in 0..MaxWrites
  BY BoundsAssumption DEF Starts, Typed
<1>2. /\ writer' \in [Writers -> WriterType]
      /\ writer'[w] = new /\ \A v \in Writers \ {w} : writer'[v] = writer[v]
  BY <1>1 DEF Typed
<1>3. ~InTx(w) /\ ~InTx(w)' /\ ~During(w) /\ ~During(w)'
      /\ \A v \in Writers \ {w} : InTx(v)' = InTx(v) /\ During(v)' = During(v)
  BY <1>1, <1>2 DEF InTx, During
<1>4. \A r : Busy(r)' = Busy(r)  BY <1>2, <1>3 DEF Busy
<1>5. Settled' = Settled  BY <1>1, <1>4 DEF Settled
<1>6. \A v \in alone' : v = w /\ \A u \in Writers \ {w} : writer[u].at = "idle"
  BY <1>1
<1>a. Typed'  BY <1>1, <1>2 DEF Typed
<1>b. Steps'
  <2> SUFFICES ASSUME NEW v \in Writers
               PROVE  /\ (Before(v) \/ InTx(v) => writer[v].device \in Devices)'
                      /\ (Before(v) => /\ writer[v].kind # "delete" => writer[v].goal \in Rows
                                       /\ DOMAIN writer[v].pending = {})'
                      /\ (~writer[v].tx => DOMAIN writer[v].pending = {})'
                      /\ (writer[v].at = "update" => writer[v].rack \in Racks)'
    BY DEF Steps
  <2>1. CASE v = w  BY <1>2, <1>3, <2>1
  <2>2. CASE v # w  BY <1>2, <1>3, <2>2 DEF Locks, Steps, Before
  <2> QED BY <2>1, <2>2
<1>c. Exclusive'  BY <1>2, <1>3 DEF Locks, Exclusive
<1>d. HoldsRow'  BY <1>1, <1>2, <1>3 DEF Locks, HoldsRow
<1>e. OccupiedRight'  BY <1>1, <1>5 DEF Right, OccupiedRight
<1>f. UnitsRight'  BY <1>1, <1>2, <1>5 DEF Right, UnitsRight
<1>g. PendingRight'  BY <1>1, <1>2, <1>3, <1>5 DEF Right, PendingRight
<1>h. AloneIsAlone'  BY <1>2, <1>6 DEF AloneIsAlone
<1>i. AloneReady'  BY <1>1, <1>2, <1>6 DEF AloneReady, InRack
<1>j. AloneUnits'  BY <1>2, <1>3, <1>6 DEF AloneUnits
<1>k. AloneTouched'  BY <1>3, <1>6 DEF AloneTouched
<1>l. AloneApart'  BY <1>1, <1>2, <1>6 DEF AloneApart
<1>m. PositionsApart'  BY <1>1 DEF PositionsApart
<1> QED BY <1>a, <1>b, <1>c, <1>d, <1>e, <1>f, <1>g, <1>h, <1>i, <1>j, <1>k, <1>l, <1>m
         DEF Locks, Right, Alone

\* A form checks that nobody has the position.
LEMMA SubmitFormInv ==
  ASSUME IInv, NEW w \in Writers, NEW d \in Devices, NEW row \in Rows, SubmitForm(w, d, row)
  PROVE  IInv'
<1> DEFINE new == [Idle EXCEPT !.at = "chosen", !.tx = TRUE, !.device = d, !.goal = row]
<1>1. new \in WriterType /\ new.at = "chosen" /\ new.device = d /\ new.goal = row
      /\ DOMAIN new.pending = {}
  BY IdleTyped DEF WriterType, Idle
<1>2. Starts(w, new)  BY DEF SubmitForm
<1>3. row.rack # None /\ row.at # 0 =>
        ~\E e \in Devices \ {d} : placed[e].rack = row.rack /\ placed[e].at = row.at
  BY DEF SubmitForm, Validate
<1> HIDE DEF new
<1> QED BY <1>1, <1>2, <1>3, StartsInv

\* Nothing is known of a position that nobody looked at.
LEMMA SaveUncheckedInv ==
  ASSUME IInv, NEW w \in Writers, NEW d \in Devices, NEW r \in Racks \cup {None},
         SaveUnchecked(w, d, r)
  PROVE  IInv'
<1>1. PICK row \in IF Exists(d) THEN {[placed[d] EXCEPT !.rack = r]}
                   ELSE {[rack |-> r, at |-> 0, size |-> n] : n \in Heights} :
        Starts(w, [Idle EXCEPT !.at = "chosen", !.kind = "api", !.device = d, !.goal = row])
  BY DEF SaveUnchecked
<1>2. row \in Rows
  <2>1. CASE Exists(d)
    <3>1. placed[d] \in Rows  BY <2>1 DEF IInv, Typed, Exists
    <3>2. row = [placed[d] EXCEPT !.rack = r]  BY <1>1, <2>1
    <3> QED BY <3>1, <3>2 DEF Rows
  <2>2. CASE ~Exists(d)
    <3>1. PICK n \in Heights : row = [rack |-> r, at |-> 0, size |-> n]  BY <1>1, <2>2
    <3>2. 0 \in Positions /\ n \in Sizes  BY SizesAssumption DEF Positions
    <3> QED BY <3>1, <3>2 DEF Rows
  <2> QED BY <2>1, <2>2
<1> DEFINE new == [Idle EXCEPT !.at = "chosen", !.kind = "api", !.device = d, !.goal = row]
<1>3. new \in WriterType /\ new.at = "chosen" /\ new.kind = "api" /\ new.device = d
      /\ new.goal = row /\ DOMAIN new.pending = {}
  BY <1>2, IdleTyped DEF WriterType, Idle
<1>4. Starts(w, new)  BY <1>1
<1> HIDE DEF new
<1> QED BY <1>2, <1>3, <1>4, StartsInv

\* A list that is exact shows every unit that is taken.
LEMMA AutoAssignInv ==
  ASSUME IInv, NEW w \in Writers, NEW d \in Devices, NEW r \in Racks,
         NEW requested \in Positions, NEW size \in Sizes, AutoAssign(w, d, r, requested, size)
  PROVE  IInv'
<1>1. PICK at \in Select(r, requested, size), again \in {{}, {r}} :
        Starts(w, [Idle EXCEPT !.at = "chosen", !.kind = "assign", !.tx = TRUE, !.device = d,
                      !.goal = [rack |-> r, at |-> at, size |-> size], !.again = again])
  BY DEF AutoAssign
<1>2. at \in Positions \ {0} /\ at .. (at + size - 1) \cap occupied[r] = {}
  BY <1>1 DEF Select
<1> DEFINE row == [rack |-> r, at |-> at, size |-> size]
           new == [Idle EXCEPT !.at = "chosen", !.kind = "assign", !.tx = TRUE, !.device = d,
                      !.goal = row, !.again = again]
<1>3. row \in Rows  BY <1>2 DEF Rows
<1>4. again \in SUBSET Racks  OBVIOUS
<1>5. new \in WriterType /\ new.at = "chosen" /\ new.kind = "assign" /\ new.device = d
      /\ new.goal = row /\ DOMAIN new.pending = {}
  BY <1>3, <1>4, IdleTyped DEF WriterType, Idle
<1>6. Starts(w, new)  BY <1>1
<1>7. ASSUME \A v \in Writers : writer[v].at = "idle", r \in exact,
             NEW e \in Devices \ {d}, placed[e].rack = r, placed[e].at = at
      PROVE  FALSE
  <2>1. r \in Settled  BY <1>7 DEF Settled, Busy, During
  <2>2. occupied[r] = Units(placed, r)  BY <2>1 DEF IInv, Right, OccupiedRight
  <2>3. placed[e].rack # None /\ placed[e].at # 0  BY <1>2, <1>7, NoneAssumption
  <2>4. placed \in [Devices -> Rows \cup {NoDevice}]  BY DEF IInv, Typed
  <2>5. at \in occupied[r]  BY <1>7, <2>2, <2>3, <2>4, PositionIsUnit
  <2>6. at \in at .. (at + size - 1)
    <3>1. at \in Nat  BY <1>2, SizesAssumption DEF Positions
    <3>2. size \in Nat /\ size >= 1  BY SizesAssumption
    <3> QED BY <3>1, <3>2
  <2> QED BY <1>2, <2>5, <2>6
<1>8. row.rack = r /\ row.at = at  OBVIOUS
<1> HIDE DEF new, row
<1> QED BY <1>3, <1>5, <1>6, <1>7, <1>8, StartsInv

\* The device that a synchronization has loaded.
LEMMA SyncResizesInv ==
  ASSUME IInv, NEW w \in Writers, NEW d \in Devices, NEW size \in Sizes, SyncResizes(w, d, size)
  PROVE  IInv'
<1> DEFINE row == [placed[d] EXCEPT !.size = size]
           new == [Idle EXCEPT !.at = "chosen", !.kind = "resize", !.tx = TRUE, !.device = d,
                      !.goal = row, !.again = InRack(placed[d].rack)]
<1>1. placed[d] \in Rows  BY DEF SyncResizes, Exists, IInv, Typed
<1>2. row \in Rows  BY <1>1 DEF Rows
<1>3. InRack(placed[d].rack) \in SUBSET Racks  BY <1>1 DEF Rows, InRack
<1>4. new \in WriterType /\ new.at = "chosen" /\ new.kind = "resize" /\ new.device = d
      /\ new.goal = row /\ DOMAIN new.pending = {}
  BY <1>2, <1>3, IdleTyped DEF WriterType, Idle
<1>5. Starts(w, new)  BY DEF SyncResizes
<1> HIDE DEF new, row
<1> QED BY <1>2, <1>4, <1>5, StartsInv

\* The list to recompute is that of the rack the device is in.
LEMMA DeleteDeviceInv ==
  ASSUME IInv, NEW w \in Writers, NEW d \in Devices, NEW tx \in BOOLEAN, DeleteDevice(w, d, tx)
  PROVE  IInv'
<1> DEFINE new == [Idle EXCEPT !.at = "ready", !.kind = "delete", !.tx = tx, !.device = d,
                      !.todo = InRack(placed[d].rack)]
<1>1. placed[d] \in Rows  BY DEF DeleteDevice, Exists, IInv, Typed
<1>2. InRack(placed[d].rack) \in SUBSET Racks  BY <1>1 DEF Rows, InRack
<1>3. new \in WriterType /\ new.at = "ready" /\ new.kind = "delete" /\ new.device = d
      /\ new.todo = InRack(placed[d].rack) /\ DOMAIN new.pending = {}
  BY <1>2, IdleTyped DEF WriterType, Idle
<1>4. Starts(w, new)  BY DEF DeleteDevice
<1> HIDE DEF new
<1> QED BY <1>3, <1>4, StartsInv

(***************************************************************************)
(* The steps of a writer                                                   *)
(***************************************************************************)

\* A rack that the row of an open transaction does not touch looks to it as it
\* is, and so does every rack to a writer that has no transaction.
LEMMA SeenUnits ==
  ASSUME IInv, NEW w \in Writers, NEW r \in Racks, r \notin writer[w].touched \/ ~InTx(w)
  PROVE  Units(Seen(w), r) = Units(placed, r)
<1>1. CASE ~InTx(w)  BY <1>1 DEF Seen
<1>2. CASE InTx(w)
  <2>1. writer[w].device \in Devices /\ placed \in [Devices -> Rows \cup {NoDevice}]
    BY <1>2 DEF IInv, Typed, Locks, Steps
  <2>2. placed[writer[w].device].rack # r /\ writer[w].goal.rack # r
    BY <1>2, NoneAssumption DEF IInv, Locks, HoldsRow
  <2>3. Seen(w) = [placed EXCEPT ![writer[w].device] = writer[w].goal]  BY <1>2 DEF Seen
  <2>4. \A e \in Devices : Seen(w)[e].rack = r \/ placed[e].rack = r => Seen(w)[e] = placed[e]
    BY <2>1, <2>2, <2>3
  <2> QED BY <2>4, SameUnits
<1> QED BY <1>1, <1>2

\* What a statement of a writer sees are devices.
LEMMA SeenTyped ==
  ASSUME IInv, NEW w \in Writers
  PROVE  Seen(w) \in [Devices -> Rows \cup {NoDevice}]
BY DEF Seen, IInv, Typed, WriterType

\* Device.save reads the rack the device was in.
LEMMA ReadPreviousInv ==
  ASSUME IInv, NEW w \in Writers, ReadPrevious(w)
  PROVE  IInv'
<1> USE DEF IInv
<1> DEFINE racks == {placed[writer[w].device].rack, writer[w].goal.rack} \ {None}
<1>1. /\ UNCHANGED <<placed, occupied, faults, exact, raced, writes, alone>>
      /\ writer[w].at = "chosen"
      /\ writer' = [writer EXCEPT ![w] = [writer[w] EXCEPT !.at = "ready", !.todo = racks]]
  BY DEF ReadPrevious, Goes
<1>2. writer[w] \in WriterType /\ writer[w].device \in Devices
  BY <1>1 DEF Typed, Locks, Steps, Before
<1>3. racks \in SUBSET Racks
  <2>1. placed[writer[w].device].rack \in Racks \cup {None}  BY <1>2, RowTyped DEF Typed
  <2>2. writer[w].goal.rack \in Racks \cup {None}  BY <1>2, RowTyped DEF WriterType
  <2> QED BY <2>1, <2>2
<1> HIDE DEF racks
<1>4. writer'[w] = [writer[w] EXCEPT !.at = "ready", !.todo = racks]
      /\ \A v \in Writers \ {w} : writer'[v] = writer[v]
  BY <1>1 DEF Typed
<1>5. writer'[w] \in WriterType /\ writer'[w].at = "ready" /\ writer'[w].todo = racks
      /\ writer'[w].device = writer[w].device /\ writer'[w].kind = writer[w].kind
      /\ writer'[w].goal = writer[w].goal /\ writer'[w].pending = writer[w].pending
      /\ writer'[w].tx = writer[w].tx
  BY <1>2, <1>3, <1>4 DEF WriterType
<1>6. writer' \in [Writers -> WriterType]  BY <1>1, <1>4, <1>5 DEF Typed
<1>7. ~InTx(w) /\ ~InTx(w)' /\ ~During(w) /\ ~During(w)' /\ Before(w)
      /\ \A v \in Writers \ {w} : InTx(v)' = InTx(v) /\ During(v)' = During(v)
  BY <1>1, <1>4, <1>5 DEF InTx, During, Before
<1>8. \A r : Busy(r)' = Busy(r)  BY <1>4, <1>7 DEF Busy
<1>9. Settled' = Settled  BY <1>1, <1>8 DEF Settled
<1>a. Typed'  BY <1>1, <1>6 DEF Typed
<1>b. Steps'
  <2> SUFFICES ASSUME NEW v \in Writers
               PROVE  /\ (Before(v) \/ InTx(v) => writer[v].device \in Devices)'
                      /\ (Before(v) => /\ writer[v].kind # "delete" => writer[v].goal \in Rows
                                       /\ DOMAIN writer[v].pending = {})'
                      /\ (~writer[v].tx => DOMAIN writer[v].pending = {})'
                      /\ (writer[v].at = "update" => writer[v].rack \in Racks)'
    BY DEF Steps
  <2>1. CASE v = w  BY <1>2, <1>5, <1>7, <2>1 DEF Locks, Steps
  <2>2. CASE v # w  BY <1>4, <1>7, <2>2 DEF Locks, Steps, Before
  <2> QED BY <2>1, <2>2
<1>c. Exclusive'  BY <1>4, <1>7 DEF Locks, Exclusive
<1>d. HoldsRow'  BY <1>1, <1>4, <1>7 DEF Locks, HoldsRow
<1>e. OccupiedRight'  BY <1>1, <1>9 DEF Right, OccupiedRight
<1>f. UnitsRight'  BY <1>1, <1>4, <1>5, <1>9 DEF Right, UnitsRight
<1>g. PendingRight'  BY <1>1, <1>4, <1>7, <1>9 DEF Right, PendingRight
<1>h. AloneIsAlone'  BY <1>1, <1>4 DEF Alone, AloneIsAlone
<1>0. \A v \in alone : v = w  BY <1>1 DEF Alone, AloneIsAlone
<1>i. AloneReady'  BY <1>1, <1>5, <1>0 DEF AloneReady, racks
<1>j. AloneUnits'  BY <1>1, <1>5, <1>7, <1>0 DEF AloneUnits
<1>k. AloneTouched'  BY <1>1, <1>7, <1>0 DEF AloneTouched
<1>l. AloneApart'  BY <1>1, <1>5, <1>7, <1>0 DEF Alone, AloneApart
<1>m. PositionsApart'  BY <1>1 DEF PositionsApart
<1> QED BY <1>a, <1>b, <1>c, <1>d, <1>e, <1>f, <1>g, <1>h, <1>i, <1>j, <1>k, <1>l, <1>m
         DEF Locks, Right, Alone

\* update_rack_occupied_units reads the devices.
LEMMA RecomputeInv ==
  ASSUME IInv, NEW w \in Writers, NEW r \in writer[w].todo, Recompute(w, r)
  PROVE  IInv'
<1> USE DEF IInv
<1> DEFINE list == Units(Seen(w), r)
           rest == writer[w].todo \ {r}
<1>1. /\ UNCHANGED <<placed, occupied, faults, exact, raced, writes, alone>>
      /\ writer[w].at = "todo"
      /\ writer' = [writer EXCEPT ![w] = [writer[w] EXCEPT !.at = "update", !.rack = r,
                                            !.units = list, !.todo = rest]]
  BY DEF Recompute, Goes
<1>2. writer[w] \in WriterType /\ r \in Racks  BY DEF Typed, WriterType
<1>3. list \in SUBSET Nat  BY SeenTyped, UnitsAreNat
<1>q. rest \in SUBSET Racks  BY <1>2 DEF WriterType
<1>0. r \in Settled \ writer[w].touched => list = Units(placed, r)  BY <1>2, SeenUnits
<1> HIDE DEF list, rest
<1>4. writer'[w] = [writer[w] EXCEPT !.at = "update", !.rack = r, !.units = list, !.todo = rest]
      /\ \A v \in Writers \ {w} : writer'[v] = writer[v]
  BY <1>1 DEF Typed
<1>5. writer'[w] \in WriterType /\ writer'[w].at = "update" /\ writer'[w].todo = rest
      /\ writer'[w].rack = r /\ writer'[w].units = list /\ writer'[w].touched = writer[w].touched
      /\ writer'[w].device = writer[w].device /\ writer'[w].kind = writer[w].kind
      /\ writer'[w].goal = writer[w].goal /\ writer'[w].pending = writer[w].pending
      /\ writer'[w].tx = writer[w].tx
  BY <1>2, <1>3, <1>q, <1>4 DEF WriterType
<1>6. writer' \in [Writers -> WriterType]  BY <1>1, <1>4, <1>5 DEF Typed
<1>7. ~Before(w) /\ ~Before(w)'
      /\ \A v \in Writers : InTx(v)' = InTx(v) /\ During(v)' = During(v)
  BY <1>1, <1>4, <1>5 DEF InTx, During, Before
<1>8. \A q : Busy(q)' = Busy(q)  BY <1>4, <1>5, <1>7 DEF Busy
<1>9. Settled' = Settled  BY <1>1, <1>8 DEF Settled
<1>s. Seen(w)' = Seen(w)  BY <1>1, <1>5, <1>7 DEF Seen
<1>a. Typed'  BY <1>1, <1>6 DEF Typed
<1>b. Steps'
  <2> SUFFICES ASSUME NEW v \in Writers
               PROVE  /\ (Before(v) \/ InTx(v) => writer[v].device \in Devices)'
                      /\ (Before(v) => /\ writer[v].kind # "delete" => writer[v].goal \in Rows
                                       /\ DOMAIN writer[v].pending = {})'
                      /\ (~writer[v].tx => DOMAIN writer[v].pending = {})'
                      /\ (writer[v].at = "update" => writer[v].rack \in Racks)'
    BY DEF Steps
  <2>1. CASE v = w
    <3>1. InTx(w) => writer[w].device \in Devices  BY DEF Locks, Steps
    <3>2. ~writer[w].tx => DOMAIN writer[w].pending = {}  BY DEF Locks, Steps
    <3> QED BY <1>2, <1>5, <1>7, <2>1, <3>1, <3>2
  <2>2. CASE v # w  BY <1>4, <1>7, <2>2 DEF Locks, Steps, Before
  <2> QED BY <2>1, <2>2
<1>u. \A v \in Writers : writer'[v].device = writer[v].device  BY <1>4, <1>5
<1>c. Exclusive'  BY <1>7, <1>u DEF Locks, Exclusive
<1>d. HoldsRow'  BY <1>1, <1>4, <1>5, <1>7 DEF Locks, HoldsRow
<1>e. OccupiedRight'  BY <1>1, <1>9 DEF Right, OccupiedRight
<1>f. UnitsRight'  BY <1>1, <1>4, <1>5, <1>9, <1>0 DEF Right, UnitsRight
<1>g. PendingRight'  BY <1>1, <1>4, <1>5, <1>7, <1>9 DEF Right, PendingRight
<1>h. AloneIsAlone'  BY <1>1, <1>4 DEF Alone, AloneIsAlone
<1>t. \A v \in alone : v = w  BY <1>1 DEF Alone, AloneIsAlone
<1>i. AloneReady'  BY <1>1, <1>5, <1>t DEF AloneReady
<1>j. AloneUnits'  BY <1>1, <1>5, <1>7, <1>s, <1>t DEF Alone, AloneUnits, list
<1>k. AloneTouched'  BY <1>1, <1>5, <1>7, <1>t DEF Alone, AloneTouched, rest
<1>l. AloneApart'  BY <1>1, <1>5, <1>7, <1>t DEF Alone, AloneApart
<1>m. PositionsApart'  BY <1>1 DEF PositionsApart
<1> QED BY <1>a, <1>b, <1>c, <1>d, <1>e, <1>f, <1>g, <1>h, <1>i, <1>j, <1>k, <1>l, <1>m
         DEF Locks, Right, Alone

\* And the rack is updated: outside a transaction, with what is committed by then
\* unless somebody is busy with the rack.
LEMMA UpdateRackInv ==
  ASSUME IInv, NEW w \in Writers, UpdateRack(w)
  PROVE  IInv'
<1> USE DEF IInv
<1> DEFINE me == writer[w]
           mine == me.rack
           list == me.units
           todo == IF me.todo = {} THEN me.again ELSE me.todo
           again == IF me.todo = {} THEN {} ELSE me.again
           pending == IF me.tx THEN Overlay([r \in {mine} |-> list], me.pending) ELSE me.pending
           new == [me EXCEPT !.at = "todo", !.rack = None, !.units = {}, !.todo = todo,
                             !.again = again, !.pending = pending]
<1>1. /\ UNCHANGED <<placed, faults, exact, raced, writes, alone>>
      /\ me.at = "update"
      /\ writer' = [writer EXCEPT ![w] = new]
      /\ occupied' = IF me.tx THEN occupied ELSE [occupied EXCEPT ![mine] = list]
  BY DEF UpdateRack, Goes
<1>2. me \in WriterType /\ mine \in Racks /\ list \in SUBSET Nat
  BY <1>1 DEF Typed, WriterType, Locks, Steps
<1>3. pending \in Lists
  <2>1. [r \in {mine} |-> list] \in Lists  BY <1>2, ListsTyped
  <2>2. me.pending \in Lists  BY <1>2 DEF WriterType
  <2> QED BY <2>1, <2>2, OverlayTyped
<1>4. /\ ~me.tx => pending = me.pending /\ DOMAIN pending = {}
      /\ me.tx => /\ DOMAIN pending = {mine} \cup DOMAIN me.pending
                  /\ \A r \in DOMAIN pending :
                       pending[r] = IF r = mine THEN list ELSE me.pending[r]
  <2>1. ~me.tx => DOMAIN me.pending = {}  BY DEF Locks, Steps
  <2>2. DOMAIN [r \in {mine} |-> list] = {mine} /\ [r \in {mine} |-> list][mine] = list
    OBVIOUS
  <2>3. CASE me.tx
    <3> DEFINE one == [r \in {mine} |-> list]
    <3>1. pending = Overlay(one, me.pending)  BY <2>3
    <3>2. /\ DOMAIN pending = DOMAIN one \cup DOMAIN me.pending
          /\ \A r \in DOMAIN pending : pending[r] = IF r \in DOMAIN one THEN one[r] ELSE me.pending[r]
      <4>1. \A b : /\ DOMAIN Overlay(one, b) = DOMAIN one \cup DOMAIN b
                   /\ \A r \in DOMAIN Overlay(one, b) :
                        Overlay(one, b)[r] = IF r \in DOMAIN one THEN one[r] ELSE b[r]
        BY OverlayAt
      <4> HIDE DEF pending, one
      <4> QED BY <3>1, <4>1
    <3> HIDE DEF pending
    <3> QED BY <2>2, <2>3, <3>2
  <2>4. CASE ~me.tx  BY <2>1, <2>4
  <2> QED BY <2>3, <2>4
<1>5. todo \in SUBSET Racks /\ again \in SUBSET Racks  BY <1>2 DEF WriterType
<1>6. \A r \in me.todo : r \in todo  OBVIOUS
<1> HIDE DEF pending, todo, again
<1>7. new \in WriterType /\ new.at = "todo" /\ new.todo = todo /\ new.pending = pending
      /\ new.touched = me.touched /\ new.device = me.device /\ new.kind = me.kind
      /\ new.goal = me.goal /\ new.tx = me.tx
  BY <1>2, <1>3, <1>5 DEF WriterType
<1> HIDE DEF new
<1>8. writer'[w] = new /\ \A v \in Writers \ {w} : writer'[v] = writer[v]
  BY <1>1 DEF Typed
<1>9. writer' \in [Writers -> WriterType] /\ occupied' \in [Racks -> SUBSET Nat]
  BY <1>1, <1>2, <1>7 DEF Typed
<1>p. ~Before(w) /\ ~Before(w)' /\ During(w)
      /\ \A v \in Writers : InTx(v)' = InTx(v) /\ During(v)' = During(v)
  BY <1>1, <1>7, <1>8 DEF InTx, During, Before
<1>q. \A r : Busy(r)' = Busy(r)  BY <1>7, <1>8, <1>p DEF Busy
<1>r. Settled' = Settled  BY <1>1, <1>q DEF Settled
<1>s. Seen(w)' = Seen(w)
  <2>1. writer'[w].device = me.device /\ writer'[w].goal = me.goal  BY <1>7, <1>8
  <2>2. InTx(w)' = InTx(w)  BY <1>p
  <2> QED BY <1>1, <2>1, <2>2 DEF Seen
<1>t. \A v \in alone : v = w  BY <1>1 DEF Alone, AloneIsAlone
<1>u. \A v \in Writers : writer'[v].device = writer[v].device  BY <1>7, <1>8
<1>a. Typed'  BY <1>1, <1>9 DEF Typed
<1>b. Steps'
  <2> SUFFICES ASSUME NEW v \in Writers
               PROVE  /\ (Before(v) \/ InTx(v) => writer[v].device \in Devices)'
                      /\ (Before(v) => /\ writer[v].kind # "delete" => writer[v].goal \in Rows
                                       /\ DOMAIN writer[v].pending = {})'
                      /\ (~writer[v].tx => DOMAIN writer[v].pending = {})'
                      /\ (writer[v].at = "update" => writer[v].rack \in Racks)'
    BY DEF Steps
  <2>1. CASE v = w
    <3>1. InTx(w) => me.device \in Devices  BY DEF Locks, Steps
    <3> QED BY <1>4, <1>7, <1>8, <1>p, <2>1, <3>1
  <2>2. CASE v # w  BY <1>8, <1>p, <2>2 DEF Locks, Steps, Before
  <2> QED BY <2>1, <2>2
<1>c. Exclusive'  BY <1>p, <1>u DEF Locks, Exclusive
<1>d. HoldsRow'  BY <1>1, <1>7, <1>8, <1>p DEF Locks, HoldsRow
<1>e. OccupiedRight'
  <2> SUFFICES ASSUME NEW r \in Settled PROVE occupied'[r] = Units(placed, r)
    BY <1>1, <1>r DEF OccupiedRight
  <2>1. CASE me.tx \/ r # mine  BY <1>1, <2>1 DEF Right, OccupiedRight, Typed
  <2>2. CASE ~me.tx /\ r = mine
    <3>1. r \notin me.touched  BY <1>p, <2>2 DEF Settled, Busy
    <3>2. list = Units(placed, r)  BY <1>1, <2>2, <3>1 DEF Right, UnitsRight
    <3> QED BY <1>1, <1>2, <2>2, <3>2 DEF Typed
  <2> QED BY <2>1, <2>2
<1>f. UnitsRight'  BY <1>1, <1>7, <1>8, <1>r DEF Right, UnitsRight
<1>g. PendingRight'
  <2> SUFFICES ASSUME NEW v \in Writers, InTx(v),
                      NEW r \in (DOMAIN writer'[v].pending) \cap (Settled \ writer'[v].touched)
               PROVE  writer'[v].pending[r] = Units(placed, r)
    BY <1>1, <1>p, <1>r DEF PendingRight
  <2>1. CASE v # w  BY <1>8, <2>1 DEF Right, PendingRight
  <2>2. CASE v = w
    <3>1. me.tx /\ r \notin me.touched /\ r \in DOMAIN pending  BY <1>7, <1>8, <2>2 DEF InTx
    <3>2. r = mine => list = Units(placed, r)  BY <1>1, <3>1 DEF Right, UnitsRight
    <3>3. r # mine => me.pending[r] = Units(placed, r)
      BY <1>4, <2>2, <3>1 DEF Right, PendingRight
    <3> QED BY <1>4, <1>7, <1>8, <2>2, <3>1, <3>2, <3>3
  <2> QED BY <2>1, <2>2
<1>h. AloneIsAlone'  BY <1>1, <1>8 DEF Alone, AloneIsAlone
<1>i. AloneReady'  BY <1>1, <1>7, <1>8, <1>t DEF AloneReady
<1>j. AloneUnits'
  <2> SUFFICES ASSUME w \in alone, InTx(w), NEW r \in DOMAIN pending
               PROVE  pending[r] = Units(Seen(w), r)
    BY <1>1, <1>7, <1>8, <1>p, <1>s, <1>t DEF AloneUnits
  <2>1. list = Units(Seen(w), mine)  BY <1>1 DEF Alone, AloneUnits
  <2>2. \A q \in DOMAIN me.pending : me.pending[q] = Units(Seen(w), q)  BY DEF Alone, AloneUnits
  <2> QED BY <1>4, <2>1, <2>2 DEF InTx
<1>k. AloneTouched'
  <2> SUFFICES ASSUME w \in alone, NEW r \in me.touched
               PROVE  \/ r \in todo
                      \/ IF me.tx THEN r \in DOMAIN pending ELSE occupied'[r] = Units(placed, r)
    BY <1>1, <1>7, <1>8, <1>t DEF AloneTouched
  <2>1. \/ r \in me.todo \/ r = mine
        \/ IF me.tx THEN r \in DOMAIN me.pending ELSE occupied[r] = Units(placed, r)
    BY <1>p DEF Alone, AloneTouched
  <2>2. list = Units(Seen(w), mine)  BY <1>1 DEF Alone, AloneUnits
  <2>3. ~me.tx => Seen(w) = placed  BY DEF Seen, InTx
  <2>4. CASE me.tx  BY <1>4, <1>6, <2>1, <2>4
  <2>5. CASE ~me.tx
    <3>1. occupied' = [occupied EXCEPT ![mine] = list]  BY <1>1, <2>5
    <3>2. r \in Racks  BY <1>2 DEF WriterType
    <3>3. occupied'[r] = IF r = mine THEN list ELSE occupied[r]  BY <3>1, <3>2 DEF Typed
    <3> QED BY <1>6, <2>1, <2>2, <2>3, <2>5, <3>3
  <2> QED BY <2>4, <2>5
<1>l. AloneApart'  BY <1>1, <1>7, <1>8, <1>p, <1>t DEF Alone, AloneApart
<1>m. PositionsApart'  BY <1>1 DEF PositionsApart
<1> QED BY <1>a, <1>b, <1>c, <1>d, <1>e, <1>f, <1>g, <1>h, <1>i, <1>j, <1>k, <1>l, <1>m
         DEF Locks, Right, Alone

\* A row that becomes visible is where no other is, or its rack is raced.
LEMMA RowApart ==
  ASSUME IInv, NEW w \in Writers, NEW d \in Devices, NEW row,
         writer[w].kind = "resize" => row.rack = placed[d].rack /\ row.at = placed[d].at,
         /\ w \in alone /\ writer[w].kind \notin {"api", "resize"}
         /\ writer[w].kind = "assign" => row.rack \in exact
         /\ row.rack # None /\ row.at # 0
         => \A e \in Devices \ {d} : ~(placed[e].rack = row.rack /\ placed[e].at = row.at)
  PROVE  LET rows == [placed EXCEPT ![d] = row] IN
         \A a, b \in Devices :
           /\ a # b /\ rows[a].rack = rows[b].rack /\ rows[a].at = rows[b].at
           /\ rows[a].rack # None /\ rows[a].at # 0
           => rows[a].rack \in Raced(w, row)
<1> DEFINE rows == [placed EXCEPT ![d] = row]
<1>1. rows[d] = row /\ \A e \in Devices \ {d} : rows[e] = placed[e]  BY DEF IInv, Typed
<1>2. raced \subseteq Raced(w, row)  BY DEF Raced
<1>3. \A a, b \in Devices :
        /\ a # b /\ placed[a].rack = placed[b].rack /\ placed[a].at = placed[b].at
        /\ placed[a].rack # None /\ placed[a].at # 0
        => placed[a].rack \in Raced(w, row)
  BY <1>2 DEF IInv, PositionsApart
<1> HIDE DEF rows
<1> SUFFICES ASSUME NEW e \in Devices \ {d}, rows[d].rack = rows[e].rack, rows[d].at = rows[e].at,
                    row.rack # None, row.at # 0
             PROVE  row.rack \in Raced(w, row)
  BY <1>1, <1>3 DEF rows
<1>4. placed[e].rack = row.rack /\ placed[e].at = row.at  BY <1>1
<1>5. CASE writer[w].kind = "resize"  BY <1>3, <1>4, <1>5
<1>6. CASE writer[w].kind # "resize"  BY <1>4, <1>6 DEF Raced
<1> QED BY <1>5, <1>6

\* The row is written to an open transaction, that nobody else sees.
LEMMA WriteRowInTxInv ==
  ASSUME IInv, NEW w \in Writers, WriteRow(w), writer[w].tx
  PROVE  IInv'
<1> USE DEF IInv
<1> DEFINE me == writer[w]
           d == me.device
           row == CASE me.kind = "delete" -> NoDevice
                    [] me.kind = "resize" -> [placed[d] EXCEPT !.size = me.goal.size]
                    [] OTHER -> me.goal
           touched == {placed[d].rack, row.rack} \ {None}
           new == [me EXCEPT !.at = "todo", !.goal = row, !.touched = touched]
<1>1. /\ UNCHANGED <<placed, occupied, faults, exact, raced, writes, alone>>
      /\ me.at = "ready" /\ ~DeviceLocked(w) /\ (me.kind = "resize" => Exists(d))
      /\ writer' = [writer EXCEPT ![w] = new]
  BY DEF WriteRow, Goes
<1>2. me \in WriterType /\ d \in Devices /\ DOMAIN me.pending = {} /\ me.tx
      /\ (me.kind # "delete" => me.goal \in Rows)
  BY <1>1 DEF Typed, Locks, Steps, Before
<1>3. /\ row \in Rows \cup {NoDevice}
      /\ me.kind = "resize" => row.rack = placed[d].rack /\ row.at = placed[d].at
      /\ me.kind = "delete" => row = NoDevice
      /\ me.kind \notin {"delete", "resize"} => row = me.goal
  <2>1. CASE me.kind = "delete"  BY <2>1
  <2>2. CASE me.kind = "resize"
    <3>1. placed[d] \in Rows  BY <1>1, <1>2, <2>2 DEF Typed, Exists
    <3>2. row = [placed[d] EXCEPT !.size = me.goal.size] /\ me.goal \in Rows  BY <1>2, <2>2
    <3> QED BY <2>2, <3>1, <3>2 DEF Rows
  <2>3. CASE me.kind \notin {"delete", "resize"}  BY <1>2, <2>3
  <2> QED BY <2>1, <2>2, <2>3
<1> HIDE DEF row
<1>4. touched \in SUBSET Racks
  <2>1. placed[d].rack \in Racks \cup {None}  BY <1>2, RowTyped DEF Typed
  <2>2. row.rack \in Racks \cup {None}  BY <1>3, RowTyped
  <2> QED BY <2>1, <2>2
<1>5. {placed[d].rack, row.rack} \subseteq touched \cup {None}  OBVIOUS
<1>6. w \in alone => touched \subseteq me.todo
  <2>1. w \in alone => {placed[d].rack} \cup (IF me.kind \in {"delete", "resize"} THEN {} ELSE {me.goal.rack})
                       \subseteq me.todo \cup {None}
    BY <1>1 DEF Alone, AloneReady
  <2>2. me.kind = "delete" => row.rack = None  BY <1>3 DEF NoDevice
  <2> QED BY <1>3, <2>1, <2>2
<1> HIDE DEF touched
<1>7. new \in WriterType /\ new.at = "todo" /\ new.goal = row /\ new.touched = touched
      /\ new.todo = me.todo /\ new.pending = me.pending /\ new.device = d
      /\ new.kind = me.kind /\ new.tx
  BY <1>2, <1>3, <1>4 DEF WriterType
<1> HIDE DEF new
<1>8. writer'[w] = new /\ \A v \in Writers \ {w} : writer'[v] = writer[v]
  BY <1>1 DEF Typed
<1>9. writer' \in [Writers -> WriterType]  BY <1>1, <1>7 DEF Typed
<1>p. ~InTx(w) /\ InTx(w)' /\ ~Before(w)' /\ Before(w)
      /\ \A v \in Writers \ {w} : InTx(v)' = InTx(v) /\ Before(v)' = Before(v)
  BY <1>1, <1>7, <1>8 DEF InTx, Before
<1>q. \A r : Busy(r)' = Busy(r)  BY <1>2, <1>7, <1>8 DEF Busy, During
<1>r. Settled' = Settled  BY <1>1, <1>q DEF Settled
<1>t. \A v \in alone : v = w  BY <1>1 DEF Alone, AloneIsAlone
<1>u. \A v \in Writers : writer'[v].device = writer[v].device  BY <1>7, <1>8
<1>a. Typed'  BY <1>1, <1>9 DEF Typed
<1>b. Steps'
  <2> SUFFICES ASSUME NEW v \in Writers
               PROVE  /\ (Before(v) \/ InTx(v) => writer[v].device \in Devices)'
                      /\ (Before(v) => /\ writer[v].kind # "delete" => writer[v].goal \in Rows
                                       /\ DOMAIN writer[v].pending = {})'
                      /\ (~writer[v].tx => DOMAIN writer[v].pending = {})'
                      /\ (writer[v].at = "update" => writer[v].rack \in Racks)'
    BY DEF Steps
  <2>1. CASE v = w  BY <1>2, <1>7, <1>8, <1>p, <2>1
  <2>2. CASE v # w  BY <1>8, <1>p, <2>2 DEF Locks, Steps
  <2> QED BY <2>1, <2>2
<1>c. Exclusive'
  <2>1. \A v \in Writers \ {w} : InTx(v) => writer[v].device # d  BY <1>1 DEF DeviceLocked
  <2> QED BY <1>p, <1>u, <2>1 DEF Locks, Exclusive
<1>d. HoldsRow'
  <2> SUFFICES ASSUME NEW v \in Writers, InTx(v)'
               PROVE  /\ {placed[writer'[v].device].rack, writer'[v].goal.rack}
                           \subseteq writer'[v].touched \cup {None}
                      /\ writer'[v].kind = "resize" =>
                           /\ writer'[v].goal.rack = placed[writer'[v].device].rack
                           /\ writer'[v].goal.at = placed[writer'[v].device].at
                      /\ writer'[v].kind = "delete" => writer'[v].goal.rack = None
    BY <1>1 DEF HoldsRow
  <2>1. CASE v = w  BY <1>3, <1>5, <1>7, <1>8, <2>1 DEF NoDevice
  <2>2. CASE v # w  BY <1>8, <1>p, <2>2 DEF Locks, HoldsRow
  <2> QED BY <2>1, <2>2
<1>e. OccupiedRight'  BY <1>1, <1>r DEF Right, OccupiedRight
<1>f. UnitsRight'  BY <1>1, <1>7, <1>8, <1>r DEF Right, UnitsRight
<1>g. PendingRight'  BY <1>1, <1>2, <1>7, <1>8, <1>p, <1>r DEF Right, PendingRight
<1>h. AloneIsAlone'  BY <1>1, <1>8 DEF Alone, AloneIsAlone
<1>i. AloneReady'  BY <1>1, <1>7, <1>8, <1>t DEF AloneReady
<1>j. AloneUnits'  BY <1>1, <1>2, <1>7, <1>8, <1>t DEF AloneUnits
<1>k. AloneTouched'  BY <1>1, <1>6, <1>7, <1>8, <1>t DEF AloneTouched
<1>l. AloneApart'
  <2> SUFFICES ASSUME w \in alone,
                      me.kind = "save" \/ (me.kind = "assign" /\ row.rack \in exact),
                      row.rack # None, row.at # 0, NEW e \in Devices \ {d}
               PROVE  ~(placed[e].rack = row.rack /\ placed[e].at = row.at)
    BY <1>1, <1>7, <1>8, <1>t DEF AloneApart
  <2>1. row = me.goal  BY <1>3
  <2> QED BY <1>p, <2>1 DEF Alone, AloneApart
<1>m. PositionsApart'  BY <1>1 DEF PositionsApart
<1> QED BY <1>a, <1>b, <1>c, <1>d, <1>e, <1>f, <1>g, <1>h, <1>i, <1>j, <1>k, <1>l, <1>m
         DEF Locks, Right, Alone

\* The row is committed as it is written: its racks are busy until their lists are.
LEMMA WriteRowInv ==
  ASSUME IInv, NEW w \in Writers, WriteRow(w), ~writer[w].tx
  PROVE  IInv'
<1> USE DEF IInv
<1> DEFINE me == writer[w]
           d == me.device
           row == CASE me.kind = "delete" -> NoDevice
                    [] me.kind = "resize" -> [placed[d] EXCEPT !.size = me.goal.size]
                    [] OTHER -> me.goal
           touched == {placed[d].rack, row.rack} \ {None}
           todo == me.todo
           new == [Idle EXCEPT !.at = "todo", !.todo = todo, !.touched = touched]
<1>1. /\ UNCHANGED <<occupied, faults, exact, writes, alone>>
      /\ me.at = "ready" /\ ~DeviceLocked(w) /\ (me.kind = "resize" => Exists(d))
      /\ writer' = [writer EXCEPT ![w] = new]
      /\ placed' = [placed EXCEPT ![d] = row] /\ raced' = Raced(w, row)
  BY DEF WriteRow, Goes
<1>2. me \in WriterType /\ d \in Devices /\ (me.kind # "delete" => me.goal \in Rows)
  BY <1>1 DEF Typed, Locks, Steps, Before
<1>3. /\ row \in Rows \cup {NoDevice}
      /\ me.kind = "resize" => row.rack = placed[d].rack /\ row.at = placed[d].at
      /\ me.kind = "delete" => row = NoDevice
      /\ me.kind \notin {"delete", "resize"} => row = me.goal
  <2>1. CASE me.kind = "delete"  BY <2>1
  <2>2. CASE me.kind = "resize"
    <3>1. placed[d] \in Rows  BY <1>1, <1>2, <2>2 DEF Typed, Exists
    <3>2. row = [placed[d] EXCEPT !.size = me.goal.size] /\ me.goal \in Rows  BY <1>2, <2>2
    <3> QED BY <2>2, <3>1, <3>2 DEF Rows
  <2>3. CASE me.kind \notin {"delete", "resize"}  BY <1>2, <2>3
  <2> QED BY <2>1, <2>2, <2>3
<1> HIDE DEF row
<1>4. touched \in SUBSET Racks /\ todo \in SUBSET Racks
  <2>1. placed[d].rack \in Racks \cup {None}  BY <1>2, RowTyped DEF Typed
  <2>2. row.rack \in Racks \cup {None}  BY <1>3, RowTyped
  <2> QED BY <1>2, <2>1, <2>2 DEF WriterType
<1>5. {placed[d].rack, row.rack} \subseteq touched \cup {None}  OBVIOUS
<1>6. w \in alone => touched \subseteq todo
  <2>1. w \in alone => {placed[d].rack} \cup (IF me.kind \in {"delete", "resize"} THEN {} ELSE {me.goal.rack})
                       \subseteq me.todo \cup {None}
    BY <1>1 DEF Alone, AloneReady
  <2>2. me.kind = "delete" => row.rack = None  BY <1>3 DEF NoDevice
  <2> QED BY <1>3, <2>1, <2>2
<1> HIDE DEF touched, todo
<1>7. new \in WriterType /\ new.at = "todo" /\ new.touched = touched /\ new.todo = todo
      /\ DOMAIN new.pending = {} /\ new.tx = FALSE
  BY <1>4, IdleTyped DEF WriterType, Idle
<1> HIDE DEF new
<1>8. writer'[w] = new /\ \A v \in Writers \ {w} : writer'[v] = writer[v]
  BY <1>1 DEF Typed
<1>9. writer' \in [Writers -> WriterType]  BY <1>1, <1>7 DEF Typed
<1>p. ~InTx(w) /\ ~InTx(w)' /\ ~Before(w)' /\ Before(w) /\ ~During(w) /\ During(w)'
      /\ \A v \in Writers \ {w} : InTx(v)' = InTx(v) /\ Before(v)' = Before(v) /\ During(v)' = During(v)
  BY <1>1, <1>7, <1>8 DEF InTx, Before, During
<1>q. \A r : Busy(r)' <=> Busy(r) \/ r \in touched  BY <1>7, <1>8, <1>p DEF Busy
<1>r. Settled' = Settled \ touched  BY <1>1, <1>q DEF Settled
<1>s. placed'[d] = row /\ \A e \in Devices \ {d} : placed'[e] = placed[e]
  BY <1>1, <1>2 DEF Typed
<1>t. \A v \in alone : v = w  BY <1>1 DEF Alone, AloneIsAlone
<1>u. \A r \in Settled' : Units(placed', r) = Units(placed, r)
  <2> SUFFICES ASSUME NEW r \in Settled' PROVE Units(placed', r) = Units(placed, r)
    OBVIOUS
  <2>1. r \in Racks /\ r # None  BY <1>r, NoneAssumption DEF Settled, Typed
  <2>2. placed[d].rack # r /\ row.rack # r  BY <1>5, <1>r, <2>1
  <2>3. \A e \in Devices : placed'[e].rack = r \/ placed[e].rack = r => placed'[e] = placed[e]
    BY <1>s, <2>2
  <2> QED BY <2>3, SameUnits
<1>v. \A v \in Writers \ {w} : InTx(v) => writer[v].device \in Devices \ {d}
  BY <1>1 DEF DeviceLocked, Locks, Steps
<1>a. Typed'
  <2>1. placed' \in [Devices -> Rows \cup {NoDevice}]  BY <1>1, <1>3 DEF Typed
  <2>2. raced' \subseteq Racks
    <3>1. row.rack \in Racks \cup {None}  BY <1>3, RowTyped
    <3> QED BY <1>1, <3>1 DEF Raced, Typed
  <2> QED BY <1>1, <1>9, <2>1, <2>2 DEF Typed
<1>b. Steps'
  <2> SUFFICES ASSUME NEW v \in Writers
               PROVE  /\ (Before(v) \/ InTx(v) => writer[v].device \in Devices)'
                      /\ (Before(v) => /\ writer[v].kind # "delete" => writer[v].goal \in Rows
                                       /\ DOMAIN writer[v].pending = {})'
                      /\ (~writer[v].tx => DOMAIN writer[v].pending = {})'
                      /\ (writer[v].at = "update" => writer[v].rack \in Racks)'
    BY DEF Steps
  <2>1. CASE v = w  BY <1>7, <1>8, <1>p, <2>1
  <2>2. CASE v # w  BY <1>8, <1>p, <2>2 DEF Locks, Steps
  <2> QED BY <2>1, <2>2
<1>c. Exclusive'  BY <1>8, <1>p DEF Locks, Exclusive
<1>d. HoldsRow'
  <2> SUFFICES ASSUME NEW v \in Writers, InTx(v)'
               PROVE  /\ {placed'[writer'[v].device].rack, writer'[v].goal.rack}
                           \subseteq writer'[v].touched \cup {None}
                      /\ writer'[v].kind = "resize" =>
                           /\ writer'[v].goal.rack = placed'[writer'[v].device].rack
                           /\ writer'[v].goal.at = placed'[writer'[v].device].at
                      /\ writer'[v].kind = "delete" => writer'[v].goal.rack = None
    BY DEF HoldsRow
  <2>1. v # w /\ InTx(v) /\ writer'[v] = writer[v]  BY <1>8, <1>p
  <2>2. placed'[writer[v].device] = placed[writer[v].device]  BY <1>s, <1>v, <2>1
  <2> QED BY <2>1, <2>2 DEF Locks, HoldsRow
<1>e. OccupiedRight'  BY <1>1, <1>r, <1>u DEF Right, OccupiedRight
<1>f. UnitsRight'
  <2> SUFFICES ASSUME NEW v \in Writers, writer'[v].at = "update",
                      writer'[v].rack \in Settled' \ writer'[v].touched
               PROVE  writer'[v].units = Units(placed', writer'[v].rack)
    BY DEF UnitsRight
  <2>1. v # w /\ writer'[v] = writer[v]  BY <1>7, <1>8
  <2>2. writer[v].units = Units(placed, writer[v].rack)  BY <1>r, <2>1 DEF Right, UnitsRight
  <2> QED BY <1>u, <2>1, <2>2
<1>g. PendingRight'
  <2> SUFFICES ASSUME NEW v \in Writers, InTx(v)',
                      NEW r \in (DOMAIN writer'[v].pending) \cap (Settled' \ writer'[v].touched)
               PROVE  writer'[v].pending[r] = Units(placed', r)
    BY DEF PendingRight
  <2>1. v # w /\ InTx(v) /\ writer'[v] = writer[v]  BY <1>8, <1>p
  <2> QED BY <1>r, <1>u, <2>1 DEF Right, PendingRight
<1>h. AloneIsAlone'  BY <1>1, <1>8 DEF Alone, AloneIsAlone
<1>i. AloneReady'  BY <1>1, <1>7, <1>8, <1>t DEF AloneReady
<1>j. AloneUnits'  BY <1>1, <1>7, <1>8, <1>p, <1>t DEF AloneUnits
<1>k. AloneTouched'  BY <1>1, <1>6, <1>7, <1>8, <1>t DEF AloneTouched
<1>l. AloneApart'  BY <1>1, <1>p, <1>t DEF AloneApart
<1>m. PositionsApart'
  <2>1. /\ w \in alone /\ me.kind \notin {"api", "resize"}
        /\ me.kind = "assign" => row.rack \in exact
        /\ row.rack # None /\ row.at # 0
        => \A e \in Devices \ {d} : ~(placed[e].rack = row.rack /\ placed[e].at = row.at)
    <3>1. me.kind = "delete" => row.rack = None  BY <1>3 DEF NoDevice
    <3>2. me.kind \in {"save", "api", "assign", "resize", "delete"}  BY <1>2 DEF WriterType
    <3> QED BY <1>3, <1>p, <3>1, <3>2 DEF Alone, AloneApart
  <2> QED BY <1>1, <1>2, <1>3, <2>1, RowApart DEF PositionsApart
<1> QED BY <1>a, <1>b, <1>c, <1>d, <1>e, <1>f, <1>g, <1>h, <1>i, <1>j, <1>k, <1>l, <1>m
         DEF Locks, Right, Alone

\* A transaction commits its row and its lists.
LEMMA CommitInv ==
  ASSUME IInv, NEW w \in Writers, Finish(w), writer[w].tx
  PROVE  IInv'
<1> USE DEF IInv
<1> DEFINE me == writer[w]
           d == me.device
           row == me.goal
           touched == me.touched
<1>1. /\ UNCHANGED <<writes, faults>>
      /\ me.at = "todo" /\ me.todo = {} /\ me.tx
      /\ placed' = Seen(w) /\ occupied' = Overlay(me.pending, occupied)
      /\ writer' = [writer EXCEPT ![w] = Idle] /\ alone' = {}
      /\ exact' = IF w \in alone THEN exact \cup touched ELSE exact \ touched
      /\ raced' = Raced(w, row)
  BY DEF Finish
<1>2. InTx(w) /\ me \in WriterType /\ d \in Devices
  BY <1>1 DEF InTx, Typed, Locks, Steps
<1>3. placed' = [placed EXCEPT ![d] = row]  BY <1>1, <1>2 DEF Seen
<1>4. /\ {placed[d].rack, row.rack} \subseteq touched \cup {None}
      /\ me.kind = "resize" => row.rack = placed[d].rack /\ row.at = placed[d].at
  BY <1>2 DEF Locks, HoldsRow
<1>5. DOMAIN me.pending \subseteq Racks /\ \A r \in DOMAIN me.pending : me.pending[r] \in SUBSET Nat
  BY <1>2, ListsTyped DEF WriterType
<1>6. DOMAIN occupied' = Racks
      /\ \A r \in Racks : occupied'[r] = IF r \in DOMAIN me.pending THEN me.pending[r] ELSE occupied[r]
  <2>1. DOMAIN occupied = Racks  BY DEF Typed
  <2>2. occupied' = [r \in Racks |-> IF r \in DOMAIN me.pending THEN me.pending[r] ELSE occupied[r]]
    BY <1>1, <1>5, <2>1 DEF Overlay
  <2> QED BY <2>2
<1>7. writer'[w] = Idle /\ \A v \in Writers \ {w} : writer'[v] = writer[v]
  BY <1>1 DEF Typed
<1>8. Idle.at = "idle" /\ Idle \in WriterType /\ DOMAIN Idle.pending = {}  BY IdleTyped DEF Idle
<1>9. writer' \in [Writers -> WriterType]  BY <1>1, <1>8 DEF Typed
<1>p. ~InTx(w)' /\ ~Before(w)' /\ ~During(w)'
      /\ \A v \in Writers \ {w} : InTx(v)' = InTx(v) /\ Before(v)' = Before(v) /\ During(v)' = During(v)
  BY <1>7, <1>8 DEF InTx, Before, During
<1>q. \A r : Busy(r)' = Busy(r)  BY <1>1, <1>7, <1>p DEF Busy
<1>s. placed'[d] = row /\ \A e \in Devices \ {d} : placed'[e] = placed[e]
  BY <1>2, <1>3 DEF Typed
<1>t. touched \subseteq Racks  BY <1>2 DEF WriterType
<1>u. \A r \in Racks \ touched : Units(placed', r) = Units(placed, r)
  <2> SUFFICES ASSUME NEW r \in Racks \ touched PROVE Units(placed', r) = Units(placed, r)
    OBVIOUS
  <2>1. placed[d].rack # r /\ row.rack # r  BY <1>4, NoneAssumption
  <2>2. \A e \in Devices : placed'[e].rack = r \/ placed[e].rack = r => placed'[e] = placed[e]
    BY <1>s, <2>1
  <2> QED BY <2>2, SameUnits
<1>v. \A v \in Writers \ {w} : InTx(v) => writer[v].device \in Devices \ {d}
  BY <1>2 DEF Locks, Steps, Exclusive
<1>w. w \in alone => \A v \in Writers \ {w} : writer[v].at = "idle"  BY DEF Alone, AloneIsAlone
<1>x. w \notin alone => Settled' = Settled \ touched /\ Settled \subseteq Racks
  BY <1>1, <1>q DEF Settled, Typed
<1>a. Typed'
  <2>1. placed' \in [Devices -> Rows \cup {NoDevice}]  BY <1>1, SeenTyped
  <2>2. occupied' \in [Racks -> SUBSET Nat]
    <3>1. occupied' = [r \in Racks |-> occupied'[r]]  BY <1>1, <1>6 DEF Overlay
    <3>2. \A r \in Racks : occupied'[r] \in SUBSET Nat  BY <1>5, <1>6 DEF Typed
    <3> QED BY <3>1, <3>2
  <2>3. raced' \subseteq Racks
    <3>1. row.rack \in Racks \cup {None}  BY <1>2, RowTyped DEF WriterType
    <3> QED BY <1>1, <3>1 DEF Raced, Typed
  <2>4. exact' \subseteq Racks  BY <1>1, <1>t DEF Typed
  <2> QED BY <1>1, <1>9, <2>1, <2>2, <2>3, <2>4 DEF Typed
<1>b. Steps'
  <2> SUFFICES ASSUME NEW v \in Writers
               PROVE  /\ (Before(v) \/ InTx(v) => writer[v].device \in Devices)'
                      /\ (Before(v) => /\ writer[v].kind # "delete" => writer[v].goal \in Rows
                                       /\ DOMAIN writer[v].pending = {})'
                      /\ (~writer[v].tx => DOMAIN writer[v].pending = {})'
                      /\ (writer[v].at = "update" => writer[v].rack \in Racks)'
    BY DEF Steps
  <2>1. CASE v = w  BY <1>7, <1>8, <1>p, <2>1
  <2>2. CASE v # w  BY <1>7, <1>p, <2>2 DEF Locks, Steps
  <2> QED BY <2>1, <2>2
<1>c. Exclusive'  BY <1>7, <1>p DEF Locks, Exclusive
<1>d. HoldsRow'
  <2> SUFFICES ASSUME NEW v \in Writers, InTx(v)'
               PROVE  /\ {placed'[writer'[v].device].rack, writer'[v].goal.rack}
                           \subseteq writer'[v].touched \cup {None}
                      /\ writer'[v].kind = "resize" =>
                           /\ writer'[v].goal.rack = placed'[writer'[v].device].rack
                           /\ writer'[v].goal.at = placed'[writer'[v].device].at
                      /\ writer'[v].kind = "delete" => writer'[v].goal.rack = None
    BY DEF HoldsRow
  <2>1. v # w /\ InTx(v) /\ writer'[v] = writer[v]  BY <1>7, <1>p
  <2>2. placed'[writer[v].device] = placed[writer[v].device]  BY <1>s, <1>v, <2>1
  <2> QED BY <2>1, <2>2 DEF Locks, HoldsRow
<1>e. OccupiedRight'
  <2> SUFFICES ASSUME NEW r \in Settled' PROVE occupied'[r] = Units(placed', r)
    BY DEF OccupiedRight
  <2>1. r \in exact' /\ ~Busy(r) /\ r \in Racks  BY <1>a, <1>q DEF Settled, Typed
  <2>2. CASE w \notin alone
    <3>1. r \in Settled /\ r \notin touched  BY <1>x, <2>2
    <3>2. r \in DOMAIN me.pending => me.pending[r] = Units(placed, r)
      BY <1>2, <3>1 DEF Right, PendingRight
    <3>3. occupied[r] = Units(placed, r)  BY <3>1 DEF Right, OccupiedRight
    <3> QED BY <1>6, <1>u, <2>1, <3>1, <3>2, <3>3
  <2>3. CASE w \in alone
    <3>1. \A q \in DOMAIN me.pending : me.pending[q] = Units(placed', q)
      BY <1>1, <1>2, <2>3 DEF Alone, AloneUnits
    <3>2. CASE r \in DOMAIN me.pending  BY <1>6, <2>1, <3>1, <3>2
    <3>3. CASE r \notin DOMAIN me.pending
      <4>1. r \notin touched  BY <1>1, <2>3, <3>3 DEF Alone, AloneTouched, During
      <4>2. r \in Settled  BY <1>1, <2>1, <2>3, <4>1 DEF Settled
      <4>3. occupied[r] = Units(placed, r)  BY <4>2 DEF Right, OccupiedRight
      <4> QED BY <1>6, <1>u, <2>1, <3>3, <4>1, <4>3
    <3> QED BY <3>2, <3>3
  <2> QED BY <2>2, <2>3
<1>f. UnitsRight'
  <2> SUFFICES ASSUME NEW v \in Writers, writer'[v].at = "update",
                      writer'[v].rack \in Settled' \ writer'[v].touched
               PROVE  writer'[v].units = Units(placed', writer'[v].rack)
    BY DEF UnitsRight
  <2>1. v # w /\ writer'[v] = writer[v]  BY <1>7, <1>8
  <2>2. w \notin alone  BY <1>w, <2>1
  <2>3. writer[v].units = Units(placed, writer[v].rack)
    BY <1>x, <2>1, <2>2 DEF Right, UnitsRight
  <2> QED BY <1>u, <1>x, <2>1, <2>2, <2>3
<1>g. PendingRight'
  <2> SUFFICES ASSUME NEW v \in Writers, InTx(v)',
                      NEW r \in (DOMAIN writer'[v].pending) \cap (Settled' \ writer'[v].touched)
               PROVE  writer'[v].pending[r] = Units(placed', r)
    BY DEF PendingRight
  <2>1. v # w /\ InTx(v) /\ writer'[v] = writer[v]  BY <1>7, <1>p
  <2>2. w \notin alone  BY <1>w, <2>1 DEF InTx
  <2>3. writer[v].pending[r] = Units(placed, r)  BY <1>x, <2>1, <2>2 DEF Right, PendingRight
  <2> QED BY <1>u, <1>x, <2>1, <2>2, <2>3
<1>h. Alone'  BY <1>1 DEF Alone, AloneIsAlone, AloneReady, AloneUnits, AloneTouched, AloneApart
<1>m. PositionsApart'
  <2>1. /\ w \in alone /\ me.kind \notin {"api", "resize"}
        /\ me.kind = "assign" => row.rack \in exact
        /\ row.rack # None /\ row.at # 0
        => \A e \in Devices \ {d} : ~(placed[e].rack = row.rack /\ placed[e].at = row.at)
    <3>1. me.kind \in {"save", "api", "assign", "resize", "delete"}  BY <1>2 DEF WriterType
    <3>2. me.kind = "delete" => row.rack = None  BY <1>2 DEF Locks, HoldsRow
    <3> QED BY <1>2, <3>1, <3>2 DEF Alone, AloneApart
  <2> QED BY <1>1, <1>2, <1>3, <1>4, <2>1, RowApart DEF PositionsApart
<1> QED BY <1>a, <1>b, <1>c, <1>d, <1>e, <1>f, <1>g, <1>h, <1>m DEF Locks, Right

\* A writer whose list is stored, or which stops and leaves its racks, ends.
LEMMA EndsInv ==
  ASSUME IInv, NEW w \in Writers, UNCHANGED <<placed, occupied, raced>>,
         writes' \in 0..MaxWrites, faults' \in 0..MaxFaults,
         writer' = [writer EXCEPT ![w] = Idle], alone' = {},
         exact' \in SUBSET Racks,
         \A r \in exact' : \/ occupied[r] = Units(placed, r) /\ w \in alone
                           \/ r \in exact /\ (writer[w].tx \/ r \notin writer[w].touched)
  PROVE  IInv'
<1> USE DEF IInv
<1>1. writer'[w] = Idle /\ \A v \in Writers \ {w} : writer'[v] = writer[v]
  BY DEF Typed
<1>2. Idle.at = "idle" /\ Idle \in WriterType /\ DOMAIN Idle.pending = {}  BY IdleTyped DEF Idle
<1>3. writer' \in [Writers -> WriterType]  BY <1>2 DEF Typed
<1>4. ~InTx(w)' /\ ~Before(w)' /\ ~During(w)'
      /\ \A v \in Writers \ {w} : InTx(v)' = InTx(v) /\ Before(v)' = Before(v) /\ During(v)' = During(v)
  BY <1>1, <1>2 DEF InTx, Before, During
<1>5. \A r \in Settled' : (occupied[r] = Units(placed, r) /\ w \in alone) \/ r \in Settled
  <2> SUFFICES ASSUME NEW r \in exact', ~Busy(r)', r \in exact,
                      writer[w].tx \/ r \notin writer[w].touched
               PROVE  r \in Settled
    BY DEF Settled
  <2>1. ~Busy(r)  BY <1>1, <1>4 DEF Busy
  <2> QED BY <2>1 DEF Settled
<1>6. w \in alone => \A v \in Writers \ {w} : writer[v].at = "idle"  BY DEF Alone, AloneIsAlone
<1>7. \A v \in Writers \ {w} : writer[v].at # "idle" => Settled' \subseteq Settled
  BY <1>5, <1>6
<1>a. Typed'  BY <1>3 DEF Typed
<1>b. Steps'
  <2> SUFFICES ASSUME NEW v \in Writers
               PROVE  /\ (Before(v) \/ InTx(v) => writer[v].device \in Devices)'
                      /\ (Before(v) => /\ writer[v].kind # "delete" => writer[v].goal \in Rows
                                       /\ DOMAIN writer[v].pending = {})'
                      /\ (~writer[v].tx => DOMAIN writer[v].pending = {})'
                      /\ (writer[v].at = "update" => writer[v].rack \in Racks)'
    BY DEF Steps
  <2>1. CASE v = w  BY <1>1, <1>2, <1>4, <2>1
  <2>2. CASE v # w  BY <1>1, <1>4, <2>2 DEF Locks, Steps
  <2> QED BY <2>1, <2>2
<1>c. Exclusive'  BY <1>1, <1>4 DEF Locks, Exclusive
<1>d. HoldsRow'  BY <1>1, <1>4 DEF Locks, HoldsRow
<1>e. OccupiedRight'  BY <1>5 DEF Right, OccupiedRight
<1>f. UnitsRight'
  <2> SUFFICES ASSUME NEW v \in Writers, writer'[v].at = "update",
                      writer'[v].rack \in Settled' \ writer'[v].touched
               PROVE  writer'[v].units = Units(placed, writer'[v].rack)
    BY DEF UnitsRight
  <2>1. v # w /\ writer'[v] = writer[v]  BY <1>1, <1>2
  <2>2. writer[v].rack \in Settled  BY <1>7, <2>1
  <2> QED BY <2>1, <2>2 DEF Right, UnitsRight
<1>g. PendingRight'
  <2> SUFFICES ASSUME NEW v \in Writers, InTx(v)',
                      NEW r \in (DOMAIN writer'[v].pending) \cap (Settled' \ writer'[v].touched)
               PROVE  writer'[v].pending[r] = Units(placed, r)
    BY DEF PendingRight
  <2>1. v # w /\ InTx(v) /\ writer'[v] = writer[v]  BY <1>1, <1>4
  <2>2. r \in Settled  BY <1>7, <2>1 DEF InTx
  <2> QED BY <2>1, <2>2 DEF Right, PendingRight
<1>h. Alone'  BY DEF Alone, AloneIsAlone, AloneReady, AloneUnits, AloneTouched, AloneApart
<1>m. PositionsApart'  BY DEF PositionsApart
<1> QED BY <1>a, <1>b, <1>c, <1>d, <1>e, <1>f, <1>g, <1>h, <1>m DEF Locks, Right

\* Without a transaction all is stored already; alone, the writer leaves its
\* racks with the lists they should have.
LEMMA FinishInv ==
  ASSUME IInv, NEW w \in Writers, Finish(w), ~writer[w].tx
  PROVE  IInv'
<1> DEFINE me == writer[w]
<1>1. /\ UNCHANGED <<writes, faults, raced>>
      /\ me.at = "todo" /\ me.todo = {}
      /\ placed' = Seen(w) /\ occupied' = Overlay(me.pending, occupied)
      /\ writer' = [writer EXCEPT ![w] = Idle] /\ alone' = {}
      /\ exact' = IF w \in alone THEN exact \cup me.touched ELSE exact \ me.touched
  BY DEF Finish
<1>2. placed' = placed  BY <1>1 DEF Seen, InTx
<1>3. DOMAIN me.pending = {} /\ DOMAIN occupied = Racks  BY DEF IInv, Typed, Locks, Steps
<1>4. occupied' = occupied
  <2>1. occupied' = [r \in Racks |-> occupied[r]]  BY <1>1, <1>3 DEF Overlay
  <2>2. occupied = [r \in Racks |-> occupied[r]]  BY DEF IInv, Typed
  <2> QED BY <2>1, <2>2
<1>5. me.touched \subseteq Racks /\ exact \subseteq Racks  BY DEF IInv, Typed, WriterType
<1>6. w \in alone => \A r \in me.touched : occupied[r] = Units(placed, r)
  BY <1>1 DEF IInv, Alone, AloneTouched, During
<1>7. exact' \in SUBSET Racks  BY <1>1, <1>5
<1>8. \A r \in exact' : \/ occupied[r] = Units(placed, r) /\ w \in alone
                        \/ r \in exact /\ r \notin me.touched
  BY <1>1, <1>6
<1>9. writes' \in 0..MaxWrites /\ faults' \in 0..MaxFaults  BY <1>1 DEF IInv, Typed
<1> QED BY <1>1, <1>2, <1>4, <1>7, <1>8, <1>9, EndsInv

\* A writer that stops without a transaction leaves lists that need not be exact.
LEMMA StopsInv ==
  ASSUME IInv, NEW w \in Writers, Stops(w)
  PROVE  IInv'
<1>1. /\ UNCHANGED <<placed, occupied, writes, raced>>
      /\ faults < MaxFaults /\ faults' = faults + 1
      /\ writer' = [writer EXCEPT ![w] = Idle] /\ alone' = {}
      /\ exact' = IF writer[w].tx THEN exact ELSE exact \ writer[w].touched
  BY DEF Stops, Ends
<1>2. faults' \in 0..MaxFaults /\ writes' \in 0..MaxWrites
  BY <1>1, BoundsAssumption DEF IInv, Typed
<1>3. exact' \in SUBSET Racks /\ \A r \in exact' : r \in exact /\ (writer[w].tx \/ r \notin writer[w].touched)
  BY <1>1 DEF IInv, Typed
<1> QED BY <1>1, <1>2, <1>3, EndsInv

\* An exception before anything is written, or a deadlock of transactions.
LEMMA RaisesInv ==
  ASSUME IInv, NEW w \in Writers, Raises(w)
  PROVE  IInv'
<1>1. /\ UNCHANGED <<placed, occupied, writes, raced, faults>>
      /\ writer' = [writer EXCEPT ![w] = Idle] /\ alone' = {}
      /\ exact' = IF writer[w].tx THEN exact ELSE exact \ writer[w].touched
  BY DEF Raises, Ends, WaitsFor
<1>2. faults' \in 0..MaxFaults /\ writes' \in 0..MaxWrites  BY <1>1 DEF IInv, Typed
<1>3. exact' \in SUBSET Racks /\ \A r \in exact' : r \in exact /\ (writer[w].tx \/ r \notin writer[w].touched)
  BY <1>1 DEF IInv, Typed
<1> QED BY <1>1, <1>2, <1>3, EndsInv

\* The racks of devices that are deleted in bulk are no longer exact.
LEMMA BulkDeleteInv ==
  ASSUME IInv, NEW gone \in SUBSET Devices, BulkDelete(gone)
  PROVE  IInv'
<1> USE DEF IInv
<1> DEFINE left == {placed[d].rack : d \in gone}
<1>1. /\ UNCHANGED <<occupied, writer, faults, raced>>
      /\ \A v \in Writers : ~(InTx(v) /\ writer[v].device \in gone)
      /\ placed' = [d \in Devices |-> IF d \in gone THEN NoDevice ELSE placed[d]]
      /\ exact' = exact \ left /\ alone' = {} /\ writes' \in 0..MaxWrites
  BY BoundsAssumption DEF BulkDelete, Typed
<1>2. \A v \in Writers : /\ InTx(v)' = InTx(v) /\ During(v)' = During(v) /\ Before(v)' = Before(v)
                         /\ writer'[v] = writer[v]
  BY <1>1 DEF InTx, During, Before
<1>3. \A r : Busy(r)' = Busy(r)  BY <1>2 DEF Busy
<1>4. Settled' = Settled \ left  BY <1>1, <1>3 DEF Settled
<1>5. \A r \in Settled' : Units(placed', r) = Units(placed, r)
  <2> SUFFICES ASSUME NEW r \in Settled' PROVE Units(placed', r) = Units(placed, r)
    OBVIOUS
  <2>1. r \in Racks /\ r # None /\ r \notin left  BY <1>4, NoneAssumption DEF Settled, Typed
  <2>2. \A e \in gone : placed[e].rack # r /\ placed'[e].rack # r
    BY <1>1, <2>1 DEF NoDevice
  <2>3. \A e \in Devices : placed'[e].rack = r \/ placed[e].rack = r => placed'[e] = placed[e]
    BY <1>1, <2>2
  <2> QED BY <2>3, SameUnits
<1>6. placed' \in [Devices -> Rows \cup {NoDevice}]  BY <1>1 DEF Typed
<1>a. Typed'  BY <1>1, <1>6 DEF Typed
<1>b. Steps'  BY <1>2 DEF Locks, Steps
<1>c. Exclusive'  BY <1>2 DEF Locks, Exclusive
<1>d. HoldsRow'
  <2>1. \A v \in Writers : InTx(v) => placed'[writer[v].device] = placed[writer[v].device]
    BY <1>1 DEF Locks, Steps
  <2> QED BY <1>2, <2>1 DEF Locks, HoldsRow
<1>e. OccupiedRight'  BY <1>1, <1>4, <1>5 DEF Right, OccupiedRight
<1>f. UnitsRight'  BY <1>2, <1>4, <1>5 DEF Right, UnitsRight
<1>g. PendingRight'  BY <1>2, <1>4, <1>5 DEF Right, PendingRight
<1>h. Alone'  BY <1>1 DEF Alone, AloneIsAlone, AloneReady, AloneUnits, AloneTouched, AloneApart
<1>m. PositionsApart'
  <2>1. \A e \in Devices : placed'[e].rack # None => placed'[e] = placed[e]  BY <1>1 DEF NoDevice
  <2> QED BY <1>1, <2>1 DEF PositionsApart
<1> QED BY <1>a, <1>b, <1>c, <1>d, <1>e, <1>f, <1>g, <1>h, <1>m DEF Locks, Right

(***************************************************************************)
(* The theorems                                                            *)
(***************************************************************************)

\* One device is mounted, its rack shows it, and nobody writes.
LEMMA InitInv == Init => IInv
<1> SUFFICES ASSUME Init PROVE IInv
  OBVIOUS
<1>1. PICK d \in Devices, r \in Racks, size \in Heights :
        placed = [e \in Devices |->
                    IF e = d THEN [rack |-> r, at |-> 1, size |-> size] ELSE NoDevice]
  BY DEF Init
<1>2. /\ occupied = [q \in Racks |-> Units(placed, q)] /\ writer = [w \in Writers |-> Idle]
      /\ writes = 0 /\ faults = 0 /\ alone = {} /\ exact = Racks /\ raced = {}
  BY DEF Init
<1>3. \A w \in Writers : writer[w] = Idle  BY <1>2
<1>4. \A w \in Writers : ~InTx(w) /\ ~Before(w) /\ ~During(w) /\ writer[w].at # "update"
                         /\ DOMAIN writer[w].pending = {}
  BY <1>3, IdleTyped DEF InTx, Before, During, Idle
<1>5. placed \in [Devices -> Rows \cup {NoDevice}]
  <2>1. 1 \in Positions /\ size \in Sizes  BY SizesAssumption DEF Positions
  <2>2. [rack |-> r, at |-> 1, size |-> size] \in Rows  BY <2>1 DEF Rows
  <2> QED BY <1>1, <2>2
<1>6. \A q : Units(placed, q) \in SUBSET Nat  BY <1>5, UnitsAreNat
<1>a. Typed
  <2>1. occupied \in [Racks -> SUBSET Nat]  BY <1>2, <1>6
  <2>2. writer \in [Writers -> WriterType]  BY <1>2, IdleTyped
  <2> QED BY <1>2, <1>5, <2>1, <2>2, BoundsAssumption DEF Typed
<1>b. Locks  BY <1>4 DEF Locks, Steps, Exclusive, HoldsRow
<1>c. Right
  <2>1. OccupiedRight  BY <1>2 DEF OccupiedRight, Settled
  <2> QED BY <1>4, <2>1 DEF Right, UnitsRight, PendingRight
<1>d. Alone  BY <1>2 DEF Alone, AloneIsAlone, AloneReady, AloneUnits, AloneTouched, AloneApart
<1>e. PositionsApart
  <2>1. \A e \in Devices : placed[e].rack # None => e = d  BY <1>1 DEF NoDevice
  <2> QED BY <2>1 DEF PositionsApart
<1> QED BY <1>a, <1>b, <1>c, <1>d, <1>e DEF IInv

\* Every step of a writer, and every bulk deletion, preserves what writers know.
LEMMA NextInv == IInv /\ [Next]_vars => IInv'
<1> SUFFICES ASSUME IInv, [Next]_vars PROVE IInv'
  OBVIOUS
<1>1. CASE UNCHANGED vars
  <2>1. UNCHANGED <<placed, occupied, writer, writes, faults, alone, exact, raced>>
    BY <1>1 DEF vars
  <2>2. \A w : /\ InTx(w)' = InTx(w) /\ During(w)' = During(w) /\ Before(w)' = Before(w)
              /\ Seen(w)' = Seen(w)
    BY <2>1 DEF InTx, During, Before, Seen
  <2>3. Settled' = Settled  BY <2>1, <2>2 DEF Settled, Busy
  <2>4. Typed' /\ PositionsApart'  BY <2>1 DEF IInv, Typed, PositionsApart
  <2>5. Locks'  BY <2>1, <2>2 DEF IInv, Locks, Steps, Exclusive, HoldsRow
  <2>6. Right'  BY <2>1, <2>2, <2>3 DEF IInv, Right, OccupiedRight, UnitsRight, PendingRight
  <2>7. AloneIsAlone' /\ AloneReady'  BY <2>1 DEF IInv, Alone, AloneIsAlone, AloneReady
  <2>8. AloneUnits' /\ AloneTouched'
    BY <2>1, <2>2 DEF IInv, Alone, AloneUnits, AloneTouched
  <2>9. AloneApart'  BY <2>1, <2>2 DEF IInv, Alone, AloneApart
  <2> QED BY <2>4, <2>5, <2>6, <2>7, <2>8, <2>9 DEF IInv, Alone
<1>2. ASSUME NEW gone \in SUBSET Devices, BulkDelete(gone) PROVE IInv'
  BY <1>2, BulkDeleteInv
<1>3. ASSUME NEW w \in Writers,
             \/ ReadPrevious(w) \/ WriteRow(w) \/ UpdateRack(w) \/ Finish(w)
             \/ Stops(w) \/ Raises(w)
      PROVE  IInv'
  <2>1. writer[w].tx \in BOOLEAN  BY DEF IInv, Typed, WriterType
  <2> QED BY <1>3, <2>1, ReadPreviousInv, WriteRowInTxInv, WriteRowInv, UpdateRackInv,
             CommitInv, FinishInv, StopsInv, RaisesInv
<1>4. ASSUME NEW w \in Writers, NEW r \in writer[w].todo, Recompute(w, r) PROVE IInv'
  BY <1>4, RecomputeInv
<1>5. ASSUME NEW w \in Writers, NEW d \in Devices, NEW row \in Rows, SubmitForm(w, d, row)
      PROVE  IInv'
  BY <1>5, SubmitFormInv
<1>6. ASSUME NEW w \in Writers, NEW d \in Devices, NEW r \in Racks \cup {None},
             SaveUnchecked(w, d, r)
      PROVE  IInv'
  BY <1>6, SaveUncheckedInv
<1>7. ASSUME NEW w \in Writers, NEW d \in Devices, NEW r \in Racks, NEW requested \in Positions,
             NEW size \in Sizes, AutoAssign(w, d, r, requested, size)
      PROVE  IInv'
  BY <1>7, AutoAssignInv
<1>8. ASSUME NEW w \in Writers, NEW d \in Devices, NEW size \in Sizes, SyncResizes(w, d, size)
      PROVE  IInv'
  BY <1>8, SyncResizesInv
<1>9. ASSUME NEW w \in Writers, NEW d \in Devices, NEW tx \in BOOLEAN, DeleteDevice(w, d, tx)
      PROVE  IInv'
  BY <1>9, DeleteDeviceInv
<1> QED BY <1>1, <1>2, <1>3, <1>4, <1>5, <1>6, <1>7, <1>8, <1>9 DEF Next

\* All that the properties follow from holds in every state.
THEOREM Invariant == Spec => []IInv
BY InitInv, NextInv, PTL DEF Spec

\* Rows, lists and writers stay what they are.
THEOREM TypeCorrect == Spec => []TypeOK
<1>1. IInv => TypeOK
  <2> SUFFICES ASSUME IInv PROVE TypeOK
    OBVIOUS
  <2>1. ASSUME NEW w \in Writers
        PROVE  /\ writer[w].at \in {"idle", "chosen", "ready", "todo", "update"}
               /\ writer[w].kind \in {"save", "api", "assign", "resize", "delete"}
               /\ writer[w].goal \in Rows \cup {NoDevice}
               /\ writer[w].todo \cup writer[w].again \cup writer[w].touched \subseteq Racks
               /\ DOMAIN writer[w].pending \subseteq Racks
    BY ListsTyped DEF IInv, Typed, WriterType
  <2>2. \A w \in Writers : writer[w].at = "update" => writer[w].rack \in Racks
    BY DEF IInv, Locks, Steps
  <2> QED BY <2>1, <2>2 DEF TypeOK, IInv, Typed
<1> QED BY <1>1, Invariant, PTL

\* Nobody writing, the list of a rack is exact if its last write was one that no
\* other overlapped: update_rack_occupied_units computes it from the devices.
THEOREM QuietListsAreExact == Spec => []QuietListIsExact
<1>1. IInv => QuietListIsExact
  <2> SUFFICES ASSUME IInv, \A w \in Writers : writer[w].at = "idle"
               PROVE  \A r \in exact : occupied[r] = Units(placed, r)
    BY DEF QuietListIsExact
  <2>1. Settled = exact  BY DEF Settled, Busy, During
  <2> QED BY <2>1 DEF IInv, Right, OccupiedRight
<1> QED BY <1>1, Invariant, PTL

\* Two devices have one position of a rack only if writers overlapped there, the
\* API moved one unchecked, or a position was chosen from a list that was not exact.
THEOREM PositionsStayApart == Spec => []PositionsApart
<1>1. IInv => PositionsApart  BY DEF IInv
<1> QED BY <1>1, Invariant, PTL

============================================================================
