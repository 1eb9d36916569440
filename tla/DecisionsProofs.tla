--------------------------- MODULE DecisionsProofs ---------------------------
(***************************************************************************)
(* Proofs about Decisions.  A behaviour is one of a single component, so   *)
(* each has an inductive invariant of its own, TerminalInv, ListInv and    *)
(* ReaderInv, from which its properties follow.                            *)
(***************************************************************************)
EXTENDS Decisions, Sequences, TLAPS, FiniteSetTheorems

-----------------------------------------------------------------------------
(* The terminal.  The size that arrives was read from pending, by the last   *)
(* look, or by the handler of the resize.                                    *)
TerminalInv ==
    /\ Terminal!TypeOK
    /\ socket = "new" => task = "none"
    /\ task \in {"none", "size"} => worker = "none"
    /\ worker \in {"none", "dial", "start"} => channel = "none"
    /\ handler = "channel" => channel # "none"
    /\ raced => worker \in {"apply", "done"}
    /\ worker = "apply" /\ ~raced => asked = pending
    /\ worker = "done" /\ channel = "open" /\ pending # Default /\ ~raced /\ handler # "resize"
         => size = pending

\* The invariant holds at the beginning and is kept by every step.
LEMMA TerminalBegins == ASSUME Terminal!Init PROVE TerminalInv
BY DEF Terminal!Init, TerminalInv, Terminal!TypeOK, Terminal!AnySize

\* As TerminalBegins, of a step.
LEMMA TerminalStep ==
  ASSUME TerminalInv, Terminal!Next \/ UNCHANGED Terminal!vars
  PROVE  TerminalInv'
<1> USE DEF TerminalInv, Terminal!TypeOK, Terminal!AnySize
<1>1. CASE UNCHANGED Terminal!vars  BY <1>1 DEF Terminal!vars
<1>2. CASE Terminal!InitialSize  BY <1>2 DEF Terminal!InitialSize
<1>3. CASE Terminal!Dial  BY <1>3 DEF Terminal!Dial, Terminal!Opens
<1>4. CASE Terminal!Raise \/ Terminal!Refuse
  BY <1>4 DEF Terminal!Raise, Terminal!Refuse, Terminal!Opens
<1>5. CASE Terminal!LateResize
  BY <1>5 DEF Terminal!LateResize, Terminal!LastLook, Terminal!Opens
<1>6. CASE Terminal!Started  BY <1>6 DEF Terminal!Started
<1>7. CASE Terminal!DisablePaging  BY <1>7 DEF Terminal!DisablePaging
<1>8. CASE Terminal!ReaderEnds  BY <1>8 DEF Terminal!ReaderEnds
<1>9. CASE Terminal!Handle  BY <1>9 DEF Terminal!Handle
<1>10. CASE Terminal!CloseAll
  <2> USE <1>10 DEF Terminal!CloseAll, Terminal!CloseTransport
  <2>1. late' \in BOOLEAN  BY Zenon
  <2> QED BY <2>1
<1>11. CASE Terminal!Disconnect  BY <1>11 DEF Terminal!Disconnect
<1>12. CASE Terminal!Connect  BY <1>12 DEF Terminal!Connect
<1>13. CASE Terminal!Answer  BY <1>13 DEF Terminal!Answer, Terminal!Opens
<1>14. CASE Terminal!Resize
  <2> USE <1>14 DEF Terminal!Resize, Terminal!Ready
  <2>1. raced' \in BOOLEAN /\ (raced' <=> worker = "apply")  BY Zenon
  <2>2. handler' = "none" \/ (handler' = "resize" /\ channel # "none")  OBVIOUS
  <2>3. channel # "open" \/ handler' = "resize"  OBVIOUS
  <2> QED BY <2>1, <2>2, <2>3
<1>15. CASE Terminal!Key  BY <1>15 DEF Terminal!Key, Terminal!Ready
<1>16. CASE Terminal!Leave  BY <1>16 DEF Terminal!Leave
<1>17. CASE Terminal!HangUp  BY <1>17 DEF Terminal!HangUp
<1> QED
  BY <1>1, <1>2, <1>3, <1>4, <1>5, <1>6, <1>7, <1>8, <1>9, <1>10, <1>11, <1>12, <1>13, <1>14,
     <1>15, <1>16, <1>17
  DEF Terminal!Next, Terminal!Local

\* It holds of every behaviour, since no browser connects during the other parts.
LEMMA TerminalAlways == Spec => []TerminalInv
<1>1. Init => TerminalInv  BY TerminalBegins DEF Init
<1>2. TerminalInv /\ [Next]_vars => TerminalInv'
  BY TerminalStep DEF Next, vars, terminalVars, Terminal!vars
<1> QED BY <1>1, <1>2, PTL DEF Spec

\* Whenever resizes come while a worker thread opens the channel, the open terminal
\* has the last size that the browser sent (SSHConsumer._open_channel, receive),
\* unless one came between the last look and its use.
THEOREM SizeAlwaysArrives == Spec => []SizeArrives
<1>1. TerminalInv => SizeArrives
  BY DEF TerminalInv, SizeArrives, Terminal!SizeArrives, Terminal!Ready
<1> QED BY <1>1, TerminalAlways, PTL

-----------------------------------------------------------------------------
(* The listings: orders of rows and their parts.  An order of rows that the  *)
(* sort field tells apart is the only one, which needs that every nonempty   *)
(* set of numbers has a least one.                                           *)

\* The listings count rows as the theorems about finite sets do.
LEMMA SameCardinality == \A S : Lists!Cardinality(S) = Cardinality(S)
BY Zenon DEF Lists!Cardinality, Cardinality

\* As SameCardinality, of finite sets.
LEMMA SameFinite == \A S : Lists!IsFiniteSet(S) <=> IsFiniteSet(S)
BY Zenon DEF Lists!IsFiniteSet, IsFiniteSet

\* A nonempty set of numbers has a least one.
LEMMA LeastNumber == ASSUME NEW S \in SUBSET Nat, S # {} PROVE \E n \in S : \A m \in S : n <= m
<1> DEFINE R == {ss \in Nat \X Nat : ss[1] < ss[2]}
<1>1. IsWellFoundedOn(R, Nat)  BY NatLessThanWellFounded DEF OpToRel
<1>2. \E x \in S : \A y \in S : ~(<<y, x>> \in R)
  <2> HIDE DEF R
  <2> QED BY <1>1, WFMin
<1>3. PICK x \in S : \A y \in S : ~(<<y, x>> \in R)  BY <1>2
<1>4. \A y \in S : x <= y
  <2> TAKE y \in S
  <2>1. ~(<<y, x>> \in R)  BY <1>3
  <2>2. ~(y < x)  BY <2>1
  <2> QED BY <2>2
<1> QED BY <1>4

\* An order puts each row in one place, by the sort field.
LEMMA OrderFacts ==
  ASSUME NEW rows, NEW field, NEW o \in Lists!Orders(rows, field)
  PROVE  /\ o \in [1..Cardinality(rows) -> rows]
         /\ \A i, j \in 1..Cardinality(rows) : o[i] = o[j] => i = j
         /\ \A r \in rows : \E i \in 1..Cardinality(rows) : o[i] = r
         /\ \A i, j \in 1..Cardinality(rows) :
              i < j => Lists!Key(o[i], field) <= Lists!Key(o[j], field)
<1> DEFINE N == Cardinality(rows)
<1>1. o \in Lists!Bijection(1..N, rows)
      /\ \A i, j \in DOMAIN o : i < j => Lists!Key(o[i], field) <= Lists!Key(o[j], field)
  BY SameCardinality DEF Lists!Orders
<1> HIDE DEF N
<1>2. /\ o \in [1..N -> rows]
      /\ \A i, j \in 1..N : o[i] = o[j] => i = j
      /\ \A r \in rows : \E i \in 1..N : o[i] = r
  BY <1>1 DEF Lists!Bijection, Lists!Injection, Lists!Surjection, Lists!IsInjective
<1>3. DOMAIN o = 1..N  BY <1>2
<1> QED BY <1>1, <1>2, <1>3 DEF N

\* What the rows are sorted by.
LEMMA KeyIsNumber ==
  ASSUME NEW row, Lists!Numbered(row), NEW field PROVE Lists!Key(row, field) \in Nat
BY DEF Lists!Numbered, Lists!Key

\* Two queries order the rows alike, if the sort field tells them apart.
LEMMA OneOrder ==
  ASSUME NEW rows, IsFiniteSet(rows), \A r \in rows : Lists!Numbered(r), NEW field,
         \A r, s \in rows : r # s => Lists!Key(r, field) # Lists!Key(s, field),
         NEW o \in Lists!Orders(rows, field), NEW p \in Lists!Orders(rows, field)
  PROVE  o = p
<1> DEFINE N == Cardinality(rows)
           K(r) == Lists!Key(r, field)
<1>1. N \in Nat  BY FS_CardinalityType
<1>2. /\ o \in [1..N -> rows]
      /\ \A i, j \in 1..N : o[i] = o[j] => i = j
      /\ \A r \in rows : \E i \in 1..N : o[i] = r
      /\ \A i, j \in 1..N : i < j => K(o[i]) <= K(o[j])
  BY OrderFacts
<1>3. /\ p \in [1..N -> rows]
      /\ \A i, j \in 1..N : p[i] = p[j] => i = j
      /\ \A r \in rows : \E i \in 1..N : p[i] = r
      /\ \A i, j \in 1..N : i < j => K(p[i]) <= K(p[j])
  BY OrderFacts
<1>4. /\ \A r \in rows : K(r) \in Nat
      /\ \A r, s \in rows : r # s => K(r) # K(s)
  BY KeyIsNumber
<1> HIDE DEF N, K
<1> DEFINE D == {i \in 1..N : o[i] # p[i]}
<1>5. SUFFICES ASSUME D # {} PROVE FALSE
  <2>1. D = {} => \A i \in 1..N : o[i] = p[i]  OBVIOUS
  <2>2. o = [i \in 1..N |-> o[i]] /\ p = [i \in 1..N |-> p[i]]  BY <1>2, <1>3
  <2>3. [i \in 1..N |-> o[i]] = [i \in 1..N |-> p[i]]  <=> \A i \in 1..N : o[i] = p[i]  OBVIOUS
  <2> HIDE DEF D
  <2> QED BY <2>1, <2>2, <2>3
<1>6. D \in SUBSET Nat  BY <1>1
<1>7. PICK i \in D : \A j \in D : i <= j
  <2> HIDE DEF D
  <2> QED BY <1>5, <1>6, LeastNumber
<1>8. i \in 1..N /\ o[i] # p[i] /\ \A j \in 1..N : j < i => o[j] = p[j]  BY <1>1, <1>7
<1> HIDE DEF D
<1>9. PICK j \in 1..N : o[j] = p[i]  BY <1>2, <1>3, <1>8
<1>10. PICK k \in 1..N : p[k] = o[i]  BY <1>2, <1>3, <1>8
<1>11. i < j  BY <1>1, <1>3, <1>8, <1>9
<1>12. i < k  BY <1>1, <1>2, <1>8, <1>10
<1>13. K(o[i]) <= K(p[i]) /\ K(p[i]) <= K(o[i])  BY <1>2, <1>3, <1>8, <1>9, <1>10, <1>11, <1>12
<1>14. o[i] \in rows /\ p[i] \in rows  BY <1>2, <1>3, <1>8
<1> QED BY <1>4, <1>8, <1>13, <1>14

\* Place i of N is in one of the parts.
LEMMA PlaceIsInPart ==
  ASSUME PageSize \in Nat \ {0}, NEW N \in Nat, NEW i \in 1..N
  PROVE  \E n \in 1..((N + PageSize - 1) \div PageSize) :
            i \in ((n - 1) * PageSize + 1 .. n * PageSize)
<1> DEFINE n == ((i - 1) \div PageSize) + 1
<1>1. n \in Nat /\ n >= 1  OBVIOUS
<1>2. (n - 1) * PageSize + 1 <= i /\ i <= n * PageSize  OBVIOUS
<1>3. n <= (N + PageSize - 1) \div PageSize  OBVIOUS
<1>4. (N + PageSize - 1) \div PageSize \in Nat  OBVIOUS
<1> HIDE DEF n
<1>5. n * PageSize \in Nat /\ (n - 1) * PageSize + 1 \in Int  BY <1>1
<1>6. n \in 1..((N + PageSize - 1) \div PageSize)  BY <1>1, <1>3, <1>4
<1>7. i \in ((n - 1) * PageSize + 1 .. n * PageSize)  BY <1>2, <1>5
<1> QED BY <1>6, <1>7

\* No place is in two parts.
LEMMA PartsAreApart ==
  ASSUME PageSize \in Nat \ {0}, NEW m \in Nat, NEW n \in Nat, m < n, NEW i \in Nat,
         i \in ((m - 1) * PageSize + 1 .. m * PageSize),
         i \in ((n - 1) * PageSize + 1 .. n * PageSize)
  PROVE  FALSE
<1>1. m <= n - 1  OBVIOUS
<1>2. m * PageSize <= (n - 1) * PageSize  BY <1>1
<1>3. i <= m * PageSize /\ (n - 1) * PageSize + 1 <= i  OBVIOUS
<1>4. m * PageSize \in Int /\ (n - 1) * PageSize \in Int  OBVIOUS
<1> QED BY <1>2, <1>3, <1>4

\* A part is not longer than a page.
LEMMA PartFits ==
  ASSUME PageSize \in Nat \ {0}, NEW N \in Nat, NEW o, DOMAIN o = 1..N, NEW m \in Nat
  PROVE  Cardinality(Lists!Part(o, m)) <= PageSize
<1> DEFINE a == (m - 1) * PageSize + 1
           b == m * PageSize
           I == (1..N) \cap (a .. b)
           f == [i \in I |-> o[i]]
           T == {o[i] : i \in I}
<1>1. a \in Int /\ b \in Int /\ b - a + 1 = PageSize
  <2>1. (m - 1) * PageSize = m * PageSize - PageSize /\ m * PageSize \in Int  OBVIOUS
  <2> QED BY <2>1
<1>2. Lists!Part(o, m) = T  BY DEF Lists!Part
<1> HIDE DEF a, b
<1>3. IsFiniteSet(a..b) /\ Cardinality(a..b) <= PageSize
  <2>1. IsFiniteSet(a..b) /\ Cardinality(a..b) = IF a > b THEN 0 ELSE b - a + 1
    BY <1>1, FS_Interval
  <2>2. Cardinality(a..b) \in {0, PageSize}  BY <1>1, <2>1
  <2> QED BY <2>1, <2>2
<1>4. IsFiniteSet(I) /\ Cardinality(I) <= Cardinality(a..b)
  <2>1. I \in SUBSET (a..b)  OBVIOUS
  <2> HIDE DEF I
  <2> QED BY <1>3, <2>1, FS_Subset
<1>5. f \in Surjection(I, T)  BY DEF Surjection
<1> HIDE DEF f, T, I
<1>6. IsFiniteSet(T) /\ Cardinality(T) <= Cardinality(I)  BY <1>4, <1>5, FS_Surjection
<1>7. Cardinality(T) \in Nat /\ Cardinality(I) \in Nat /\ Cardinality(a..b) \in Nat
  BY <1>3, <1>4, <1>6, FS_CardinalityType
<1> QED BY <1>2, <1>3, <1>4, <1>6, <1>7

\* The parts of an order have all the rows, and each of them once.
LEMMA PartsOfOrder ==
  ASSUME PageSize \in Nat \ {0}, NEW rows, IsFiniteSet(rows), NEW field,
         NEW o \in Lists!Orders(rows, field)
  PROVE  /\ Lists!LastPage(rows) \in Nat
         /\ UNION {Lists!Part(o, n) : n \in 1..Lists!LastPage(rows)} = rows
         /\ \A m, n \in 1..Lists!LastPage(rows) :
              m # n => Lists!Part(o, m) \cap Lists!Part(o, n) = {}
<1> DEFINE N == Cardinality(rows)
           L == (N + PageSize - 1) \div PageSize
           P(n) == ((n - 1) * PageSize + 1 .. n * PageSize)
<1>1. N \in Nat  BY FS_CardinalityType
<1>2. Lists!LastPage(rows) = L  BY SameCardinality DEF Lists!LastPage
<1>3. /\ o \in [1..N -> rows]
      /\ \A i, j \in 1..N : o[i] = o[j] => i = j
      /\ \A r \in rows : \E i \in 1..N : o[i] = r
  BY OrderFacts
<1>4. \A n : Lists!Part(o, n) = {o[i] : i \in (1..N) \cap P(n)}  BY <1>3 DEF Lists!Part
<1> HIDE DEF N
<1>5. L \in Nat  BY <1>1
<1>6. \A i \in 1..N : \E n \in 1..L : i \in P(n)  BY <1>1, PlaceIsInPart
<1>7. \A m, n \in Nat, i \in Nat : i \in P(m) /\ i \in P(n) => m = n
  <2> SUFFICES ASSUME NEW m \in Nat, NEW n \in Nat, NEW i \in Nat, i \in P(m), i \in P(n), m # n
               PROVE FALSE
    OBVIOUS
  <2>1. m < n \/ n < m  OBVIOUS
  <2> QED BY <2>1, PartsAreApart
<1> HIDE DEF L, P
<1> DEFINE A == {Lists!Part(o, n) : n \in 1..L}
<1>8. \A r \in rows : r \in UNION A
  <2> TAKE r \in rows
  <2>1. PICK i \in 1..N : o[i] = r  BY <1>3
  <2>2. PICK n \in 1..L : i \in P(n)  BY <1>6
  <2>3. r \in Lists!Part(o, n)  BY <1>4, <2>1, <2>2
  <2> QED BY <2>3
<1>9. \A n : Lists!Part(o, n) \subseteq rows  BY <1>3, <1>4
<1>10. UNION A \subseteq rows  BY <1>9
<1>11. UNION A = rows  BY <1>8, <1>10
<1>12. ASSUME NEW m \in 1..L, NEW n \in 1..L, m # n
       PROVE  Lists!Part(o, m) \cap Lists!Part(o, n) = {}
  <2> SUFFICES ASSUME NEW r \in Lists!Part(o, m), r \in Lists!Part(o, n) PROVE FALSE
    OBVIOUS
  <2>1. PICK i \in (1..N) \cap P(m) : r = o[i]  BY <1>4
  <2>2. PICK j \in (1..N) \cap P(n) : r = o[j]  BY <1>4
  <2>3. i = j  BY <1>3, <2>1, <2>2
  <2> QED BY <1>5, <1>7, <1>12, <2>1, <2>2, <2>3
<1> QED BY <1>2, <1>5, <1>11, <1>12

\* Whatever is listed, there are finitely many rows, whose keys are numbers.
LEMMA FiniteListing ==
  ASSUME db \in Databases, view \in Lists!Views, NEW q
  PROVE  IsFiniteSet(Lists!Listed(q)) /\ \A r \in Lists!Listed(q) : Lists!Numbered(r)
<1>1. IsFiniteSet(db) /\ \A r \in db : Lists!Numbered(r)
  BY DecisionsAssumption, SameFinite DEF Assumptions, Lists!Assumptions
<1>2. \A T \in SUBSET db : IsFiniteSet(T) /\ \A r \in T : Lists!Numbered(r)
  BY <1>1, FS_Subset
<1>3. \A name : Lists!Table(name) \in SUBSET db  BY DEF Lists!Table
<1>4. Lists!Wide(q) \subseteq {Lists!OnDevice(j) : j \in Lists!Table("interface")}
  BY DEF Lists!Wide
<1>5. IsFiniteSet(Lists!Wide(q)) /\ \A r \in Lists!Wide(q) : Lists!Numbered(r)
  <2> DEFINE S == Lists!Table("interface")
             f == [j \in S |-> Lists!OnDevice(j)]
             T == {Lists!OnDevice(j) : j \in S}
  <2>1. IsFiniteSet(S)  BY <1>2, <1>3
  <2>2. f \in Surjection(S, T)  BY DEF Surjection
  <2>3. \A j \in S : Lists!Numbered(Lists!OnDevice(j))
    <3> TAKE j \in S
    <3>1. Lists!OnDevice(j).keys = j.keys  BY Zenon DEF Lists!OnDevice, Lists!Row
    <3>2. Lists!Numbered(j)  BY <1>2, <1>3
    <3> QED BY <3>1, <3>2 DEF Lists!Numbered
  <2>4. \A r \in T : Lists!Numbered(r)  BY <2>3
  <2>5. Lists!Wide(q) \in SUBSET T  BY <1>4
  <2> HIDE DEF f, T, S
  <2>6. IsFiniteSet(T)  BY <2>1, <2>2, FS_Surjection
  <2> QED BY <2>4, <2>5, <2>6, FS_Subset
<1>6. IsFiniteSet(Lists!InventoryRows(q.search))
      /\ \A r \in Lists!InventoryRows(q.search) : Lists!Numbered(r)
  <2> DEFINE Of(d) == {Lists!InventoryRow(d, m) : m \in Lists!ModulesOf(d)}
             D == Lists!Table("device")
             f == [d \in D |-> Of(d)]
             T == {Of(d) : d \in D}
  <2>1. ASSUME NEW d
        PROVE  /\ IsFiniteSet(Lists!ModulesOf(d))
               /\ \A m \in Lists!ModulesOf(d) : Lists!Numbered(m)
    <3> DEFINE own == {m \in Lists!Table("module") : m.device = d.id}
    <3>1. own \in SUBSET db  BY <1>3
    <3>2. IsFiniteSet(own) /\ \A m \in own : Lists!Numbered(m)  BY <1>2, <3>1
    <3>3. Lists!ModulesOf(d) = IF own = {} THEN {Lists!NoModule} ELSE own
      BY DEF Lists!ModulesOf
    <3>4. IsFiniteSet({Lists!NoModule})  BY FS_Singleton
    <3>5. Lists!Numbered(Lists!NoModule)  BY DEF Lists!Numbered, Lists!NoModule
    <3> HIDE DEF own
    <3> QED BY <3>2, <3>3, <3>4, <3>5
  <2>2. ASSUME NEW d \in D PROVE IsFiniteSet(Of(d)) /\ \A r \in Of(d) : Lists!Numbered(r)
    <3> DEFINE g == [m \in Lists!ModulesOf(d) |-> Lists!InventoryRow(d, m)]
    <3>1. g \in Surjection(Lists!ModulesOf(d), Of(d))  BY DEF Surjection
    <3>2. IsFiniteSet(Of(d))
      <4> HIDE DEF g, Of
      <4> QED BY <2>1, <3>1, FS_Surjection
    <3>3. ASSUME NEW m \in Lists!ModulesOf(d) PROVE Lists!Numbered(Lists!InventoryRow(d, m))
      <4>1. Lists!InventoryRow(d, m).keys = Lists!Over(d.keys, m.keys)
        BY Zenon DEF Lists!InventoryRow, Lists!Row
      <4>2. Lists!Numbered(d) /\ Lists!Numbered(m)  BY <1>2, <1>3, <2>1
      <4> QED BY <4>1, <4>2 DEF Lists!Numbered, Lists!Over
    <3> QED BY <3>2, <3>3
  <2>3. IsFiniteSet(D)  BY <1>2, <1>3
  <2>4. f \in Surjection(D, T)  BY DEF Surjection
  <2>5. /\ Lists!InventoryRows(q.search) \in SUBSET UNION T
        /\ \A r \in UNION T : Lists!Numbered(r)
        /\ \A S \in T : IsFiniteSet(S)
    BY <2>2 DEF Lists!InventoryRows
  <2> HIDE DEF f, T, D
  <2>6. IsFiniteSet(T)  BY <2>3, <2>4, FS_Surjection
  <2>7. IsFiniteSet(UNION T)  BY <2>5, <2>6, FS_UNION
  <2> QED BY <2>5, <2>7, FS_Subset
<1>7. /\ Lists!AllInterfaces(q) \in SUBSET Lists!Wide(q)
      /\ Lists!ErrDisabled(q) \in SUBSET Lists!Wide(q)
      /\ Lists!Inventory(q) \in SUBSET Lists!InventoryRows(q.search)
  BY DEF Lists!AllInterfaces, Lists!ErrDisabled, Lists!Inventory
<1>8. Lists!StorageRows(q.search) \in SUBSET db  BY <1>3 DEF Lists!StorageRows
<1>9. /\ Lists!Devices(q) \in SUBSET db /\ Lists!Modules(q) \in SUBSET db
      /\ Lists!Interfaces(q) \in SUBSET db /\ Lists!Storage(q) \in SUBSET db
      /\ Lists!Vlans(q) \in SUBSET db /\ Lists!Addresses(q) \in SUBSET db
      /\ Lists!Prefixes(q) \in SUBSET db /\ Lists!Candidates(q) \in SUBSET db
      /\ Lists!Jobs(q) \in SUBSET db
  BY <1>3, <1>8
  DEF Lists!Devices, Lists!Modules, Lists!Interfaces, Lists!Storage, Lists!Vlans,
      Lists!Addresses, Lists!Prefixes, Lists!Candidates, Lists!Jobs
<1>10. \/ Lists!Listed(q) \in SUBSET db
       \/ Lists!Listed(q) \in SUBSET Lists!Wide(q)
       \/ Lists!Listed(q) \in SUBSET Lists!InventoryRows(q.search)
  BY <1>7, <1>9 DEF Lists!Listed, Lists!Views
<1> QED BY <1>2, <1>5, <1>6, <1>10, FS_Subset

\* What is listed depends on the tables and the view.
LEMMA SameListing ==
  ASSUME db' = db, view' = view
  PROVE  \A q : (Lists!Listed(q)' = Lists!Listed(q))
<1>1. \A name : (Lists!Table(name)' = Lists!Table(name))  BY DEF Lists!Table
<1>2. \A r, s : (Lists!HasInterface(r, s)' <=> Lists!HasInterface(r, s))
  BY <1>1 DEF Lists!HasInterface
<1>3. \A q : (Lists!Devices(q)' = Lists!Devices(q))  BY <1>1, <1>2 DEF Lists!Devices
<1>4. \A q : /\ Lists!Modules(q)' = Lists!Modules(q)
             /\ Lists!Interfaces(q)' = Lists!Interfaces(q)
  BY <1>1 DEF Lists!Modules, Lists!Interfaces
<1>5. \A r : (Lists!OnDevice(r)' = Lists!OnDevice(r))
  <2>1. \A r : (Lists!Device(r)' = Lists!Device(r))  BY <1>1, Zenon DEF Lists!Device
  <2> QED BY <2>1, Zenon DEF Lists!OnDevice
<1>6. \A q : (Lists!Wide(q)' = Lists!Wide(q))
  <2>1. \A q : Lists!Wide(q) = {i \in {Lists!OnDevice(j) : j \in Lists!Table("interface")} :
              Lists!AtSite(i, Lists!KnownSite(q)) /\ Lists!Tagged(i, Lists!KnownTag(q))}
    BY DEF Lists!Wide
  <2>2. \A q : (Lists!Wide(q)' = {i \in {Lists!OnDevice(j)' : j \in Lists!Table("interface")'} :
              Lists!AtSite(i, Lists!KnownSite(q)) /\ Lists!Tagged(i, Lists!KnownTag(q))})
    BY DEF Lists!Wide
  <2>3. {Lists!OnDevice(j)' : j \in Lists!Table("interface")'}
          = {Lists!OnDevice(j) : j \in Lists!Table("interface")}
    BY <1>1, <1>5
  <2> QED BY <2>1, <2>2, <2>3
<1>7. \A q : /\ Lists!AllInterfaces(q)' = Lists!AllInterfaces(q)
             /\ Lists!ErrDisabled(q)' = Lists!ErrDisabled(q)
  BY <1>6 DEF Lists!AllInterfaces, Lists!ErrDisabled
<1>8. \A d : (Lists!ModulesOf(d)' = Lists!ModulesOf(d))
  BY <1>1 DEF Lists!ModulesOf
<1>9. \A s : (Lists!InventoryRows(s)' = Lists!InventoryRows(s))
  BY <1>1, <1>8 DEF Lists!InventoryRows
<1>10. \A q : (Lists!Inventory(q)' = Lists!Inventory(q))  BY <1>9 DEF Lists!Inventory
<1>11. \A q : (Lists!Storage(q)' = Lists!Storage(q))
  BY <1>1 DEF Lists!Storage, Lists!StorageRows
<1>12. \A q : /\ Lists!Vlans(q)' = Lists!Vlans(q)
              /\ Lists!Addresses(q)' = Lists!Addresses(q)
              /\ Lists!Prefixes(q)' = Lists!Prefixes(q)
              /\ Lists!Candidates(q)' = Lists!Candidates(q)
              /\ Lists!Jobs(q)' = Lists!Jobs(q)
  BY <1>1 DEF Lists!Vlans, Lists!Addresses, Lists!Prefixes, Lists!Candidates, Lists!Jobs
<1> QED
  BY <1>3, <1>4, <1>7, <1>10, <1>11, <1>12 DEF Lists!Listed

\* Each spreadsheet repeats the filters of its page: what the link says of the site and
\* the tag means to the spreadsheet what the query meant to the page.
LEMMA SheetOfLink ==
  /\ view = "devices" => Lists!DeviceSheet(Lists!Link) = Lists!Listed(query)
  /\ view = "inventory" => Lists!InventorySheet(Lists!Link) = Lists!Listed(query)
  /\ view = "storage" => Lists!StorageSheet(Lists!Link) = Lists!Listed(query)
  /\ view = "vlans" => Lists!VlanSheet(Lists!Link) = Lists!Listed(Lists!Link)
<1> DEFINE l == Lists!Link
<1>1. ASSUME view # "vlans"
      PROVE  /\ l.search = query.search /\ l.site = Lists!KnownSite(query)
             /\ l.tag = Lists!KnownTag(query) /\ l.exact = query.exact /\ l.quick = query.quick
  BY <1>1 DEF Lists!Link, Lists!Query
<1>2. ASSUME view = "vlans"
      PROVE  l.search = "" /\ l.site = Lists!VlanSite(query) /\ l.quick = <<>>
  BY <1>2 DEF Lists!Link, Lists!Query
<1> HIDE DEF l
<1>3. ASSUME view # "vlans"
      PROVE  Lists!KnownSite(l) = Lists!KnownSite(query) /\ Lists!KnownTag(l) = Lists!KnownTag(query)
  BY <1>1, <1>3 DEF Lists!KnownSite, Lists!KnownTag
<1>4. ASSUME view # "vlans"
      PROVE  \A r, f : Lists!Quick(r, f, l) <=> Lists!Quick(r, f, query)
  BY <1>1, <1>4 DEF Lists!Quick
<1>5. ASSUME view = "devices" PROVE Lists!DeviceSheet(l) = Lists!Listed(query)
  <2>1. Lists!InterfaceStatus(l) = Lists!InterfaceStatus(query)
    BY <1>1, <1>5 DEF Lists!InterfaceStatus, Lists!Known, Lists!Chosen
  <2>2. Lists!Devices(l) = Lists!Devices(query)
    BY <1>1, <1>3, <1>4, <1>5, <2>1 DEF Lists!Devices
  <2> QED BY <1>5, <2>2 DEF Lists!DeviceSheet, Lists!Listed
<1>6. ASSUME view = "inventory" PROVE Lists!InventorySheet(l) = Lists!Listed(query)
  <2>1. Lists!InventorySheet(l) = Lists!Inventory(query)
    BY <1>1, <1>3, <1>4, <1>6 DEF Lists!InventorySheet, Lists!Inventory
  <2> QED BY <1>6, <2>1 DEF Lists!Listed
<1>7. ASSUME view = "storage" PROVE Lists!StorageSheet(l) = Lists!Listed(query)
  <2>1. Lists!Storage(l) = Lists!Storage(query)
    BY <1>1, <1>3, <1>4, <1>7 DEF Lists!Storage
  <2> QED BY <1>7, <2>1 DEF Lists!StorageSheet, Lists!Listed
<1>8. ASSUME view = "vlans" PROVE Lists!VlanSheet(l) = Lists!Listed(l)
  <2>1. \A r, f : Lists!Quick(r, f, l)
    <3>1. DOMAIN <<>> = {}  OBVIOUS
    <3>2. DOMAIN l.quick = {}  BY <1>2, <1>8, <3>1, Zenon
    <3> QED BY <3>2 DEF Lists!Quick
  <2>2. \A r, f : Lists!Contains(r, f, l.search)  BY <1>2, <1>8 DEF Lists!Contains
  <2>3. Lists!VlanSheet(l) = Lists!Vlans(l)
    BY <2>1, <2>2 DEF Lists!VlanSheet, Lists!Vlans
  <2> QED BY <1>8, <2>3 DEF Lists!Listed
<1> QED BY <1>5, <1>6, <1>7, <1>8 DEF l

(* What each page showed was cut from an order of the rows, of one query for *)
(* each page; and the spreadsheet, once fetched, is what the property says.  *)
Shown(n) == LET last == Lists!LastPage(Lists!Listed(query)) IN IF n <= last THEN n ELSE last
SheetIsRight ==
    exported # None =>
      exported = IF view = "vlans" THEN Lists!Listed(Lists!Link) ELSE Lists!Listed(query)
ListInv ==
    /\ db \in Databases /\ view \in Lists!Views /\ query \in Queries
    /\ DOMAIN pages \subseteq Nat \ {0}
    /\ \A n \in DOMAIN pages : \E o \in Lists!Orders(Lists!Listed(query), query.sort) :
         pages[n] = Lists!Part(o, Shown(n))
    /\ SheetIsRight

\* The invariant holds at the beginning.
LEMMA ListsBegin == ASSUME Lists!Init PROVE ListInv
BY DEF Lists!Init, ListInv, SheetIsRight

\* It is kept by turning a page and by fetching the spreadsheet.
LEMMA ListsStep ==
  ASSUME ListInv, Lists!Next \/ UNCHANGED Lists!vars
  PROVE  ListInv'
<1>1. db' = db /\ view' = view /\ query' = query
  BY DEF Lists!Next, Lists!Export, Lists!Page, Lists!vars
<1>2. \A q : (Lists!Listed(q)' = Lists!Listed(q))  BY <1>1, SameListing
<1>3. Lists!Link' = Lists!Link
  BY <1>1, Zenon DEF Lists!Link, Lists!Query, Lists!VlanSite, Lists!KnownSite, Lists!KnownTag
<1>4. \A n : (Shown(n)' = Shown(n))  BY <1>1, <1>2, Zenon DEF Shown, Lists!LastPage
<1> DEFINE rows == Lists!Listed(query)
<1>5. rows' = rows  BY <1>1, <1>2
<1>6. /\ DOMAIN pages' \subseteq Nat \ {0}
      /\ \A n \in DOMAIN pages' : \E o \in Lists!Orders(rows, query.sort) :
           pages'[n] = Lists!Part(o, Shown(n))
  <2>1. CASE pages' = pages  BY <2>1 DEF ListInv
  <2>2. CASE \E n \in 1..(Lists!LastPage(rows) + 1) : Lists!Page(n)
    <3>1. PICK n \in 1..(Lists!LastPage(rows) + 1) : Lists!Page(n)  BY <2>2
    <3>2. PICK o \in Lists!Orders(rows, query.sort) :
            pages' = [k \in DOMAIN pages \cup {n} |->
                        IF k = n THEN Lists!Part(o, Shown(n)) ELSE pages[k]]
      BY <3>1, Zenon DEF Lists!Page, Shown
    <3>3. n \in Nat \ {0}  OBVIOUS
    <3> HIDE DEF rows
    <3> QED BY <3>2, <3>3 DEF ListInv, rows
  <2> QED BY <2>1, <2>2 DEF Lists!Next, Lists!Export, Lists!vars
<1>7. \/ exported' = exported
      \/ exported' = IF view = "vlans" THEN Lists!Listed(Lists!Link) ELSE rows
  BY SheetOfLink DEF Lists!Next, Lists!Export, Lists!Page, Lists!vars
<1>8. SheetIsRight'
  BY <1>1, <1>2, <1>3, <1>5, <1>7 DEF SheetIsRight, ListInv
<1>9. \A f, s : (Lists!Orders(f, s)' = Lists!Orders(f, s))  OBVIOUS
<1> QED BY <1>1, <1>4, <1>5, <1>6, <1>8, <1>9 DEF ListInv

\* The types follow: a page has PageSize rows at most.
LEMMA ListTypes == ASSUME ListInv PROVE Lists!TypeOK
<1> DEFINE rows == Lists!Listed(query)
<1>1. PageSize \in Nat \ {0}
  BY DecisionsAssumption DEF Assumptions, Lists!Assumptions
<1>2. IsFiniteSet(rows)  BY FiniteListing DEF ListInv
<1>3. ASSUME NEW n \in DOMAIN pages PROVE Cardinality(pages[n]) <= PageSize
  <2>1. PICK o \in Lists!Orders(rows, query.sort) : pages[n] = Lists!Part(o, Shown(n))
    BY DEF ListInv
  <2>2. n \in Nat  BY DEF ListInv
  <2> HIDE DEF rows
  <2>3. Lists!LastPage(rows) \in Nat  BY <1>1, <1>2, <2>1, PartsOfOrder
  <2>4. Shown(n) \in Nat  BY <2>2, <2>3 DEF Shown, rows
  <2>5. Cardinality(rows) \in Nat /\ DOMAIN o = 1..Cardinality(rows)
    BY <1>2, <2>1, FS_CardinalityType, OrderFacts
  <2> QED BY <1>1, <2>1, <2>4, <2>5, PartFits
<1> QED BY <1>3, SameCardinality DEF ListInv, Lists!TypeOK

\* Of rows that the sort field tells apart, the pages cut one order into its parts.
LEMMA SheetFollows == ASSUME ListInv PROVE Lists!SheetIsListing
<1> DEFINE rows == Lists!Listed(query)
           last == Lists!LastPage(rows)
<1>1. PageSize \in Nat \ {0}
  BY DecisionsAssumption DEF Assumptions, Lists!Assumptions
<1>2. IsFiniteSet(rows) /\ \A r \in rows : Lists!Numbered(r)  BY FiniteListing DEF ListInv
<1>3. ASSUME 1..last \subseteq DOMAIN pages,
             \A r, s \in rows : r # s => Lists!Key(r, query.sort) # Lists!Key(s, query.sort)
      PROVE  /\ UNION {pages[n] : n \in 1..last} = rows
             /\ \A m, n \in 1..last : m # n => pages[m] \cap pages[n] = {}
  <2>1. \A n \in 1..last : \E o \in Lists!Orders(rows, query.sort) :
          pages[n] = Lists!Part(o, n)
    <3> TAKE n \in 1..last
    <3>1. PICK o \in Lists!Orders(rows, query.sort) : pages[n] = Lists!Part(o, Shown(n))
      BY <1>3 DEF ListInv
    <3>2. last \in Nat
      <4> HIDE DEF rows
      <4> QED BY <1>1, <1>2, <3>1, PartsOfOrder
    <3>3. Shown(n) = n  BY <3>2 DEF Shown
    <3> QED BY <3>1, <3>3
  <2> HIDE DEF rows
  <2>2. CASE 1..last = {}
    <3>1. Cardinality(rows) \in Nat  BY <1>2, FS_CardinalityType
    <3>2. \A i \in 1..Cardinality(rows) : FALSE
      <4> TAKE i \in 1..Cardinality(rows)
      <4>1. \E n \in 1..((Cardinality(rows) + PageSize - 1) \div PageSize) :
              i \in ((n - 1) * PageSize + 1 .. n * PageSize)
        BY <1>1, <3>1, PlaceIsInPart
      <4> QED BY <2>2, <4>1, SameCardinality DEF Lists!LastPage
    <3>3. Cardinality(rows) = 0  BY <3>1, <3>2
    <3>4. rows = {}  BY <1>2, <3>3, FS_EmptySet
    <3> QED BY <2>2, <3>4
  <2>3. CASE 1..last # {}
    <3>1. PICK k \in 1..last : TRUE  BY <2>3
    <3>2. PICK o \in Lists!Orders(rows, query.sort) : pages[k] = Lists!Part(o, k)  BY <2>1
    <3>3. ASSUME NEW n \in 1..last PROVE pages[n] = Lists!Part(o, n)
      <4>1. PICK p \in Lists!Orders(rows, query.sort) : pages[n] = Lists!Part(p, n)  BY <2>1
      <4>2. p = o  BY <1>2, <1>3, OneOrder
      <4> QED BY <4>1, <4>2
    <3>4. /\ UNION {Lists!Part(o, n) : n \in 1..last} = rows
          /\ \A m, n \in 1..last : m # n => Lists!Part(o, m) \cap Lists!Part(o, n) = {}
      BY <1>1, <1>2, PartsOfOrder
    <3>5. {pages[n] : n \in 1..last} = {Lists!Part(o, n) : n \in 1..last}  BY <3>3
    <3> QED BY <3>3, <3>4, <3>5
  <2> QED BY <2>2, <2>3
<1> QED BY <1>3 DEF ListInv, SheetIsRight, Lists!SheetIsListing

\* The invariant holds of every behaviour that is one of the listings.
LEMMA ListsAlways == Spec => [](part = "lists" => ListInv)
<1> DEFINE Kept == part = "lists" => ListInv
<1>1. Init => Kept  BY ListsBegin DEF Init
<1>2. Kept /\ [Next]_vars => Kept'
  <2> SUFFICES ASSUME Kept, [Next]_vars, part' = "lists" PROVE ListInv'
    OBVIOUS
  <2>1. part = "lists" /\ (Lists!Next \/ UNCHANGED Lists!vars)
    BY DEF Next, vars, listVars, Lists!vars
  <2> QED BY <2>1, ListsStep
<1> QED BY <1>1, <1>2, PTL DEF Spec

\* However a page turns the query into a link, its spreadsheet has the rows of the listing,
\* and the pages, each cut from a query of its own, show each row once if the sort field
\* tells the rows apart (the export views of dcim and network, Paginator.get_page).
THEOREM SheetAlwaysIsListing == Spec => []SheetIsListing
<1>1. (part = "lists" => ListInv) => SheetIsListing  BY SheetFollows DEF SheetIsListing
<1> QED BY <1>1, ListsAlways, PTL

-----------------------------------------------------------------------------
(* The readers of command output.  ReaderBase is what holds of every format: *)
(* one line is read after the other, each of the last block.  What is        *)
(* collected differs by the format, and so do the invariants below.          *)
Lines(f) == Readers!Lines[f]
FieldNames == {"name", "local", "port", "platform", "capabilities"}
ReaderBase ==
    /\ format \in Readers!Formats
    /\ said \in Seq(Readers!Blocks(format)) /\ Len(said) <= MaxBlocks
    /\ Len(said) = 0 => /\ at = 0 /\ current = <<>> /\ entries = <<>> /\ unfinished = None
    /\ Len(said) > 0 => /\ at \in 1..Len(Lines(format))
                        /\ Lines(format)[at] \in said[Len(said)]
    /\ \E S : entries \in Seq(S)
    /\ DOMAIN current \subseteq FieldNames
    /\ unfinished # None => format = "cdp_table"
    /\ result # None => Readers!Whole

\* The lines of each format.
LEMMA LinesAre ==
  /\ Len(Lines("cdp")) = 3 /\ Lines("cdp")[1] = "device_id" /\ Lines("cdp")[2] = "platform"
     /\ Lines("cdp")[3] = "interface"
  /\ Len(Lines("lldp_ios")) = 6 /\ Lines("lldp_ios")[1] = "local" /\ Lines("lldp_ios")[2] = "chassis"
     /\ Lines("lldp_ios")[3] = "port" /\ Lines("lldp_ios")[4] = "system_name"
     /\ Lines("lldp_ios")[5] = "capabilities" /\ Lines("lldp_ios")[6] = "model"
  /\ Len(Lines("lldp_nxos")) = 6 /\ Lines("lldp_nxos")[1] = "chassis"
     /\ Lines("lldp_nxos")[2] = "port" /\ Lines("lldp_nxos")[3] = "local"
     /\ Lines("lldp_nxos")[4] = "system_name" /\ Lines("lldp_nxos")[5] = "description"
     /\ Lines("lldp_nxos")[6] = "capabilities"
  /\ Len(Lines("transceivers")) = 8 /\ Lines("transceivers")[1] = "slot"
     /\ Lines("transceivers")[2] = "present" /\ Lines("transceivers")[3] = "absent"
     /\ Lines("transceivers")[4] = "type" /\ Lines("transceivers")[5] = "vendor"
     /\ Lines("transceivers")[6] = "part" /\ Lines("transceivers")[7] = "serial"
     /\ Lines("transceivers")[8] = "no_serial"
  /\ Len(Lines("cdp_table")) = 5 /\ Lines("cdp_table")[1] = "row" /\ Lines("cdp_table")[2] = "blank"
     /\ Lines("cdp_table")[3] = "name" /\ Lines("cdp_table")[4] = "rest"
     /\ Lines("cdp_table")[5] = "rest_blank"
  /\ Len(Lines("lldp_table")) = 2 /\ Lines("lldp_table")[1] = "row" /\ Lines("lldp_table")[2] = "blank"
  /\ Len(Lines("stack")) = 2 /\ Lines("stack")[1] = "row" /\ Lines("stack")[2] = "blank"
BY DEF Lines, Readers!Lines

\* The formats.
LEMMA FormatsAre ==
  Readers!Formats = {"cdp", "lldp_ios", "lldp_nxos", "transceivers", "cdp_table", "lldp_table", "stack"}
BY DEF Readers!Formats, Readers!Lines

\* What the device prints in each block.
LEMMA BlocksAre ==
  /\ \A b \in Readers!Blocks("cdp") : "device_id" \in b
  /\ \A b \in Readers!Blocks("lldp_ios") : "local" \in b /\ "chassis" \in b
  /\ \A b \in Readers!Blocks("lldp_nxos") : "chassis" \in b /\ "local" \in b
  /\ \A b \in Readers!Blocks("transceivers") :
       "slot" \in b /\ ~({"present", "absent"} \subseteq b) /\ ~({"serial", "no_serial"} \subseteq b)
  /\ Readers!Blocks("cdp_table") = {{"row"}, {"blank"}, {"name", "rest"}, {"name", "rest_blank"}}
  /\ Readers!Blocks("lldp_table") = {{"row"}, {"blank"}}
  /\ Readers!Blocks("stack") = {{"row"}, {"blank"}}
<1>1. \A f : f \notin Readers!Tables => Readers!Blocks(f) = Readers!Details(f)  BY DEF Readers!Blocks
<1>2. /\ "cdp" \notin Readers!Tables /\ "lldp_ios" \notin Readers!Tables
      /\ "lldp_nxos" \notin Readers!Tables /\ "transceivers" \notin Readers!Tables
  BY DEF Readers!Tables
<1>3. \A f : \A b \in Readers!Details(f) :
        /\ \A i \in 1..Len(Lines(f)) : Lines(f)[i] \in b \/ Lines(f)[i] \in Readers!MayMiss
        /\ ~({"present", "absent"} \subseteq b) /\ ~({"serial", "no_serial"} \subseteq b)
  BY DEF Readers!Details, Readers!Kinds, Lines
<1>4. /\ "device_id" \notin Readers!MayMiss /\ "local" \notin Readers!MayMiss
      /\ "chassis" \notin Readers!MayMiss /\ "slot" \notin Readers!MayMiss
  BY DEF Readers!MayMiss
<1>5. \A b \in Readers!Details("cdp") : "device_id" \in b
  <2>1. 1 \in 1..Len(Lines("cdp"))  BY LinesAre
  <2> QED BY <1>3, <1>4, <2>1, LinesAre
<1>6. \A b \in Readers!Details("lldp_ios") : "local" \in b /\ "chassis" \in b
  <2>1. 1 \in 1..Len(Lines("lldp_ios")) /\ 2 \in 1..Len(Lines("lldp_ios"))  BY LinesAre
  <2> QED BY <1>3, <1>4, <2>1, LinesAre
<1>7. \A b \in Readers!Details("lldp_nxos") : "local" \in b /\ "chassis" \in b
  <2>1. 1 \in 1..Len(Lines("lldp_nxos")) /\ 3 \in 1..Len(Lines("lldp_nxos"))  BY LinesAre
  <2> QED BY <1>3, <1>4, <2>1, LinesAre
<1>8. \A b \in Readers!Details("transceivers") : "slot" \in b
  <2>1. 1 \in 1..Len(Lines("transceivers"))  BY LinesAre
  <2> QED BY <1>3, <1>4, <2>1, LinesAre
<1>9. /\ Readers!Blocks("cdp_table") = {{"row"}, {"blank"}, {"name", "rest"}, {"name", "rest_blank"}}
      /\ Readers!Blocks("lldp_table") = {{"row"}, {"blank"}}
      /\ Readers!Blocks("stack") = {{"row"}, {"blank"}}
  BY DEF Readers!Blocks, Readers!Tables, Readers!Rows
<1> QED BY <1>1, <1>2, <1>3, <1>5, <1>6, <1>7, <1>8, <1>9

(* Line i of block n is read: the first of the block, or the next one of it. *)
V(i, n) == [line |-> Lines(format)[i], block |-> n]
Reads(i, n) ==
    /\ format' = format /\ result' = result /\ at' = i
    /\ said' \in Seq(Readers!Blocks(format)) /\ Len(said') = n
    /\ i \in 1..Len(Lines(format)) /\ n \in 1..MaxBlocks
    /\ \A b \in 1..Len(said) : said'[b] = said[b]
    /\ said'[n] \in Readers!Blocks(format) /\ Lines(format)[i] \in said'[n]
    /\ Readers!Read(V(i, n))
    /\ \/ /\ n = Len(said) + 1 /\ result = None
          /\ Len(said) > 0 => \A j \in 1..Len(Lines(format)) : j > at => Lines(format)[j] \notin said[Len(said)]
          /\ \A j \in 1..Len(Lines(format)) : j < i => Lines(format)[j] \notin said'[n]
       \/ /\ n = Len(said) /\ said' = said /\ i > at /\ at \in 1..Len(Lines(format))
          /\ \A j \in 1..Len(Lines(format)) : at < j /\ j < i => Lines(format)[j] \notin said'[n]

\* What Append does.
LEMMA Appended ==
  ASSUME NEW S, NEW s \in Seq(S), NEW e
  PROVE  /\ Append(s, e) \in Seq(S \cup {e})
         /\ Len(Append(s, e)) = Len(s) + 1
         /\ DOMAIN Append(s, e) = 1..(Len(s) + 1)
         /\ Append(s, e)[Len(s) + 1] = e
         /\ \A i \in 1..Len(s) : Append(s, e)[i] = s[i]
<1>1. s \in Seq(S \cup {e})  OBVIOUS
<1> QED BY <1>1

\* Before anything is said there is no last block.
LEMMA Silence == ASSUME NEW S, NEW s \in Seq(S) PROVE (s = <<>> <=> Len(s) = 0) /\ Len(s) \in Nat
OBVIOUS

\* A step reads a line or ends.
LEMMA OneLine ==
  ASSUME ReaderBase, Readers!Begin \/ Readers!GoOn
  PROVE  \E i, n : Reads(i, n)
<1> DEFINE N == Len(said)
<1>1. said \in Seq(Readers!Blocks(format)) /\ N \in Nat /\ (said = <<>> <=> N = 0)
  BY Silence DEF ReaderBase
<1>2. Readers!Places = 1..Len(Lines(format))  BY DEF Readers!Places, Lines
<1>3. MaxBlocks \in Nat  BY DecisionsAssumption DEF Assumptions, Readers!Assumptions
<1>4. CASE Readers!Begin
  <2>1. PICK b \in Readers!Blocks(format) :
          said' = Append(said, b) /\ Readers!NextLine(b, N + 1, 0)
    BY <1>4 DEF Readers!Begin
  <2>2. PICK i \in Readers!Places :
          /\ i > 0 /\ Lines(format)[i] \in b
          /\ \A j \in Readers!Places : 0 < j /\ j < i => Lines(format)[j] \notin b
          /\ Readers!Read(V(i, N + 1)) /\ at' = i
    BY <2>1 DEF Readers!NextLine, Lines, V
  <2>3. /\ said' \in Seq(Readers!Blocks(format)) /\ Len(said') = N + 1
        /\ said'[N + 1] = b /\ \A k \in 1..N : said'[k] = said[k]
    BY <1>1, <2>1, Appended
  <2>4. N + 1 \in 1..MaxBlocks  BY <1>1, <1>3, <1>4 DEF Readers!Begin
  <2>5. format' = format /\ result' = result /\ result = None  BY <1>4 DEF Readers!Begin
  <2>6. N > 0 => \A j \in 1..Len(Lines(format)) : j > at => Lines(format)[j] \notin said[N]
    BY <1>1, <1>2, <1>4 DEF Readers!Begin, Readers!Whole, Lines
  <2>7. Reads(i, N + 1)
    BY <1>2, <2>2, <2>3, <2>4, <2>5, <2>6 DEF Reads
  <2> QED BY <2>7
<1>5. CASE Readers!GoOn
  <2>1. /\ ~Readers!Whole /\ Readers!NextLine(said[N], N, at)
        /\ format' = format /\ said' = said /\ result' = result
    BY <1>5 DEF Readers!GoOn
  <2>2. N > 0  BY <1>1, <2>1 DEF Readers!Whole
  <2>3. PICK i \in Readers!Places :
          /\ i > at /\ Lines(format)[i] \in said[N]
          /\ \A j \in Readers!Places : at < j /\ j < i => Lines(format)[j] \notin said[N]
          /\ Readers!Read(V(i, N)) /\ at' = i
    BY <2>1 DEF Readers!NextLine, Lines, V
  <2>4. N \in 1..MaxBlocks  BY <1>1, <1>3, <2>2 DEF ReaderBase
  <2>5. said[N] \in Readers!Blocks(format)  BY <1>1, <2>2
  <2>6. at \in 1..Len(Lines(format))  BY <2>2 DEF ReaderBase
  <2>7. Reads(i, N)
    BY <1>1, <1>2, <2>1, <2>3, <2>4, <2>5, <2>6 DEF Reads
  <2> QED BY <2>7
<1> QED BY <1>4, <1>5

-----------------------------------------------------------------------------
(* Entries.  One is of a block if all its fields are.                        *)
Mine(e, b) == DOMAIN e # {} /\ \A f \in DOMAIN e : e[f].block = b
Named(e) == {"name", "local"} \subseteq DOMAIN e
Upto(s, n) == \A i \in DOMAIN s : \E b \in 1..n : Mine(s[i], b)
Apart(s) == \A i, j \in DOMAIN s : \A b : Mine(s[i], b) /\ Mine(s[j], b) => i = j
Tells(s, b) == \E i \in DOMAIN s : Mine(s[i], b)
IsList(s) == \E S : s \in Seq(S)

\* The value read is of the block.
LEMMA ValueOf == \A i, n : V(i, n).line = Lines(format)[i] /\ V(i, n).block = n
BY DEF V

\* An entry with other fields.
LEMMA Fields ==
  ASSUME NEW e, NEW fs, NEW v
  PROVE  /\ DOMAIN Readers!With(e, fs, v) = DOMAIN e \cup fs
         /\ \A f \in DOMAIN e \cup fs : Readers!With(e, fs, v)[f] = IF f \in fs THEN v ELSE e[f]
BY DEF Readers!With

\* It stays of its block.
LEMMA FieldsOfBlock ==
  ASSUME NEW e, NEW n, \A f \in DOMAIN e : e[f].block = n, NEW fs, fs # {}, NEW v, v.block = n
  PROVE  Mine(Readers!With(e, fs, v), n)
<1> DEFINE w == Readers!With(e, fs, v)
<1>1. DOMAIN w = DOMAIN e \cup fs /\ \A f \in DOMAIN e \cup fs : w[f] = IF f \in fs THEN v ELSE e[f]
  BY Fields
<1> HIDE DEF w
<1>2. DOMAIN w # {}  BY <1>1
<1>3. \A f \in DOMAIN w : w[f].block = n  BY <1>1
<1> QED BY <1>2, <1>3 DEF Mine, w

\* No entry is of two blocks.
LEMMA MineIsOne == ASSUME NEW e, NEW a, NEW b, Mine(e, a), Mine(e, b) PROVE a = b
BY DEF Mine

\* An entry of a later block is apart from the entries of earlier ones.
LEMMA AddEntry ==
  ASSUME NEW s, IsList(s), NEW m \in Nat, Upto(s, m), Apart(s), NEW n \in Nat, m < n,
         NEW e, Mine(e, n)
  PROVE  LET t == Append(s, e)
         IN IsList(t) /\ Upto(t, n) /\ Apart(t) /\ Tells(t, n) /\ \A b : Tells(s, b) => Tells(t, b)
<1> DEFINE t == Append(s, e)
           N == Len(s)
<1>1. PICK S : s \in Seq(S)  BY DEF IsList
<1>2. /\ t \in Seq(S \cup {e}) /\ DOMAIN t = 1..(N + 1)
      /\ t[N + 1] = e /\ \A i \in 1..N : t[i] = s[i]
  BY <1>1, Appended
<1>3. N \in Nat /\ DOMAIN s = 1..N  BY <1>1
<1> HIDE DEF t, N
<1>4. \A i \in DOMAIN t : i = N + 1 \/ i \in 1..N  BY <1>2, <1>3
<1>5. N + 1 \in DOMAIN t /\ \A i \in 1..N : i \in DOMAIN t  BY <1>2, <1>3
<1>6. IsList(t)  BY <1>2 DEF IsList
<1>7. Upto(t, n)
  <2>1. n \in 1..n /\ 1..m \subseteq 1..n  OBVIOUS
  <2> QED BY <1>2, <1>3, <1>4, <2>1 DEF Upto
<1>8. \A i \in 1..N : ~Mine(s[i], n)
  <2>1. \A b \in 1..m : b # n  OBVIOUS
  <2> QED BY <1>3, <2>1, MineIsOne DEF Upto
<1>9. Apart(t)
  <2> SUFFICES ASSUME NEW i \in DOMAIN t, NEW j \in DOMAIN t, NEW b, Mine(t[i], b), Mine(t[j], b)
               PROVE  i = j
    BY DEF Apart
  <2>1. CASE i \in 1..N /\ j \in 1..N  BY <1>2, <1>3, <2>1 DEF Apart
  <2>2. CASE i = N + 1 /\ j \in 1..N
    <3>1. b = n  BY <1>2, <2>2, MineIsOne
    <3> QED BY <1>2, <1>8, <2>2, <3>1
  <2>3. CASE j = N + 1 /\ i \in 1..N
    <3>1. b = n  BY <1>2, <2>3, MineIsOne
    <3> QED BY <1>2, <1>8, <2>3, <3>1
  <2> QED BY <1>4, <2>1, <2>2, <2>3
<1>10. Tells(t, n)  BY <1>2, <1>5 DEF Tells
<1>11. \A b : Tells(s, b) => Tells(t, b)  BY <1>2, <1>3, <1>5 DEF Tells
<1> QED BY <1>6, <1>7, <1>9, <1>10, <1>11 DEF t

\* Nothing said is nothing entered.
LEMMA NoEntries == IsList(<<>>) /\ \A n : Upto(<<>>, n) /\ Apart(<<>>)
<1>1. DOMAIN <<>> = {}  OBVIOUS
<1>2. <<>> \in Seq({})  OBVIOUS
<1> QED BY <1>1, <1>2 DEF IsList, Upto, Apart

\* What counts as an entry when the next one begins: the current one, if it has a
\* name and a local interface.
LEMMA Finishing ==
  ASSUME IsList(entries), NEW n \in Nat \ {0}, Upto(entries, n - 1), Apart(entries),
         Mine(current, n)
  PROVE  LET t == Readers!Finalized
         IN /\ IsList(t) /\ Upto(t, n) /\ Apart(t)
            /\ \A b : Tells(entries, b) => Tells(t, b)
            /\ Named(current) => Tells(t, n)
<1>1. CASE Named(current)
  <2>1. Readers!Finalized = Append(entries, current)  BY <1>1 DEF Readers!Finalized, Named
  <2>2. n - 1 \in Nat /\ n \in Nat /\ n - 1 < n  OBVIOUS
  <2> QED BY <1>1, <2>1, <2>2, AddEntry
<1>2. CASE ~Named(current)
  <2>1. Readers!Finalized = entries  BY <1>2 DEF Readers!Finalized, Named
  <2>2. Upto(entries, n)
    <3>1. 1..(n - 1) \subseteq 1..n  OBVIOUS
    <3> QED BY <3>1 DEF Upto
  <2> QED BY <1>2, <2>1, <2>2
<1> QED BY <1>1, <1>2

-----------------------------------------------------------------------------
(* Neighbours in detail.  The entry being read is of the last block, the     *)
(* entries are those of the blocks before; the marker is the line without    *)
(* which a block makes no entry, since it brings the second of the fields    *)
(* name and local.                                                           *)
Marker == IF format = "cdp" THEN "interface" ELSE "system_name"
MarkerPlace == IF format = "cdp" THEN 3 ELSE 4
Collected ==
    LET n == Len(said)
    IN n > 0 => /\ Mine(current, n) /\ Upto(entries, n - 1) /\ Apart(entries)
                /\ \A b \in 1..(n - 1) : Marker \in said[b] => Tells(entries, b)
                /\ Marker \in said[n] /\ at >= MarkerPlace => Named(current)
CdpInv == format = "cdp" => Collected /\ (Len(said) > 0 => "name" \in DOMAIN current)
(* NX-OS says the local interface in every block, in the third line.         *)
NxosInv ==
    format = "lldp_nxos" =>
      Collected /\ (Len(said) > 0 => ("local" \in DOMAIN current <=> at >= 3)
                                     /\ (at < 3 => "name" \in DOMAIN current))
(* IOS says it in the first, and the chassis, in the next, drops it.         *)
IosInv ==
    format = "lldp_ios" =>
      entries = <<>> /\ (Len(said) > 0 => IF at = 1 THEN DOMAIN current = {"local"}
                                          ELSE "local" \notin DOMAIN current)

\* When a block is whole, its entry is finished: the entries are those of all blocks.
LEMMA Finished ==
  ASSUME ReaderBase, Collected, format \in {"cdp", "lldp_nxos"},
         Len(said) > 0 =>
           \A j \in 1..Len(Lines(format)) : j > at => Lines(format)[j] \notin said[Len(said)]
  PROVE  LET t == Readers!Finalized
         IN /\ IsList(t) /\ Upto(t, Len(said)) /\ Apart(t)
            /\ \A b \in 1..Len(said) : Marker \in said[b] => Tells(t, b)
<1> DEFINE N == Len(said)
           t == Readers!Finalized
<1>1. N \in Nat  BY Silence DEF ReaderBase
<1>2. CASE N = 0
  <2>1. current = <<>> /\ entries = <<>>  BY <1>2 DEF ReaderBase
  <2>2. DOMAIN current = {}  BY <2>1
  <2>3. t = <<>>  BY <2>1, <2>2 DEF Readers!Finalized
  <2>4. 1..N = {}  BY <1>2
  <2>5. IsList(t) /\ Upto(t, N) /\ Apart(t)  BY <2>3, NoEntries
  <2>6. \A b \in 1..N : Marker \in said[b] => Tells(t, b)  BY <2>4
  <2> QED BY <2>5, <2>6
<1>3. CASE N > 0
  <2>1. IsList(entries)  BY DEF ReaderBase, IsList
  <2>2. N \in Nat \ {0}  BY <1>1, <1>3
  <2>3. /\ IsList(t) /\ Upto(t, N) /\ Apart(t)
        /\ \A b : Tells(entries, b) => Tells(t, b)
        /\ Named(current) => Tells(t, N)
    BY <1>3, <2>1, <2>2, Finishing DEF Collected
  <2>4. MarkerPlace \in 1..Len(Lines(format)) /\ Lines(format)[MarkerPlace] = Marker
    <3>1. CASE format = "cdp"  BY <3>1, LinesAre DEF Marker, MarkerPlace
    <3>2. CASE format = "lldp_nxos"  BY <3>2, LinesAre DEF Marker, MarkerPlace
    <3> QED BY <3>1, <3>2
  <2>5. at \in Nat /\ MarkerPlace \in Nat  BY <1>3 DEF ReaderBase, MarkerPlace
  <2>6. Marker \in said[N] => at >= MarkerPlace  BY <1>3, <2>4, <2>5
  <2>7. Marker \in said[N] => Tells(t, N)  BY <1>3, <2>3, <2>6 DEF Collected
  <2>8. \A b \in 1..N : b = N \/ b \in 1..(N - 1)  BY <1>1
  <2>9. \A b \in 1..(N - 1) : Marker \in said[b] => Tells(t, b)  BY <1>3, <2>3 DEF Collected
  <2> QED BY <2>3, <2>7, <2>8, <2>9
<1> QED BY <1>1, <1>2, <1>3

\* A block begins: the next entry has one field, and the last one is finished.
LEMMA BlockBegins ==
  ASSUME ReaderBase, Collected, format \in {"cdp", "lldp_nxos"}, NEW i, NEW n, Reads(i, n),
         n = Len(said) + 1, i = 1, entries' = Readers!Finalized, Mine(current', n)
  PROVE  Collected'
<1> DEFINE N == Len(said)
<1>1. N \in Nat  BY Silence DEF ReaderBase
<1>2. /\ Len(said') = n /\ format' = format /\ at' = 1
      /\ \A b \in 1..N : said'[b] = said[b]
      /\ N > 0 => \A j \in 1..Len(Lines(format)) : j > at => Lines(format)[j] \notin said[N]
  BY <1>1 DEF Reads
<1>3. /\ Upto(entries', N) /\ Apart(entries')
      /\ \A b \in 1..N : Marker \in said[b] => Tells(entries', b)
  BY <1>2, Finished
<1>4. Marker' = Marker /\ MarkerPlace' = MarkerPlace /\ MarkerPlace \in {3, 4}
  BY <1>2 DEF Marker, MarkerPlace
<1>5. n - 1 = N  BY <1>1
<1>6. \A b \in 1..(n - 1) : Marker' \in said'[b] => Tells(entries', b)  BY <1>2, <1>3, <1>4, <1>5
<1>7. ~(at' >= MarkerPlace')  BY <1>2, <1>4
<1> QED BY <1>2, <1>3, <1>5, <1>6, <1>7 DEF Collected

\* A block goes on: the current entry gets another field.
LEMMA BlockGoesOn ==
  ASSUME ReaderBase, Collected, format \in {"cdp", "lldp_nxos"}, NEW i, NEW n, Reads(i, n),
         n = Len(said), n > 0, said' = said, entries' = entries,
         NEW fs, fs # {}, current' = Readers!With(current, fs, V(i, n)),
         Marker \in said[n] /\ i >= MarkerPlace => Named(current')
  PROVE  Collected'
<1>1. Len(said') = n /\ format' = format /\ at' = i  BY DEF Reads
<1>2. Mine(current', n)
  <2>1. \A f \in DOMAIN current : current[f].block = n  BY DEF Collected, Mine
  <2> QED BY <2>1, FieldsOfBlock, ValueOf
<1>3. Marker' = Marker /\ MarkerPlace' = MarkerPlace  BY <1>1 DEF Marker, MarkerPlace
<1>4. /\ Upto(entries', n - 1) /\ Apart(entries')
      /\ \A b \in 1..(n - 1) : Marker' \in said'[b] => Tells(entries', b)
  BY <1>3 DEF Collected
<1> QED BY <1>1, <1>2, <1>3, <1>4 DEF Collected

\* The details of CDP, line by line.
LEMMA CdpStep ==
  ASSUME ReaderBase, CdpInv, format = "cdp", NEW i, NEW n, Reads(i, n)
  PROVE  CdpInv' /\ IsList(entries') /\ DOMAIN current' \subseteq FieldNames
         /\ unfinished' = unfinished
<1> DEFINE v == V(i, n)
<1>1. /\ v.line = Lines("cdp")[i] /\ v.block = n /\ Readers!Read(v) /\ format' = format
      /\ i \in {1, 2, 3} /\ Len(said') = n /\ at' = i
  BY ValueOf, LinesAre DEF Reads
<1>2. /\ Len(said) \in Nat /\ IsList(entries) /\ DOMAIN current \subseteq FieldNames
      /\ Collected /\ (Len(said) > 0 => "name" \in DOMAIN current)
  BY Silence DEF ReaderBase, IsList, CdpInv
<1>3. Readers!CdpLine(v) /\ unfinished' = unfinished  BY <1>1 DEF Readers!Read
<1>4. Marker = "interface" /\ MarkerPlace = 3  BY DEF Marker, MarkerPlace
<1> HIDE DEF v
<1>5. CASE n = Len(said) + 1
  <2>1. "device_id" \in said'[n]  BY BlocksAre DEF Reads
  <2>2. i = 1
    <3>1. \A j \in 1..3 : j < i => Lines("cdp")[j] \notin said'[n]
      BY <1>2, <1>5, LinesAre DEF Reads
    <3> QED BY <1>1, <2>1, <3>1, LinesAre
  <2>3. current' = [name |-> v] /\ entries' = Readers!Finalized
    BY <1>1, <1>3, <2>2, LinesAre DEF Readers!CdpLine
  <2>4. DOMAIN current' = {"name"} /\ Mine(current', n)  BY <1>1, <2>3 DEF Mine
  <2>5. Collected'  BY <1>2, <1>5, <2>2, <2>3, <2>4, BlockBegins
  <2>6. IsList(entries')
    <3>1. Len(said) > 0 =>
            \A j \in 1..Len(Lines(format)) : j > at => Lines(format)[j] \notin said[Len(said)]
      BY <1>2, <1>5 DEF Reads
    <3> QED BY <1>2, <2>3, <3>1, Finished
  <2> QED BY <1>1, <1>3, <2>4, <2>5, <2>6 DEF CdpInv, FieldNames
<1>6. CASE n # Len(said) + 1
  <2>1. n = Len(said) /\ said' = said /\ i > at /\ at \in 1..3 /\ n > 0
    BY <1>1, <1>6, LinesAre DEF Reads
  <2> DEFINE fs == IF i = 2 THEN {"platform", "capabilities"} ELSE {"local", "port"}
  <2>2. i \in {2, 3}  BY <1>1, <2>1
  <2>3. current' = Readers!With(current, fs, v) /\ entries' = entries
    BY <1>1, <1>3, <2>2, LinesAre DEF Readers!CdpLine
  <2>4. DOMAIN current' = DOMAIN current \cup fs
    <3> HIDE DEF fs
    <3> QED BY <2>3, Fields
  <2>5. i = 3 => Named(current')  BY <1>2, <2>1, <2>4 DEF Named
  <2>6. Collected'
    <3>1. fs # {}  OBVIOUS
    <3>2. Marker \in said[n] /\ i >= MarkerPlace => Named(current')  BY <1>4, <2>2, <2>5
    <3> HIDE DEF fs
    <3> QED BY <1>2, <2>1, <2>3, <3>1, <3>2, BlockGoesOn DEF v
  <2> QED BY <1>1, <1>2, <1>3, <2>1, <2>3, <2>4, <2>6 DEF CdpInv, FieldNames
<1> QED BY <1>5, <1>6

\* The details of LLDP: what each line makes of the current entry.
LEMMA LldpReads ==
  ASSUME NEW v, Readers!LldpLine(v)
  PROVE  /\ v.line = "chassis" => /\ current' = Readers!With(Readers!Kept, {"name"}, v)
                                  /\ entries' = Readers!Finalized
         /\ v.line = "local" => current' = [local |-> v] /\ entries' = Readers!Finalized
         /\ v.line \in {"port", "system_name", "capabilities", "model", "description"} =>
              /\ entries' = entries
              /\ \E fs \in {{"port"}, {"name"}, {"capabilities"}, {"platform"}} :
                   /\ current' = Readers!With(current, fs, v)
                   /\ "name" \in fs <=> v.line = "system_name"
BY DEF Readers!LldpLine, Readers!LldpField

\* Those of NX-OS, line by line.
LEMMA NxosStep ==
  ASSUME ReaderBase, NxosInv, format = "lldp_nxos", NEW i, NEW n, Reads(i, n)
  PROVE  NxosInv' /\ IsList(entries') /\ DOMAIN current' \subseteq FieldNames
         /\ unfinished' = unfinished
<1> DEFINE v == V(i, n)
<1>1. /\ v.line = Lines("lldp_nxos")[i] /\ v.block = n /\ Readers!Read(v) /\ format' = format
      /\ i \in 1..6 /\ Len(said') = n /\ at' = i
  BY ValueOf, LinesAre DEF Reads
<1>2. /\ Len(said) \in Nat /\ IsList(entries) /\ DOMAIN current \subseteq FieldNames
      /\ Collected /\ (Len(said) > 0 => /\ "local" \in DOMAIN current <=> at >= 3
                                        /\ at < 3 => "name" \in DOMAIN current)
  BY Silence DEF ReaderBase, IsList, NxosInv
<1>3. Readers!LldpLine(v) /\ unfinished' = unfinished  BY <1>1 DEF Readers!Read
<1>4. Marker = "system_name" /\ MarkerPlace = 4  BY DEF Marker, MarkerPlace
<1>5. "chassis" \in said'[n] /\ "local" \in said'[n]  BY BlocksAre DEF Reads
<1> HIDE DEF v
<1>6. CASE n = Len(said) + 1
  <2>1. i = 1
    <3>1. \A j \in 1..6 : j < i => Lines("lldp_nxos")[j] \notin said'[n]
      <4>1. \A j \in 1..Len(Lines(format)) : j < i => Lines(format)[j] \notin said'[n]
        BY <1>2, <1>6 DEF Reads
      <4>2. Len(Lines(format)) = 6  BY LinesAre
      <4> QED BY <4>1, <4>2
    <3> QED BY <1>1, <1>5, <3>1, LinesAre
  <2>2. current' = Readers!With(Readers!Kept, {"name"}, v) /\ entries' = Readers!Finalized
    BY <1>1, <1>3, <2>1, LinesAre, LldpReads
  <2>3. DOMAIN Readers!Kept = {}
    <3>1. CASE Len(said) = 0  BY <3>1 DEF ReaderBase, Readers!Kept
    <3>2. CASE Len(said) > 0
      <4>1. "local" \in DOMAIN current \/ "name" \in DOMAIN current
        <5>1. at \in Nat  BY <3>2 DEF ReaderBase
        <5> QED BY <1>2, <3>2, <5>1
      <4>2. DOMAIN <<>> = {}  OBVIOUS
      <4> QED BY <4>1, <4>2 DEF Readers!Kept
    <3> QED BY <1>2, <3>1, <3>2
  <2>4. DOMAIN current' = {"name"}
    <3>1. DOMAIN current' = DOMAIN Readers!Kept \cup {"name"}  BY <2>2, Fields, Zenon
    <3> QED BY <2>3, <3>1
  <2>5. Mine(current', n)  BY <1>1, <2>2, <2>3, FieldsOfBlock
  <2>6. Collected'  BY <1>2, <1>6, <2>1, <2>2, <2>5, BlockBegins
  <2>7. IsList(entries')
    <3>1. Len(said) > 0 =>
            \A j \in 1..Len(Lines(format)) : j > at => Lines(format)[j] \notin said[Len(said)]
      BY <1>2, <1>6 DEF Reads
    <3> QED BY <1>2, <2>2, <3>1, Finished
  <2> QED BY <1>1, <1>3, <2>1, <2>4, <2>6, <2>7 DEF NxosInv, FieldNames
<1>7. CASE n # Len(said) + 1
  <2>1. /\ n = Len(said) /\ said' = said /\ i > at /\ at \in 1..6 /\ n > 0
        /\ \A j \in 1..6 : at < j /\ j < i => Lines("lldp_nxos")[j] \notin said'[n]
    BY <1>1, <1>7, LinesAre DEF Reads
  <2>2. CASE i = 3
    <3>1. current' = [local |-> v] /\ entries' = Readers!Finalized
      BY <1>1, <1>3, <2>2, LinesAre, LldpReads
    <3>2. "local" \notin DOMAIN current  BY <1>2, <2>1, <2>2
    <3>3. entries' = entries  BY <3>1, <3>2 DEF Readers!Finalized
    <3>4. DOMAIN current' = {"local"} /\ Mine(current', n)  BY <1>1, <3>1 DEF Mine
    <3>5. Marker' = Marker /\ MarkerPlace' = MarkerPlace  BY <1>1 DEF Marker, MarkerPlace
    <3>6. Collected'
      BY <1>1, <1>2, <1>4, <2>1, <2>2, <3>3, <3>4, <3>5 DEF Collected
    <3> QED BY <1>1, <1>2, <1>3, <2>2, <3>3, <3>4, <3>6 DEF NxosInv, FieldNames
  <2>3. CASE i # 3
    <3>1. v.line \in {"port", "system_name", "capabilities", "description"}
          /\ (v.line = "system_name" <=> i = 4)
      BY <1>1, <2>1, <2>3, LinesAre
    <3>2. PICK fs \in {{"port"}, {"name"}, {"capabilities"}, {"platform"}} :
            current' = Readers!With(current, fs, v) /\ ("name" \in fs <=> i = 4)
      BY <1>3, <3>1, LldpReads
    <3>3. entries' = entries  BY <1>3, <3>1, LldpReads
    <3>4. DOMAIN current' = DOMAIN current \cup fs  BY <3>2, Fields
    <3>5. i >= 3 => at >= 3
      <4>1. CASE i > 3 /\ at < 3  BY <1>5, <2>1, <4>1, LinesAre
      <4> QED BY <1>1, <2>1, <2>3, <4>1
    <3>6. ("local" \in DOMAIN current' <=> i >= 3)
      BY <1>1, <1>2, <2>1, <2>3, <3>2, <3>4, <3>5
    <3>7. i < 3 => "name" \in DOMAIN current'
      BY <1>1, <1>2, <2>1, <3>4
    <3>8. Marker \in said[n] /\ i >= MarkerPlace => Named(current')
      <4> SUFFICES ASSUME "system_name" \in said[n], i >= 4 PROVE Named(current')
        BY <1>4
      <4>1. CASE i = 4  BY <3>2, <3>4, <3>6, <4>1 DEF Named
      <4>2. CASE i > 4
        <5>1. at >= 4  BY <2>1, <4>2, LinesAre
        <5>2. Named(current)  BY <1>2, <1>4, <2>1, <5>1 DEF Collected
        <5> QED BY <3>4, <5>2 DEF Named
      <4> QED BY <1>1, <4>1, <4>2
    <3>9. Collected'
      <4>1. fs # {}  OBVIOUS
      <4> QED BY <1>2, <2>1, <3>2, <3>3, <3>8, <4>1, BlockGoesOn DEF v
    <3> QED BY <1>1, <1>2, <1>3, <2>1, <3>3, <3>4, <3>6, <3>7, <3>9 DEF NxosInv, FieldNames
  <2> QED BY <2>2, <2>3
<1> QED BY <1>6, <1>7

\* Those of IOS: the local interface and a name never meet.
LEMMA IosStep ==
  ASSUME ReaderBase, IosInv, format = "lldp_ios", NEW i, NEW n, Reads(i, n)
  PROVE  IosInv' /\ IsList(entries') /\ DOMAIN current' \subseteq FieldNames
         /\ unfinished' = unfinished
<1> DEFINE v == V(i, n)
<1>1. /\ v.line = Lines("lldp_ios")[i] /\ v.block = n /\ Readers!Read(v) /\ format' = format
      /\ i \in 1..6 /\ Len(said') = n /\ at' = i /\ Len(Lines(format)) = 6
  BY ValueOf, LinesAre DEF Reads
<1>2. /\ Len(said) \in Nat /\ IsList(entries) /\ DOMAIN current \subseteq FieldNames
      /\ entries = <<>>
      /\ Len(said) > 0 => IF at = 1 THEN DOMAIN current = {"local"} ELSE "local" \notin DOMAIN current
      /\ Len(said) = 0 => current = <<>>
  BY Silence DEF ReaderBase, IsList, IosInv
<1>3. Readers!LldpLine(v) /\ unfinished' = unfinished  BY <1>1 DEF Readers!Read
<1>4. "chassis" \in said'[n] /\ "local" \in said'[n]  BY BlocksAre DEF Reads
<1>5. DOMAIN <<>> = {}  OBVIOUS
<1>6. Readers!Finalized = entries
  <2>1. ~Named(current)  BY <1>2, <1>5 DEF Named
  <2> QED BY <2>1 DEF Readers!Finalized, Named
<1> HIDE DEF v
<1>7. CASE n = Len(said) + 1
  <2>1. i = 1
    <3>1. \A j \in 1..6 : j < i => Lines("lldp_ios")[j] \notin said'[n]
      BY <1>1, <1>2, <1>7 DEF Reads
    <3> QED BY <1>1, <1>4, <3>1, LinesAre
  <2>2. current' = [local |-> v] /\ entries' = Readers!Finalized
    BY <1>1, <1>3, <2>1, LinesAre, LldpReads
  <2>3. DOMAIN current' = {"local"}  BY <2>2
  <2> QED BY <1>1, <1>2, <1>3, <1>6, <2>1, <2>2, <2>3 DEF IosInv, FieldNames
<1>8. CASE n # Len(said) + 1
  <2>1. /\ n = Len(said) /\ said' = said /\ i > at /\ at \in 1..6 /\ n > 0
        /\ \A j \in 1..6 : at < j /\ j < i => Lines("lldp_ios")[j] \notin said'[n]
    BY <1>1, <1>8 DEF Reads
  <2>2. i > 1 /\ (i > 2 => at # 1)
    <3>1. CASE i > 2 /\ at = 1  BY <1>4, <2>1, <3>1, LinesAre
    <3> QED BY <1>1, <2>1, <3>1
  <2>3. CASE i = 2
    <3>1. current' = Readers!With(Readers!Kept, {"name"}, v) /\ entries' = Readers!Finalized
      BY <1>1, <1>3, <2>3, LinesAre, LldpReads
    <3>2. DOMAIN Readers!Kept = {}
      <4>1. "local" \in DOMAIN current  BY <1>2, <2>1, <2>3
      <4> QED BY <1>5, <4>1 DEF Readers!Kept
    <3>3. DOMAIN current' = {"name"}
      <4>1. DOMAIN current' = DOMAIN Readers!Kept \cup {"name"}  BY <3>1, Fields, Zenon
      <4> QED BY <3>2, <4>1
    <3> QED BY <1>1, <1>2, <1>3, <1>6, <2>3, <3>1, <3>3 DEF IosInv, FieldNames
  <2>4. CASE i > 2
    <3>1. v.line \in {"port", "system_name", "capabilities", "model"}
      BY <1>1, <2>4, LinesAre
    <3>2. PICK fs \in {{"port"}, {"name"}, {"capabilities"}, {"platform"}} :
            current' = Readers!With(current, fs, v)
      BY <1>3, <3>1, LldpReads
    <3>3. entries' = entries  BY <1>3, <3>1, LldpReads
    <3>4. DOMAIN current' = DOMAIN current \cup fs  BY <3>2, Fields
    <3>5. "local" \notin DOMAIN current'  BY <1>2, <2>1, <2>2, <2>4, <3>4
    <3> QED BY <1>1, <1>2, <1>3, <2>4, <3>3, <3>4, <3>5 DEF IosInv, FieldNames
  <2> QED BY <1>1, <2>2, <2>3, <2>4
<1> QED BY <1>7, <1>8

-----------------------------------------------------------------------------
(* Tables of one line to a row: an entry for each, of it alone.              *)
TableInv ==
    format \in {"lldp_table", "stack"} =>
      /\ current = <<>> /\ Upto(entries, Len(said)) /\ Apart(entries)
      /\ \A b \in 1..Len(said) : said[b] = {"row"} => Tells(entries, b)

\* The table of LLDP neighbours and that of stack members, row by row.
LEMMA TableStep ==
  ASSUME ReaderBase, TableInv, format \in {"lldp_table", "stack"}, NEW i, NEW n, Reads(i, n)
  PROVE  TableInv' /\ IsList(entries') /\ DOMAIN current' \subseteq FieldNames
         /\ unfinished' = unfinished
<1> DEFINE v == V(i, n)
           N == Len(said)
<1>1. Len(Lines(format)) = 2 /\ Lines(format)[1] = "row" /\ Lines(format)[2] = "blank"
  <2>1. CASE format = "lldp_table"  BY <2>1, LinesAre
  <2>2. CASE format = "stack"  BY <2>2, LinesAre
  <2> QED BY <2>1, <2>2
<1>2. Readers!Blocks(format) = {{"row"}, {"blank"}}
  <2>1. CASE format = "lldp_table"  BY <2>1, BlocksAre
  <2>2. CASE format = "stack"  BY <2>2, BlocksAre
  <2> QED BY <2>1, <2>2
<1>3. /\ v.line = Lines(format)[i] /\ v.block = n /\ Readers!Read(v) /\ format' = format
      /\ i \in 1..2 /\ Len(said') = n /\ at' = i
      /\ said'[n] \in {{"row"}, {"blank"}} /\ Lines(format)[i] \in said'[n]
  BY <1>1, <1>2, ValueOf DEF Reads
<1>4. /\ N \in Nat /\ IsList(entries) /\ current = <<>> /\ Upto(entries, N) /\ Apart(entries)
      /\ \A b \in 1..N : said[b] = {"row"} => Tells(entries, b)
      /\ N > 0 => at \in 1..2 /\ Lines(format)[at] \in said[N]
  BY <1>1, Silence DEF ReaderBase, IsList, TableInv
<1>5. Readers!PlainRow(v) /\ current' = current /\ unfinished' = unfinished
  BY <1>3 DEF Readers!Read
<1>6. n = N + 1 /\ \A b \in 1..N : said'[b] = said[b]
  <2>1. CASE n = N /\ said' = said /\ i > at /\ at \in 1..2
    <3>1. i = 2 /\ at = 1 /\ N > 0  BY <1>3, <2>1 DEF Reads
    <3>2. "row" \in said'[n] /\ "blank" \in said'[n]  BY <1>1, <1>3, <1>4, <2>1, <3>1
    <3> QED BY <1>3, <3>2
  <2> QED BY <1>1, <2>1 DEF Reads
<1> HIDE DEF v
<1>7. DOMAIN current' \subseteq FieldNames  BY <1>4, <1>5 DEF ReaderBase
<1>8. \A b \in 1..n : b = n \/ b \in 1..N  BY <1>4, <1>6
<1>9. CASE v.line = "row"
  <2>1. entries' = Append(entries, Readers!Row(v))  BY <1>5, <1>9 DEF Readers!PlainRow
  <2>2. Mine(Readers!Row(v), n)  BY <1>3 DEF Mine, Readers!Row
  <2>3. N < n /\ n \in Nat  BY <1>4, <1>6
  <2>4. /\ IsList(entries') /\ Upto(entries', n) /\ Apart(entries') /\ Tells(entries', n)
        /\ \A b : Tells(entries, b) => Tells(entries', b)
    BY <1>4, <2>1, <2>2, <2>3, AddEntry
  <2>5. \A b \in 1..n : said'[b] = {"row"} => Tells(entries', b)
    BY <1>4, <1>6, <1>8, <2>4
  <2> QED BY <1>3, <1>4, <1>5, <1>7, <2>4, <2>5 DEF TableInv
<1>10. CASE v.line # "row"
  <2>1. entries' = entries  BY <1>5, <1>10 DEF Readers!PlainRow
  <2>2. said'[n] # {"row"}  BY <1>3, <1>10
  <2>3. Upto(entries', n)
    <3>1. 1..N \subseteq 1..n  BY <1>4, <1>6
    <3> QED BY <1>4, <2>1, <3>1 DEF Upto
  <2>4. \A b \in 1..n : said'[b] = {"row"} => Tells(entries', b)
    BY <1>4, <1>6, <1>8, <2>1, <2>2
  <2> QED BY <1>3, <1>4, <1>5, <1>7, <2>1, <2>3, <2>4 DEF TableInv
<1> QED BY <1>9, <1>10

-----------------------------------------------------------------------------
(* Transceivers: the entry of a slot is begun by its line, and has a serial  *)
(* number once the block is past that line.                                  *)
SlotRight(e, b, block) ==
    /\ "slot" \in DOMAIN e /\ Mine(e, b)
    /\ "present" \in DOMAIN e => e["present"].line \in block \cap {"present", "absent"}
    /\ "serial" \in DOMAIN e => e["serial"].line \in block \cap {"serial", "no_serial"}
SlotInv ==
    format = "transceivers" =>
      /\ Len(entries) = Len(said)
      /\ \A k \in 1..Len(said) :
           /\ SlotRight(entries[k], k, said[k])
           /\ "serial" \in said[k] /\ (k < Len(said) \/ at >= 7) => "serial" \in DOMAIN entries[k]

\* An entry of a list changes.
LEMMA Changed ==
  ASSUME NEW s, IsList(s), NEW k \in 1..Len(s), NEW e
  PROVE  LET t == [s EXCEPT ![k] = e]
         IN /\ IsList(t) /\ Len(t) = Len(s) /\ t[k] = e
            /\ \A j \in 1..Len(s) : j # k => t[j] = s[j]
<1> DEFINE t == [s EXCEPT ![k] = e]
<1>1. PICK S : s \in Seq(S)  BY DEF IsList
<1>2. s \in Seq(S \cup {e})  BY <1>1
<1>3. t \in Seq(S \cup {e}) /\ Len(t) = Len(s)  BY <1>2
<1>4. t[k] = e /\ \A j \in 1..Len(s) : j # k => t[j] = s[j]  BY <1>2
<1> QED BY <1>3, <1>4 DEF IsList

\* The transceivers, line by line.
LEMMA SlotStep ==
  ASSUME ReaderBase, SlotInv, format = "transceivers", NEW i, NEW n, Reads(i, n)
  PROVE  SlotInv' /\ IsList(entries') /\ DOMAIN current' \subseteq FieldNames
         /\ unfinished' = unfinished
<1> DEFINE v == V(i, n)
           N == Len(said)
<1>1. /\ v.line = Lines("transceivers")[i] /\ v.block = n /\ Readers!Read(v) /\ format' = format
      /\ i \in 1..8 /\ Len(said') = n /\ at' = i /\ Len(Lines(format)) = 8
      /\ v.line \in said'[n] /\ n \in Nat \ {0}
  <2>1. v.line = Lines("transceivers")[i] /\ v.block = n  BY ValueOf
  <2>2. MaxBlocks \in Nat  BY DecisionsAssumption DEF Assumptions, Readers!Assumptions
  <2>3. n \in Nat \ {0}  BY <2>2 DEF Reads
  <2>4. Len(Lines(format)) = 8  BY LinesAre
  <2>5. i \in 1..8  BY <2>4 DEF Reads
  <2>6. /\ Readers!Read(v) /\ format' = format /\ Len(said') = n /\ at' = i
        /\ Lines(format)[i] \in said'[n]
    BY DEF Reads
  <2> QED BY <2>1, <2>3, <2>4, <2>5, <2>6
<1>2. /\ N \in Nat /\ IsList(entries) /\ DOMAIN current \subseteq FieldNames /\ Len(entries) = N
      /\ \A k \in 1..N :
           /\ SlotRight(entries[k], k, said[k])
           /\ "serial" \in said[k] /\ (k < N \/ at >= 7) => "serial" \in DOMAIN entries[k]
      /\ N > 0 => at \in 1..8
  BY Silence, LinesAre DEF ReaderBase, IsList, SlotInv
<1>3. Readers!SlotLine(v) /\ current' = current /\ unfinished' = unfinished
  BY <1>1 DEF Readers!Read
<1>4. "slot" \in said'[n]  BY BlocksAre DEF Reads
<1>5. DOMAIN current' \subseteq FieldNames  BY <1>2, <1>3
<1> HIDE DEF v
<1>6. CASE n = N + 1
  <2> DEFINE e == [slot |-> v]
  <2>1. i = 1
    <3>1. \A j \in 1..8 : j < i => Lines("transceivers")[j] \notin said'[n]
      BY <1>1, <1>2, <1>6 DEF Reads
    <3> QED BY <1>1, <1>4, <3>1, LinesAre
  <2>2. entries' = Append(entries, e)  BY <1>1, <1>3, <2>1, LinesAre DEF Readers!SlotLine
  <2>3. SlotRight(e, n, said'[n])  BY <1>1 DEF SlotRight, Mine
  <2> HIDE DEF e
  <2>4. PICK S : entries \in Seq(S)  BY <1>2 DEF IsList
  <2>5. /\ entries' \in Seq(S \cup {e}) /\ Len(entries') = n
        /\ entries'[n] = e /\ \A k \in 1..N : entries'[k] = entries[k]
    BY <1>2, <1>6, <2>2, <2>4, Appended
  <2>6. \A b \in 1..N : said'[b] = said[b]  BY DEF Reads
  <2>7. "serial" \in said[N] /\ N > 0 => at >= 7
    <3> SUFFICES ASSUME "serial" \in said[N], N > 0, at < 7 PROVE FALSE
      BY <1>2
    <3>1. \A j \in 1..8 : j > at => Lines("transceivers")[j] \notin said[N]
      BY <1>1, <1>2, <1>6 DEF Reads
    <3> QED BY <3>1, LinesAre
  <2>8. ASSUME NEW k \in 1..n
        PROVE  /\ SlotRight(entries'[k], k, said'[k])
               /\ "serial" \in said'[k] /\ (k < n \/ i >= 7) => "serial" \in DOMAIN entries'[k]
    <3>1. CASE k = n  BY <2>1, <2>3, <2>5, <3>1
    <3>2. CASE k \in 1..N
      <4>1. "serial" \in said[k] => k < N \/ at >= 7  BY <1>2, <2>7, <3>2
      <4> QED BY <1>2, <2>5, <2>6, <3>2, <4>1
    <3> QED BY <1>2, <1>6, <3>1, <3>2
  <2>9. IsList(entries')  BY <2>5 DEF IsList
  <2> QED BY <1>1, <1>3, <1>5, <2>5, <2>8, <2>9 DEF SlotInv
<1>7. CASE n # N + 1
  <2>1. n = N /\ said' = said /\ i > at /\ at \in 1..8 /\ n > 0
    BY <1>1, <1>7 DEF Reads
  <2> DEFINE f == Readers!SlotField[v.line]
             e == Readers!With(entries[n], {f}, v)
  <2>2. i > 1 /\ v.line # "slot"  BY <1>1, <2>1, LinesAre
  <2>3. entries' = [entries EXCEPT ![n] = e]
    <3>1. Len(entries) = n  BY <1>2, <2>1
    <3> QED BY <1>3, <2>2, <3>1 DEF Readers!SlotLine
  <2>4. /\ f = "present" => v.line \in {"present", "absent"}
        /\ f = "serial" => v.line \in {"serial", "no_serial"}
        /\ i >= 7 => f = "serial"
        /\ f # "slot"
    <3>1. v.line \in {"present", "absent", "type", "vendor", "part", "serial", "no_serial"}
          /\ (i >= 7 => v.line \in {"serial", "no_serial"})
      BY <1>1, <2>2, LinesAre
    <3> QED BY <3>1 DEF Readers!SlotField
  <2> HIDE DEF f
  <2>5. /\ DOMAIN e = DOMAIN entries[n] \cup {f}
        /\ \A g \in DOMAIN entries[n] \cup {f} : e[g] = IF g = f THEN v ELSE entries[n][g]
    <3>1. DOMAIN e = DOMAIN entries[n] \cup {f}  BY Fields, Zenon
    <3>2. \A g \in DOMAIN entries[n] \cup {f} : e[g] = IF g \in {f} THEN v ELSE entries[n][g]
      BY Fields, Zenon
    <3> HIDE DEF e
    <3> QED BY <3>1, <3>2
  <2>6. SlotRight(entries[n], n, said[n])  BY <1>2, <2>1
  <2>7. Mine(e, n)
    <3>1. \A g \in DOMAIN entries[n] : entries[n][g].block = n  BY <2>6 DEF SlotRight, Mine
    <3> QED BY <1>1, <3>1, FieldsOfBlock
  <2> HIDE DEF e
  <2>8. SlotRight(e, n, said[n])
    <3>1. v.line \in said[n]  BY <1>1, <2>1
    <3>2. "slot" \in DOMAIN e  BY <2>5, <2>6 DEF SlotRight
    <3>3. "present" \in DOMAIN e => e["present"].line \in said[n] \cap {"present", "absent"}
      <4>1. CASE f = "present"  BY <2>4, <2>5, <3>1, <4>1
      <4>2. CASE f # "present"  BY <2>5, <2>6, <4>2 DEF SlotRight
      <4> QED BY <4>1, <4>2
    <3>4. "serial" \in DOMAIN e => e["serial"].line \in said[n] \cap {"serial", "no_serial"}
      <4>1. CASE f = "serial"  BY <2>4, <2>5, <3>1, <4>1
      <4>2. CASE f # "serial"  BY <2>5, <2>6, <4>2 DEF SlotRight
      <4> QED BY <4>1, <4>2
    <3> QED BY <2>7, <3>2, <3>3, <3>4 DEF SlotRight
  <2>9. i >= 7 => "serial" \in DOMAIN e  BY <2>4, <2>5
  <2>10. /\ IsList(entries') /\ Len(entries') = N /\ entries'[n] = e
         /\ \A j \in 1..N : j # n => entries'[j] = entries[j]
    <3>1. n \in 1..Len(entries) /\ IsList(entries) /\ Len(entries) = N  BY <1>2, <2>1
    <3> DEFINE t == [entries EXCEPT ![n] = e]
    <3>2. /\ IsList(t) /\ Len(t) = Len(entries) /\ t[n] = e
          /\ \A j \in 1..Len(entries) : j # n => t[j] = entries[j]
      BY <3>1, Changed
    <3>3. entries' = t  BY <2>3
    <3> HIDE DEF t
    <3> QED BY <3>1, <3>2, <3>3
  <2>11. ASSUME NEW k \in 1..n
         PROVE  /\ SlotRight(entries'[k], k, said'[k])
                /\ "serial" \in said'[k] /\ (k < n \/ i >= 7) => "serial" \in DOMAIN entries'[k]
    <3>1. CASE k = n  BY <2>1, <2>8, <2>9, <2>10, <3>1
    <3>2. CASE k < n  BY <1>2, <2>1, <2>10, <3>2
    <3> QED BY <2>1, <3>1, <3>2
  <2> QED BY <1>1, <1>2, <1>3, <1>5, <2>1, <2>10, <2>11 DEF SlotInv
<1> QED BY <1>6, <1>7

-----------------------------------------------------------------------------
(* The table of CDP neighbours.  A row whose name is unfinished waits for    *)
(* the next row of five columns, so an entry may be of two blocks; the name  *)
(* that waits is of a block without an entry.                                *)
Cut == {"name", "rest_blank"}
RowRight(e, blocks) ==
    /\ Readers!BlocksOf(e) \subseteq 1..Len(blocks) /\ "name" \in DOMAIN e
    /\ (\E b : Readers!BlocksOf(e) = {b}) \/ blocks[e["name"].block] = Cut
Disjoint(s) ==
    \A i, j \in DOMAIN s : i # j => Readers!BlocksOf(s[i]) \cap Readers!BlocksOf(s[j]) = {}
Rowed(s, b) == \E i \in DOMAIN s : b \in Readers!BlocksOf(s[i])
CdpTableInv ==
    format = "cdp_table" =>
      /\ current = <<>>
      /\ \A i \in DOMAIN entries : RowRight(entries[i], said)
      /\ Disjoint(entries)
      /\ unfinished # None =>
           LET m == unfinished.block
           IN /\ m \in 1..Len(said) /\ ~Rowed(entries, m)
              /\ said[m] = Cut \/ (at = 3 /\ m = Len(said))
      /\ Len(said) > 0 /\ at = 3 => unfinished # None /\ unfinished.block = Len(said)
      /\ \A b \in 1..Len(said) :
           \/ said[b] = {"row"}
           \/ said[b] = {"name", "rest"} /\ (b < Len(said) \/ at = 4)
           => Rowed(entries, b)

\* A row is added whose blocks have no entry yet.
LEMMA AddRow ==
  ASSUME NEW s, IsList(s), Disjoint(s), NEW blocks, \A i \in DOMAIN s : RowRight(s[i], blocks),
         NEW e, RowRight(e, blocks), \A b \in Readers!BlocksOf(e) : ~Rowed(s, b)
  PROVE  LET t == Append(s, e)
         IN /\ IsList(t) /\ Disjoint(t) /\ \A i \in DOMAIN t : RowRight(t[i], blocks)
            /\ \A b : Rowed(t, b) <=> Rowed(s, b) \/ b \in Readers!BlocksOf(e)
<1> DEFINE t == Append(s, e)
           N == Len(s)
<1>1. PICK S : s \in Seq(S)  BY DEF IsList
<1>2. /\ t \in Seq(S \cup {e}) /\ DOMAIN t = 1..(N + 1)
      /\ t[N + 1] = e /\ \A i \in 1..N : t[i] = s[i]
  BY <1>1, Appended
<1>3. N \in Nat /\ DOMAIN s = 1..N  BY <1>1
<1> HIDE DEF t, N
<1>4. \A i \in DOMAIN t : i = N + 1 \/ i \in 1..N  BY <1>2, <1>3
<1>5. N + 1 \in DOMAIN t /\ \A i \in 1..N : i \in DOMAIN t  BY <1>2, <1>3
<1>6. IsList(t)  BY <1>2 DEF IsList
<1>7. \A i \in DOMAIN t : RowRight(t[i], blocks)  BY <1>2, <1>3, <1>4
<1>8. \A i \in 1..N : Readers!BlocksOf(s[i]) \cap Readers!BlocksOf(e) = {}  BY <1>3 DEF Rowed
<1>9. Disjoint(t)
  <2> SUFFICES ASSUME NEW i \in DOMAIN t, NEW j \in DOMAIN t, i # j
               PROVE  Readers!BlocksOf(t[i]) \cap Readers!BlocksOf(t[j]) = {}
    BY DEF Disjoint
  <2>1. CASE i \in 1..N /\ j \in 1..N  BY <1>2, <1>3, <2>1 DEF Disjoint
  <2>2. CASE i = N + 1 /\ j \in 1..N  BY <1>2, <1>8, <2>2
  <2>3. CASE j = N + 1 /\ i \in 1..N  BY <1>2, <1>8, <2>3
  <2> QED BY <1>4, <2>1, <2>2, <2>3
<1>10. \A b : Rowed(t, b) <=> Rowed(s, b) \/ b \in Readers!BlocksOf(e)
  BY <1>2, <1>3, <1>4, <1>5 DEF Rowed
<1> QED BY <1>6, <1>7, <1>9, <1>10 DEF t

\* The blocks of a row's entry, and of one that continues an unfinished row.
LEMMA BlocksOfRow ==
  ASSUME NEW v, NEW p
  PROVE  /\ Readers!BlocksOf(Readers!Row(v)) = {v.block}
         /\ Readers!BlocksOf([Readers!Row(v) EXCEPT !.name = p]) = {p.block, v.block}
         /\ "name" \in DOMAIN Readers!Row(v)
         /\ "name" \in DOMAIN [Readers!Row(v) EXCEPT !.name = p]
         /\ [Readers!Row(v) EXCEPT !.name = p]["name"] = p
<1> DEFINE e == Readers!Row(v)
           c == [Readers!Row(v) EXCEPT !.name = p]
<1>1. /\ DOMAIN e = {"name", "local", "port"} /\ e["name"] = v /\ e["local"] = v /\ e["port"] = v
  BY DEF Readers!Row
<1>2. /\ DOMAIN c = {"name", "local", "port"} /\ c["name"] = p /\ c["local"] = v /\ c["port"] = v
  BY DEF Readers!Row
<1> HIDE DEF e, c
<1>3. Readers!BlocksOf(e) = {v.block}  BY <1>1 DEF Readers!BlocksOf
<1>4. Readers!BlocksOf(c) = {p.block, v.block}  BY <1>2 DEF Readers!BlocksOf
<1> QED BY <1>1, <1>2, <1>3, <1>4 DEF e, c

\* What a line makes of the entries and of the unfinished row.
LEMMA CdpRowReads ==
  ASSUME NEW v, Readers!CdpRow(v)
  PROVE  /\ v.line = "row" => entries' = Append(entries, Readers!Row(v)) /\ unfinished' = None
         /\ v.line = "name" => unfinished' = v /\ entries' = entries
         /\ v.line \in {"blank", "rest"} /\ unfinished # None =>
              /\ entries' = Append(entries, [Readers!Row(v) EXCEPT !.name = unfinished])
              /\ unfinished' = None
         /\ (v.line = "blank" /\ unfinished = None) \/ v.line = "rest_blank" =>
              entries' = entries /\ unfinished' = unfinished
BY DEF Readers!CdpRow

\* The rows and blanks, and the first of two lines, begin a block; the second is
\* that of the name read just before.
LEMMA CdpRowPlaces ==
  ASSUME ReaderBase, format = "cdp_table", NEW i, NEW n, Reads(i, n)
  PROVE  /\ i \in 1..5 /\ at' = i /\ format' = format /\ Len(said') = n
         /\ Len(said) \in Nat /\ n \in Nat
         /\ \A b \in 1..Len(said) : said'[b] = said[b]
         /\ i = 1 => said'[n] = {"row"}
         /\ i = 2 => said'[n] = {"blank"}
         /\ i = 3 => said'[n] \in {{"name", "rest"}, Cut}
         /\ i = 4 => said'[n] = {"name", "rest"}
         /\ i = 5 => said'[n] = Cut
         /\ i \in 1..3 => /\ n = Len(said) + 1
                          /\ Len(said) > 0 => at # 3 /\ (said[Len(said)] = {"name", "rest"} => at = 4)
         /\ i \in 4..5 => n = Len(said) /\ said' = said /\ at = 3 /\ n > 0
<1> DEFINE N == Len(said)
<1>1. /\ Len(Lines(format)) = 5 /\ Lines(format)[1] = "row" /\ Lines(format)[2] = "blank"
      /\ Lines(format)[3] = "name" /\ Lines(format)[4] = "rest" /\ Lines(format)[5] = "rest_blank"
  BY LinesAre
<1>2. Readers!Blocks(format) = {{"row"}, {"blank"}, {"name", "rest"}, {"name", "rest_blank"}}
  BY BlocksAre
<1>3. N \in Nat  BY Silence DEF ReaderBase
<1>4. N > 0 => /\ said[N] \in Readers!Blocks(format)
               /\ at \in 1..5 /\ Lines(format)[at] \in said[N]
  BY <1>1, <1>3 DEF ReaderBase
<1>5. /\ i \in 1..5 /\ at' = i /\ format' = format /\ Len(said') = n
      /\ \A b \in 1..N : said'[b] = said[b]
      /\ said'[n] \in Readers!Blocks(format) /\ Lines(format)[i] \in said'[n]
  BY <1>1 DEF Reads
<1>6. \/ /\ n = N + 1
         /\ N > 0 => \A j \in 1..5 : j > at => Lines(format)[j] \notin said[N]
         /\ \A j \in 1..5 : j < i => Lines(format)[j] \notin said'[n]
      \/ n = N /\ said' = said /\ i > at /\ at \in 1..5
  BY <1>1 DEF Reads
<1>7. /\ i = 1 => said'[n] = {"row"}
      /\ i = 2 => said'[n] = {"blank"}
      /\ i = 3 => said'[n] \in {{"name", "rest"}, Cut}
      /\ i = 4 => said'[n] = {"name", "rest"}
      /\ i = 5 => said'[n] = Cut
  BY <1>1, <1>2, <1>5 DEF Cut
<1>8. n \in Nat  BY <1>3, <1>6
<1>9. ASSUME n = N, said' = said, i > at, at \in 1..5
      PROVE  i \in 4..5 /\ at = 3 /\ n > 0
  <2>1. N > 0
    <3>1. n \in 1..MaxBlocks  BY DEF Reads
    <3> QED BY <1>8, <1>9, <3>1
  <2>2. Lines(format)[at] \in said[N] /\ Lines(format)[i] \in said[N]  BY <1>4, <1>5, <1>9, <2>1
  <2>3. said[N] = {"row"} \/ said[N] = {"blank"} => FALSE  BY <1>1, <1>5, <1>9, <2>2
  <2>4. at = 3 /\ i \in 4..5
    BY <1>1, <1>2, <1>4, <1>5, <1>9, <2>1, <2>2, <2>3
  <2> QED BY <1>9, <2>1, <2>4
<1>10. ASSUME n = N + 1,
              N > 0 => \A j \in 1..5 : j > at => Lines(format)[j] \notin said[N],
              \A j \in 1..5 : j < i => Lines(format)[j] \notin said'[n]
       PROVE  /\ i \in 1..3
              /\ N > 0 => at # 3 /\ (said[N] = {"name", "rest"} => at = 4)
  <2>1. i \in 1..3
    <3>1. CASE i \in 4..5
      <4>1. "name" \in said'[n]  BY <1>7, <3>1 DEF Cut
      <4> QED BY <1>1, <1>10, <3>1, <4>1
    <3> QED BY <1>5, <3>1
  <2>2. ASSUME N > 0 PROVE at # 3
    <3> SUFFICES ASSUME at = 3 PROVE FALSE  OBVIOUS
    <3>1. "rest" \notin said[N] /\ "rest_blank" \notin said[N]  BY <1>1, <1>10, <2>2
    <3>2. "name" \in said[N]  BY <1>1, <1>4, <2>2
    <3> QED BY <1>2, <1>4, <2>2, <3>1, <3>2
  <2>3. ASSUME N > 0, said[N] = {"name", "rest"} PROVE at = 4
    <3>1. at \in 3..4  BY <1>1, <1>4, <2>3
    <3> QED BY <2>2, <2>3, <3>1
  <2> QED BY <2>1, <2>2, <2>3
<1>11. i \in 4..5 => ~(i \in 1..3)  OBVIOUS
<1> QED BY <1>3, <1>5, <1>6, <1>7, <1>8, <1>9, <1>10, <1>11

\* The table of CDP neighbours, line by line.
LEMMA CdpTableStep ==
  ASSUME ReaderBase, CdpTableInv, format = "cdp_table", NEW i, NEW n, Reads(i, n)
  PROVE  CdpTableInv' /\ IsList(entries') /\ DOMAIN current' \subseteq FieldNames
<1> DEFINE v == V(i, n)
           N == Len(said)
           Due(b) == said[b] = {"row"} \/ said[b] = {"name", "rest"}
<1>1. /\ v.line = Lines("cdp_table")[i] /\ v.block = n /\ Readers!Read(v)
  BY ValueOf DEF Reads
<1>2. /\ i \in 1..5 /\ at' = i /\ format' = format /\ Len(said') = n /\ N \in Nat /\ n \in Nat
      /\ \A b \in 1..N : said'[b] = said[b]
      /\ i \in 1..3 => n = N + 1 /\ (N > 0 => at # 3 /\ (said[N] = {"name", "rest"} => at = 4))
      /\ i \in 4..5 => n = N /\ said' = said /\ at = 3 /\ n > 0
  BY CdpRowPlaces
<1>3. /\ i = 1 => said'[n] = {"row"}
      /\ i = 2 => said'[n] = {"blank"}
      /\ i = 3 => said'[n] \in {{"name", "rest"}, Cut}
      /\ i = 4 => said'[n] = {"name", "rest"}
      /\ i = 5 => said'[n] = Cut
  BY CdpRowPlaces
<1>4. /\ IsList(entries) /\ current = <<>> /\ Disjoint(entries)
      /\ \A k \in DOMAIN entries : RowRight(entries[k], said)
  BY DEF ReaderBase, IsList, CdpTableInv
<1>5. /\ unfinished # None => /\ unfinished.block \in 1..N /\ ~Rowed(entries, unfinished.block)
                              /\ said[unfinished.block] = Cut \/ (at = 3 /\ unfinished.block = N)
      /\ N > 0 /\ at = 3 => unfinished # None /\ unfinished.block = N
      /\ \A b \in 1..N : \/ said[b] = {"row"}
                         \/ said[b] = {"name", "rest"} /\ (b < N \/ at = 4)
                         => Rowed(entries, b)
  BY DEF CdpTableInv
<1>6. Readers!CdpRow(v) /\ current' = current  BY <1>1, <1>2 DEF Readers!Read
<1>7. DOMAIN current' \subseteq FieldNames  BY <1>6 DEF ReaderBase
<1>8. n >= N /\ 1..N \subseteq 1..n  BY <1>2
<1>9. ASSUME NEW e, RowRight(e, said) PROVE RowRight(e, said') /\ Readers!BlocksOf(e) \subseteq 1..N
  <2>1. Readers!BlocksOf(e) \subseteq 1..N /\ "name" \in DOMAIN e  BY <1>9 DEF RowRight
  <2>2. e["name"].block \in 1..N  BY <2>1 DEF Readers!BlocksOf
  <2>3. said'[e["name"].block] = said[e["name"].block]  BY <1>2, <2>2
  <2> QED BY <1>2, <1>8, <1>9, <2>1, <2>3 DEF RowRight
<1>10. \A k \in DOMAIN entries : RowRight(entries[k], said')  BY <1>4, <1>9
<1>11. \A b : Rowed(entries, b) => b \in 1..N  BY <1>4, <1>9 DEF Rowed
<1>12. i \in 1..3 => ~Rowed(entries, n)  BY <1>2, <1>11
<1>13. i \in 1..3 => \A b \in 1..N : said[b] \in {{"row"}, {"name", "rest"}} => Rowed(entries, b)
  BY <1>2, <1>5
<1>14. /\ v.line = "row" <=> i = 1
       /\ v.line = "blank" <=> i = 2
       /\ v.line = "name" <=> i = 3
       /\ v.line = "rest" <=> i = 4
       /\ v.line = "rest_blank" <=> i = 5
  BY <1>1, <1>2, LinesAre
<1>15. {"row"} # {"blank"} /\ {"row"} # Cut /\ {"row"} # {"name", "rest"} /\ {"blank"} # {"name", "rest"}
       /\ Cut # {"name", "rest"} /\ {"row"} # {"name", "rest_blank"}
  <2>1. "name" \notin {"row"} /\ "name" \notin {"blank"} /\ "rest" \notin Cut  BY DEF Cut
  <2>2. "row" \notin {"blank"} /\ "rest" \in {"name", "rest"} /\ "name" \in Cut  BY DEF Cut
  <2> QED BY <2>1, <2>2 DEF Cut
<1> HIDE DEF v, N
<1>16. CASE i = 1
  <2> DEFINE e == Readers!Row(v)
  <2>1. entries' = Append(entries, e) /\ unfinished' = None  BY <1>6, <1>14, <1>16, CdpRowReads
  <2>2. Readers!BlocksOf(e) = {n} /\ "name" \in DOMAIN e  BY <1>1, BlocksOfRow
  <2> HIDE DEF e
  <2>3. RowRight(e, said')
    <3>1. n \in 1..n  BY <1>2, <1>16
    <3>2. {n} \subseteq 1..Len(said')  BY <1>2, <3>1
    <3> QED BY <2>2, <3>2 DEF RowRight
  <2>4. /\ IsList(entries') /\ Disjoint(entries') /\ \A k \in DOMAIN entries' : RowRight(entries'[k], said')
        /\ \A b : Rowed(entries', b) <=> Rowed(entries, b) \/ b \in Readers!BlocksOf(e)
    <3> DEFINE t == Append(entries, e)
    <3>1. /\ IsList(t) /\ Disjoint(t) /\ \A k \in DOMAIN t : RowRight(t[k], said')
          /\ \A b : Rowed(t, b) <=> Rowed(entries, b) \/ b \in Readers!BlocksOf(e)
      BY <1>4, <1>10, <1>12, <1>16, <2>2, <2>3, AddRow
    <3> HIDE DEF t
    <3> QED BY <2>1, <3>1 DEF t
  <2>5. \A b \in 1..n : said'[b] \in {{"row"}, {"name", "rest"}} => Rowed(entries', b)
    <3>1. \A b \in 1..n : b = n \/ b \in 1..N  BY <1>2, <1>16
    <3> QED BY <1>2, <1>13, <1>16, <2>2, <2>4, <3>1
  <2>6. at' # 3  BY <1>2, <1>16
  <2> QED BY <1>2, <1>4, <1>6, <1>7, <2>1, <2>4, <2>5, <2>6 DEF CdpTableInv
<1>17. CASE i = 2 /\ unfinished = None
  <2>1. entries' = entries /\ unfinished' = None  BY <1>6, <1>14, <1>17, CdpRowReads
  <2>2. \A b \in 1..n : said'[b] \in {{"row"}, {"name", "rest"}} => Rowed(entries', b)
    <3>1. \A b \in 1..n : b = n \/ b \in 1..N  BY <1>2, <1>17
    <3> QED BY <1>2, <1>3, <1>13, <1>15, <1>17, <2>1, <3>1
  <2>3. at' # 3  BY <1>2, <1>17
  <2> QED BY <1>2, <1>4, <1>6, <1>7, <1>10, <2>1, <2>2, <2>3 DEF CdpTableInv
<1>18. CASE i \in {2, 4} /\ unfinished # None
  <2> DEFINE e == [Readers!Row(v) EXCEPT !.name = unfinished]
             m == unfinished.block
  <2>1. entries' = Append(entries, e) /\ unfinished' = None
    BY <1>6, <1>14, <1>18, CdpRowReads
  <2>2. Readers!BlocksOf(e) = {m, n} /\ "name" \in DOMAIN e /\ e["name"] = unfinished
    BY <1>1, BlocksOfRow
  <2>3. m \in 1..N /\ ~Rowed(entries, m)  BY <1>5, <1>18
  <2>4. i = 2 => said[m] = Cut  BY <1>2, <1>5, <1>18, <2>3
  <2>5. i = 4 => m = n  BY <1>2, <1>5
  <2>6. ~Rowed(entries, n)  BY <1>12, <1>18, <2>3, <2>5
  <2>7. RowRight(e, said')
    <3>1. m \in 1..n /\ n \in 1..n  BY <1>2, <1>8, <2>3
    <3>2. i = 2 => said'[m] = Cut  BY <1>2, <2>3, <2>4
    <3> HIDE DEF e, m
    <3>3. i = 4 => Readers!BlocksOf(e) = {n}  BY <2>2, <2>5
    <3>4. e["name"].block = m  BY <2>2 DEF m
    <3>5. (\E b : Readers!BlocksOf(e) = {b}) \/ said'[e["name"].block] = Cut  BY <1>18, <3>2, <3>3, <3>4
    <3> QED BY <1>2, <2>2, <3>1, <3>5 DEF RowRight
  <2> HIDE DEF e, m
  <2>8. /\ IsList(entries') /\ Disjoint(entries') /\ \A k \in DOMAIN entries' : RowRight(entries'[k], said')
        /\ \A b : Rowed(entries', b) <=> Rowed(entries, b) \/ b \in Readers!BlocksOf(e)
    <3> DEFINE t == Append(entries, e)
    <3>1. /\ IsList(t) /\ Disjoint(t) /\ \A k \in DOMAIN t : RowRight(t[k], said')
          /\ \A b : Rowed(t, b) <=> Rowed(entries, b) \/ b \in Readers!BlocksOf(e)
      BY <1>4, <1>10, <2>2, <2>3, <2>6, <2>7, AddRow
    <3> HIDE DEF t
    <3> QED BY <2>1, <3>1 DEF t
  <2>9. \A b \in 1..n : said'[b] \in {{"row"}, {"name", "rest"}} => Rowed(entries', b)
    <3>1. \A b \in 1..n : b = n \/ (b \in 1..N /\ (i = 4 => b < N))  BY <1>2, <1>18
    <3>2. \A b \in 1..N : (i = 4 => b < N) /\ said[b] \in {{"row"}, {"name", "rest"}} => Rowed(entries, b)
      BY <1>5, <1>13, <1>18
    <3> QED BY <1>2, <2>2, <2>8, <3>1, <3>2
  <2>10. at' # 3  BY <1>2, <1>18
  <2> QED BY <1>2, <1>4, <1>6, <1>7, <2>1, <2>8, <2>9, <2>10 DEF CdpTableInv
<1>19. CASE i = 3
  <2>1. unfinished' = v /\ entries' = entries  BY <1>6, <1>14, <1>19, CdpRowReads
  <2>2. v # None
    <3>1. \A k \in 1..MaxBlocks : [line |-> "name", block |-> k] # None
      BY DecisionsAssumption DEF Assumptions, Readers!Assumptions
    <3>2. v = [line |-> "name", block |-> n] /\ n \in 1..MaxBlocks
      BY <1>1, <1>14, <1>19 DEF v, V, Reads
    <3> QED BY <3>1, <3>2
  <2>3. n \in 1..n  BY <1>2, <1>19
  <2>4. \A b \in 1..n : \/ said'[b] = {"row"}
                        \/ said'[b] = {"name", "rest"} /\ (b < n \/ at' = 4)
                        => Rowed(entries', b)
    <3>1. \A b \in 1..n : b = n \/ b \in 1..N  BY <1>2, <1>19
    <3>2. said'[n] # {"row"} /\ at' # 4  BY <1>2, <1>3, <1>15, <1>19
    <3>3. ~(n < n)  BY <1>2
    <3> QED BY <1>2, <1>13, <1>19, <2>1, <3>1, <3>2, <3>3
  <2> QED BY <1>1, <1>2, <1>4, <1>6, <1>7, <1>10, <1>12, <1>19, <2>1, <2>2, <2>3, <2>4 DEF CdpTableInv
<1>20. CASE i = 5
  <2>1. entries' = entries /\ unfinished' = unfinished  BY <1>6, <1>14, <1>20, CdpRowReads
  <2>2. unfinished' # None => /\ unfinished'.block \in 1..n /\ ~Rowed(entries', unfinished'.block)
                              /\ said'[unfinished'.block] = Cut
    BY <1>2, <1>3, <1>5, <1>20, <2>1
  <2>3. \A b \in 1..n : said'[b] \in {{"row"}, {"name", "rest"}} => Rowed(entries', b)
    <3>1. \A b \in 1..n : b = n \/ b < N  BY <1>2, <1>20
    <3>2. said'[n] \notin {{"row"}, {"name", "rest"}}  BY <1>3, <1>15, <1>20
    <3> QED BY <1>2, <1>5, <1>20, <2>1, <3>1, <3>2
  <2>4. at' # 3  BY <1>2, <1>20
  <2> QED BY <1>2, <1>4, <1>6, <1>7, <1>10, <2>1, <2>2, <2>3, <2>4 DEF CdpTableInv
<1>21. i = 4 => unfinished # None  BY <1>2, <1>5
<1> QED BY <1>2, <1>16, <1>17, <1>18, <1>19, <1>20, <1>21

-----------------------------------------------------------------------------
(* What is returned.  The rows of IOS details are none, since no current     *)
(* entry has both a name and a local interface.                              *)
Good(r) ==
    /\ \A i \in DOMAIN r :
         \/ \E b \in DOMAIN said : Readers!BlocksOf(r[i]) = {b}
         \/ said[r[i].name.block] = {"name", "rest_blank"}
    /\ \A i, j \in DOMAIN r : i # j => Readers!BlocksOf(r[i]) \cap Readers!BlocksOf(r[j]) = {}
    /\ \A b \in Readers!Expected : \E i \in DOMAIN r : b \in Readers!BlocksOf(r[i])
    /\ format = "lldp_ios" => r = <<>>
ReaderInv ==
    /\ ReaderBase /\ CdpInv /\ NxosInv /\ IosInv /\ SlotInv /\ TableInv /\ CdpTableInv
    /\ result # None => Good(result)

\* The block of an entry that is of one.
LEMMA BlocksOfMine == ASSUME NEW e, NEW b, Mine(e, b) PROVE Readers!BlocksOf(e) = {b}
BY DEF Mine, Readers!BlocksOf

\* Entries that are each of one block, none of them of the same, are good if none
\* is missing.
LEMMA GoodEntries ==
  ASSUME NEW r, IsList(said), Upto(r, Len(said)), Apart(r), format # "lldp_ios",
         \A b \in Readers!Expected : Tells(r, b)
  PROVE  Good(r)
<1>1. DOMAIN said = 1..Len(said)  BY DEF IsList
<1>2. ASSUME NEW i \in DOMAIN r PROVE \E b \in DOMAIN said : Mine(r[i], b)
  BY <1>1 DEF Upto
<1>3. \A i \in DOMAIN r : \E b \in DOMAIN said : Readers!BlocksOf(r[i]) = {b}
  BY <1>2, BlocksOfMine
<1>4. ASSUME NEW i \in DOMAIN r, NEW j \in DOMAIN r, i # j
      PROVE  Readers!BlocksOf(r[i]) \cap Readers!BlocksOf(r[j]) = {}
  <2>1. PICK a : Mine(r[i], a)  BY <1>2
  <2>2. PICK b : Mine(r[j], b)  BY <1>2
  <2>3. a # b  BY <1>4, <2>1, <2>2 DEF Apart
  <2> QED BY <2>1, <2>2, <2>3, BlocksOfMine
<1>5. \A b \in Readers!Expected : \E i \in DOMAIN r : b \in Readers!BlocksOf(r[i])
  BY BlocksOfMine DEF Tells
<1> QED BY <1>3, <1>4, <1>5 DEF Good

\* The blocks that should make an entry, by the format.
LEMMA ExpectedAre ==
  ASSUME NEW b \in Readers!Expected
  PROVE  /\ b \in DOMAIN said
         /\ format = "cdp" => "interface" \in said[b]
         /\ format = "lldp_nxos" => "system_name" \in said[b]
         /\ format # "lldp_ios"
         /\ format = "transceivers" => "serial" \in said[b] /\ "absent" \notin said[b]
         /\ format = "cdp_table" => said[b] \in {{"row"}, {"name", "rest"}}
         /\ format \in {"lldp_table", "stack"} => said[b] = {"row"}
BY DEF Readers!Expected

\* The rows of transceivers, by the text and by the template.
LEMMA SlotsReturned ==
  ASSUME ReaderInv, format = "transceivers", Readers!Whole,
         NEW r \in {Readers!FromTemplate, Readers!FromText}
  PROVE  Good(r)
<1> DEFINE N == Len(said)
<1>1. IsList(said) /\ N \in Nat /\ DOMAIN said = 1..N
  BY Silence DEF ReaderInv, ReaderBase, IsList
<1>2. /\ Len(entries) = N
      /\ \A k \in 1..N :
           /\ SlotRight(entries[k], k, said[k])
           /\ "serial" \in said[k] /\ (k < N \/ at >= 7) => "serial" \in DOMAIN entries[k]
  BY DEF ReaderInv, SlotInv
<1>3. DOMAIN entries = 1..N
  <2>1. PICK S : entries \in Seq(S)  BY DEF ReaderInv, ReaderBase
  <2> QED BY <1>2, <2>1
<1> DEFINE D == {j \in 1..N : Readers!Installed(entries[j])}
<1>4. /\ DOMAIN Readers!FromText = D /\ DOMAIN Readers!FromTemplate = D
      /\ \A i \in D : /\ Readers!FromText[i] = entries[i]
                      /\ Readers!FromTemplate[i] = Readers!Unnamed(entries[i])
  BY <1>3 DEF Readers!FromText, Readers!FromTemplate
<1>5. ASSUME NEW k \in 1..N PROVE Mine(entries[k], k) /\ Mine(Readers!Unnamed(entries[k]), k)
  <2>1. Mine(entries[k], k) /\ "slot" \in DOMAIN entries[k]  BY <1>2 DEF SlotRight
  <2> DEFINE e == entries[k]
             u == Readers!Unnamed(e)
  <2>2. DOMAIN u = DOMAIN e \ {"vendor"} /\ \A f \in DOMAIN e \ {"vendor"} : u[f] = e[f]
    BY DEF Readers!Unnamed
  <2> HIDE DEF u, e
  <2>3. \A f \in DOMAIN e : e[f].block = k  BY <2>1 DEF Mine, e
  <2>4. "slot" \in DOMAIN u  BY <2>1, <2>2 DEF e
  <2>5. Mine(u, k)  BY <2>2, <2>3, <2>4 DEF Mine
  <2> QED BY <2>1, <2>5 DEF u, e
<1>6. DOMAIN r = D /\ \A i \in D : Mine(r[i], i)  BY <1>4, <1>5
<1>7. Upto(r, N)  BY <1>6 DEF Upto
<1>8. Apart(r)  BY <1>6, MineIsOne DEF Apart
<1>9. ASSUME NEW b \in Readers!Expected PROVE Tells(r, b)
  <2>1. b \in 1..N /\ "serial" \in said[b] /\ "absent" \notin said[b]  BY <1>1, ExpectedAre
  <2>2. "serial" \in DOMAIN entries[b]
    <3>1. CASE b < N  BY <1>2, <2>1, <3>1
    <3>2. CASE b = N
      <4>1. at \in 1..8 /\ said # <<>>
        BY <1>1, <2>1, <3>2, LinesAre, Silence DEF ReaderInv, ReaderBase
      <4>2. \A j \in 1..8 : j > at => Lines("transceivers")[j] \notin said[N]
        BY <4>1, LinesAre DEF Readers!Whole, Readers!Places, Lines
      <4>3. at >= 7  BY <2>1, <3>2, <4>1, <4>2, LinesAre
      <4> QED BY <1>2, <2>1, <4>3
    <3>3. b < N \/ b = N
      <4> HIDE DEF N
      <4> QED BY <1>1, <2>1
    <3> QED BY <3>1, <3>2, <3>3
  <2>3. ~({"serial", "no_serial"} \subseteq said[b])
    <3>1. said[b] \in Readers!Blocks("transceivers")  BY <2>1 DEF ReaderInv, ReaderBase
    <3> QED BY <3>1, BlocksAre
  <2>4. Readers!Installed(entries[b])
    BY <1>2, <2>1, <2>2, <2>3 DEF SlotRight, Readers!Installed
  <2> QED BY <1>6, <2>1, <2>4 DEF Tells
<1> QED BY <1>1, <1>7, <1>8, <1>9, GoodEntries

\* The entries of the other formats, as they are at the end.
LEMMA EntriesReturned ==
  ASSUME ReaderInv, format # "transceivers", Readers!Whole
  PROVE  Good(Readers!Finalized)
<1> DEFINE N == Len(said)
           r == Readers!Finalized
<1>1. /\ IsList(said) /\ N \in Nat /\ DOMAIN said = 1..N /\ (said = <<>> <=> N = 0)
      /\ format \in Readers!Formats
  BY Silence DEF ReaderInv, ReaderBase, IsList
<1>2. N > 0 => \A j \in 1..Len(Lines(format)) : j > at => Lines(format)[j] \notin said[N]
  BY <1>1 DEF Readers!Whole, Readers!Places, Lines
<1>3. DOMAIN <<>> = {}  OBVIOUS
<1>4. CASE format \in {"cdp", "lldp_nxos"}
  <2>1. Collected /\ ReaderBase  BY <1>4 DEF ReaderInv, CdpInv, NxosInv
  <2>2. /\ Upto(r, N) /\ Apart(r) /\ \A b \in 1..N : Marker \in said[b] => Tells(r, b)
    BY <1>2, <1>4, <2>1, Finished
  <2>3. \A b \in Readers!Expected : Marker \in said[b]  BY <1>4, ExpectedAre DEF Marker
  <2>4. \A b \in Readers!Expected : Tells(r, b)  BY <1>1, <2>2, <2>3, ExpectedAre
  <2> QED BY <1>1, <1>4, <2>2, <2>4, GoodEntries
<1>5. CASE format = "lldp_ios"
  <2>1. entries = <<>>  BY <1>5 DEF ReaderInv, IosInv
  <2>2. ~Named(current)
    <3>1. CASE N = 0  BY <1>3, <3>1 DEF ReaderInv, ReaderBase, Named
    <3>2. CASE N > 0
      <4>1. IF at = 1 THEN DOMAIN current = {"local"} ELSE "local" \notin DOMAIN current
        BY <1>5, <3>2 DEF ReaderInv, IosInv
      <4> QED BY <4>1 DEF Named
    <3> QED BY <1>1, <3>1, <3>2
  <2>3. r = <<>>  BY <2>1, <2>2 DEF Readers!Finalized, Named
  <2>4. Readers!Expected = {}  BY <1>5, ExpectedAre
  <2> QED BY <1>3, <2>3, <2>4 DEF Good
<1>6. CASE format \in {"lldp_table", "stack"}
  <2>1. /\ current = <<>> /\ Upto(entries, N) /\ Apart(entries)
        /\ \A b \in 1..N : said[b] = {"row"} => Tells(entries, b)
    BY <1>6 DEF ReaderInv, TableInv
  <2>2. r = entries  BY <1>3, <2>1 DEF Readers!Finalized
  <2>3. \A b \in Readers!Expected : Tells(r, b)  BY <1>1, <1>6, <2>1, <2>2, ExpectedAre
  <2> QED BY <1>1, <1>6, <2>1, <2>2, <2>3, GoodEntries
<1>7. CASE format = "cdp_table"
  <2>1. /\ current = <<>> /\ Disjoint(entries) /\ \A i \in DOMAIN entries : RowRight(entries[i], said)
        /\ \A b \in 1..N : \/ said[b] = {"row"}
                           \/ said[b] = {"name", "rest"} /\ (b < N \/ at = 4)
                           => Rowed(entries, b)
    BY <1>7 DEF ReaderInv, CdpTableInv
  <2>2. r = entries  BY <1>3, <2>1 DEF Readers!Finalized
  <2>3. N > 0 /\ said[N] = {"name", "rest"} => at = 4
    <3> SUFFICES ASSUME N > 0, said[N] = {"name", "rest"} PROVE at = 4
      OBVIOUS
    <3>1. at \in 1..5 /\ Lines("cdp_table")[at] \in said[N]
      BY <1>7, LinesAre DEF ReaderInv, ReaderBase
    <3>2. \A j \in 1..5 : j > at => Lines("cdp_table")[j] \notin said[N]  BY <1>2, <1>7, LinesAre
    <3>3. at \in 3..4  BY <3>1, LinesAre
    <3> QED BY <3>2, <3>3, LinesAre
  <2>4. ASSUME NEW b \in Readers!Expected PROVE Rowed(r, b)
    <3>1. b \in 1..N /\ said[b] \in {{"row"}, {"name", "rest"}}  BY <1>1, <1>7, ExpectedAre
    <3>2. b < N \/ b = N
      <4> HIDE DEF N
      <4> QED BY <1>1, <3>1
    <3>3. N > 0
      <4> HIDE DEF N
      <4> QED BY <1>1, <3>1
    <3> QED BY <2>1, <2>2, <2>3, <3>1, <3>2, <3>3
  <2>5. ASSUME NEW i \in DOMAIN r
        PROVE  \/ \E b \in DOMAIN said : Readers!BlocksOf(r[i]) = {b}
               \/ said[r[i].name.block] = {"name", "rest_blank"}
    <3>1. RowRight(r[i], said)  BY <2>1, <2>2
    <3> QED BY <1>1, <3>1 DEF RowRight, Cut
  <2> QED BY <1>7, <2>1, <2>2, <2>4, <2>5 DEF Good, Disjoint, Rowed
<1> QED BY <1>1, <1>4, <1>5, <1>6, <1>7, FormatsAre

\* What was returned stays so: the readers return it once, and read no more.
LEMMA GoodStays ==
  ASSUME said' = said, format' = format
  PROVE  \A r : (Good(r)' <=> Good(r))
<1>1. Readers!Expected' = Readers!Expected  BY DEF Readers!Expected
<1>2. \A e : (Readers!BlocksOf(e)' = Readers!BlocksOf(e))  BY DEF Readers!BlocksOf
<1> QED BY <1>1, <1>2 DEF Good

\* The readers begin with nothing said.
LEMMA ReadersBegin == ASSUME Readers!Init PROVE ReaderInv
<1>1. /\ format \in Readers!Formats /\ said = <<>> /\ at = 0 /\ current = <<>>
      /\ unfinished = None /\ entries = <<>> /\ result = None
  BY DEF Readers!Init
<1>2. said \in Seq(Readers!Blocks(format)) /\ Len(said) = 0 /\ 1..Len(said) = {}  BY <1>1
<1>3. DOMAIN <<>> = {} /\ <<>> \in Seq({})  OBVIOUS
<1>4. ReaderBase
  <2>1. MaxBlocks \in Nat  BY DecisionsAssumption DEF Assumptions, Readers!Assumptions
  <2>2. DOMAIN current = {} /\ \E S : entries \in Seq(S)  BY <1>1, <1>3
  <2> QED BY <1>1, <1>2, <2>1, <2>2 DEF ReaderBase
<1>5. Upto(entries, Len(said)) /\ Apart(entries) /\ Len(entries) = 0  BY <1>1, NoEntries
<1>6. CdpInv /\ NxosInv /\ IosInv  BY <1>1, <1>2 DEF CdpInv, NxosInv, IosInv, Collected
<1>7. SlotInv  BY <1>2, <1>5 DEF SlotInv
<1>8. TableInv  BY <1>1, <1>2, <1>5 DEF TableInv
<1>9. CdpTableInv  BY <1>1, <1>2, <1>3 DEF CdpTableInv, Disjoint
<1> QED BY <1>1, <1>4, <1>6, <1>7, <1>8, <1>9 DEF ReaderInv

\* A line keeps the invariant.
LEMMA LineStep ==
  ASSUME ReaderInv, NEW i, NEW n, Reads(i, n)
  PROVE  ReaderInv'
<1>1. ReaderBase /\ format \in Readers!Formats  BY DEF ReaderInv, ReaderBase
<1>2. /\ format' = format /\ result' = result /\ at' = i /\ Len(said') = n
      /\ said' \in Seq(Readers!Blocks(format)) /\ i \in 1..Len(Lines(format))
      /\ n \in 1..MaxBlocks /\ Lines(format)[i] \in said'[n]
  BY DEF Reads
<1>3. MaxBlocks \in Nat  BY DecisionsAssumption DEF Assumptions, Readers!Assumptions
<1>4. n > 0 /\ n <= MaxBlocks  BY <1>2, <1>3
<1>5. result = None
  <2> SUFFICES ASSUME result # None PROVE FALSE
    OBVIOUS
  <2>1. Readers!Whole  BY <1>1 DEF ReaderBase
  <2>2. n = Len(said) /\ said' = said /\ i > at  BY DEF Reads
  <2>3. said # <<>>
    <3>1. said \in Seq(Readers!Blocks(format))  BY DEF ReaderInv, ReaderBase
    <3> QED BY <1>4, <2>2, <3>1, Silence
  <2> QED BY <1>2, <2>1, <2>2, <2>3 DEF Readers!Whole, Readers!Places, Lines
<1>6. ASSUME IsList(entries'), DOMAIN current' \subseteq FieldNames,
             unfinished' # None => format = "cdp_table"
      PROVE  ReaderBase'
  <2>1. Lines(format)' = Lines(format)  BY <1>2 DEF Lines
  <2>2. Readers!Blocks(format)' = Readers!Blocks(format)  BY <1>2
  <2>3. \E S : entries' \in Seq(S)  BY <1>6 DEF IsList
  <2> QED BY <1>1, <1>2, <1>4, <1>5, <1>6, <2>1, <2>2, <2>3 DEF ReaderBase
<1>7. unfinished # None => format = "cdp_table"  BY <1>1 DEF ReaderBase
<1>8. CASE format = "cdp"
  <2>1. CdpInv' /\ IsList(entries') /\ DOMAIN current' \subseteq FieldNames /\ unfinished' = unfinished
    BY <1>1, <1>8, CdpStep DEF ReaderInv
  <2> QED BY <1>2, <1>5, <1>6, <1>7, <1>8, <2>1
          DEF ReaderInv, NxosInv, IosInv, SlotInv, TableInv, CdpTableInv
<1>9. CASE format = "lldp_nxos"
  <2>1. NxosInv' /\ IsList(entries') /\ DOMAIN current' \subseteq FieldNames /\ unfinished' = unfinished
    BY <1>1, <1>9, NxosStep DEF ReaderInv
  <2> QED BY <1>2, <1>5, <1>6, <1>7, <1>9, <2>1
          DEF ReaderInv, CdpInv, IosInv, SlotInv, TableInv, CdpTableInv
<1>10. CASE format = "lldp_ios"
  <2>1. IosInv' /\ IsList(entries') /\ DOMAIN current' \subseteq FieldNames /\ unfinished' = unfinished
    BY <1>1, <1>10, IosStep DEF ReaderInv
  <2> QED BY <1>2, <1>5, <1>6, <1>7, <1>10, <2>1
          DEF ReaderInv, CdpInv, NxosInv, SlotInv, TableInv, CdpTableInv
<1>11. CASE format = "transceivers"
  <2>1. SlotInv' /\ IsList(entries') /\ DOMAIN current' \subseteq FieldNames /\ unfinished' = unfinished
    BY <1>1, <1>11, SlotStep DEF ReaderInv
  <2> QED BY <1>2, <1>5, <1>6, <1>7, <1>11, <2>1
          DEF ReaderInv, CdpInv, NxosInv, IosInv, TableInv, CdpTableInv
<1>12. CASE format \in {"lldp_table", "stack"}
  <2>1. TableInv' /\ IsList(entries') /\ DOMAIN current' \subseteq FieldNames /\ unfinished' = unfinished
    BY <1>1, <1>12, TableStep DEF ReaderInv
  <2> QED BY <1>2, <1>5, <1>6, <1>7, <1>12, <2>1
          DEF ReaderInv, CdpInv, NxosInv, IosInv, SlotInv, CdpTableInv
<1>13. CASE format = "cdp_table"
  <2>1. CdpTableInv' /\ IsList(entries') /\ DOMAIN current' \subseteq FieldNames
    BY <1>1, <1>13, CdpTableStep DEF ReaderInv
  <2> QED BY <1>2, <1>5, <1>6, <1>13, <2>1
          DEF ReaderInv, CdpInv, NxosInv, IosInv, SlotInv, TableInv
<1> QED BY <1>1, <1>8, <1>9, <1>10, <1>11, <1>12, <1>13, FormatsAre

\* Every step keeps it.
LEMMA ReadersStep ==
  ASSUME ReaderInv, Readers!Next \/ UNCHANGED Readers!vars
  PROVE  ReaderInv'
<1>1. CASE Readers!Begin \/ Readers!GoOn
  <2>1. PICK i, n : Reads(i, n)  BY <1>1, OneLine DEF ReaderInv
  <2> QED BY <2>1, LineStep
<1>2. ASSUME said' = said, format' = format, at' = at, current' = current,
             unfinished' = unfinished, entries' = entries,
             result' # None => Readers!Whole /\ Good(result')
      PROVE  ReaderInv'
  <2>1. Readers!Whole' = Readers!Whole  BY <1>2 DEF Readers!Whole, Readers!Places
  <2>2. Lines(format)' = Lines(format)  BY <1>2 DEF Lines
  <2>3. ReaderBase'  BY <1>2, <2>1, <2>2 DEF ReaderInv, ReaderBase
  <2>4. CdpInv' /\ NxosInv' /\ IosInv'
    <3>1. Collected' = Collected
      <4>1. Marker' = Marker /\ MarkerPlace' = MarkerPlace  BY <1>2 DEF Marker, MarkerPlace
      <4> QED BY <1>2, <4>1 DEF Collected
    <3> QED BY <1>2, <3>1 DEF ReaderInv, CdpInv, NxosInv, IosInv
  <2>5. SlotInv' /\ TableInv' /\ CdpTableInv'
    BY <1>2 DEF ReaderInv, SlotInv, TableInv, CdpTableInv
  <2>6. result' # None => Good(result)'
    <3>1. Readers!Expected' = Readers!Expected  BY <1>2 DEF Readers!Expected
    <3>2. \A e : (Readers!BlocksOf(e)' = Readers!BlocksOf(e))  BY DEF Readers!BlocksOf
    <3> QED BY <1>2, <3>1, <3>2 DEF Good
  <2> QED BY <2>3, <2>4, <2>5, <2>6 DEF ReaderInv
<1>3. CASE Readers!End
  <2>1. /\ said' = said /\ format' = format /\ at' = at /\ current' = current
        /\ unfinished' = unfinished /\ entries' = entries /\ Readers!Whole
        /\ result' \in IF format = "transceivers" THEN {Readers!FromTemplate, Readers!FromText}
                       ELSE {Readers!Finalized}
    BY <1>3 DEF Readers!End
  <2>2. Good(result')
    <3>1. CASE format = "transceivers"  BY <2>1, <3>1, SlotsReturned
    <3>2. CASE format # "transceivers"  BY <2>1, <3>2, EntriesReturned
    <3> QED BY <3>1, <3>2
  <2> QED BY <1>2, <2>1, <2>2
<1>4. CASE UNCHANGED Readers!vars
  <2>1. /\ said' = said /\ format' = format /\ at' = at /\ current' = current
        /\ unfinished' = unfinished /\ entries' = entries /\ result' = result
    BY <1>4 DEF Readers!vars
  <2>2. result # None => Readers!Whole /\ Good(result)  BY DEF ReaderInv, ReaderBase
  <2> QED BY <1>2, <2>1, <2>2
<1> QED BY <1>1, <1>3, <1>4 DEF Readers!Next

\* The invariant holds of every behaviour that is one of the readers.
LEMMA ReadersAlways == Spec => [](part = "readers" => ReaderInv)
<1> DEFINE Kept == part = "readers" => ReaderInv
<1>1. Init => Kept  BY ReadersBegin DEF Init
<1>2. Kept /\ [Next]_vars => Kept'
  <2> SUFFICES ASSUME Kept, [Next]_vars, part' = "readers" PROVE ReaderInv'
    OBVIOUS
  <2>1. part = "readers" /\ (Readers!Next \/ UNCHANGED Readers!vars)
    BY DEF Next, vars, readerVars, Readers!vars
  <2> QED BY <2>1, ReadersStep
<1> QED BY <1>1, <1>2, PTL DEF Spec

\* Whatever a device says, with the lines that it leaves out, the readers of neighbours,
\* transceivers and stack members (parse_cdp_neighbors, parse_lldp_neighbors,
\* SyncService._parse_transceiver_entries, _parse_stack_members) return an entry for each
\* block that should make one, of that block alone; but for the names of CDP rows cut short.
THEOREM OneBlockAlways == Spec => []OneBlock
<1>1. (part = "readers" => ReaderInv) => OneBlock
  BY DEF ReaderInv, Good, OneBlock, Readers!OneBlock
<1> QED BY <1>1, ReadersAlways, PTL

\* The types of the readers follow.
LEMMA ReaderTypes == ASSUME ReaderInv PROVE Readers!TypeOK
<1>1. /\ format \in Readers!Formats /\ said \in Seq(Readers!Blocks(format)) /\ Len(said) <= MaxBlocks
      /\ DOMAIN current \subseteq FieldNames /\ (unfinished # None => format = "cdp_table")
  BY DEF ReaderInv, ReaderBase
<1>2. Len(Lines(format)) \in {2, 3, 5, 6, 8}  BY <1>1, FormatsAre, LinesAre
<1>3. at \in 0..8
  <2>1. CASE Len(said) = 0  BY <2>1 DEF ReaderInv, ReaderBase
  <2>2. CASE Len(said) > 0
    <3> DEFINE k == Len(Lines(format))
    <3>1. at \in 1..k /\ k \in {2, 3, 5, 6, 8}  BY <1>2, <2>2 DEF ReaderInv, ReaderBase
    <3> HIDE DEF k
    <3> QED BY <3>1
  <2>3. Len(said) \in Nat  BY <1>1, Silence
  <2> QED BY <2>1, <2>2, <2>3
<1>4. \A i \in DOMAIN said : said[i] \in Readers!Blocks(format)  BY <1>1
<1> QED BY <1>1, <1>3, <1>4 DEF Readers!TypeOK, FieldNames

\* Each component's variables have its types in every state: those of the terminal's tasks
\* and of its worker, the sizes of pages, and the lines and fields of what a device says.
THEOREM TypesStay == Spec => []TypeOK
<1>1. /\ TerminalInv => Terminal!TypeOK
      /\ (part = "lists" => ListInv) => (part = "lists" => Lists!TypeOK)
      /\ (part = "readers" => ReaderInv) => (part = "readers" => Readers!TypeOK)
  BY ListTypes, ReaderTypes DEF TerminalInv
<1> QED BY <1>1, TerminalAlways, ListsAlways, ReadersAlways, PTL DEF TypeOK

=============================================================================
