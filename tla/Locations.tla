----------------------------- MODULE Locations -----------------------------
(***************************************************************************)
(* Sites, their trees of areas and the racks: the organization page, whose *)
(* requests load a row and then save or delete it, the administration and  *)
(* the REST API, which alone move an area or delete one with its children. *)
(* Names are left out.                                                     *)
(***************************************************************************)
EXTENDS Naturals

CONSTANTS AreaIds, SiteIds, RackIds, Devices, Procs,
          MaxOps,       \* bounds the requests
          None

Assumptions == MaxOps \in Nat /\ None \notin AreaIds

VARIABLES
    sites,      \* the sites
    areas,      \* id |-> [site, parent]
    racks,      \* id |-> area
    placed,     \* device |-> [site, area, rack]
    request,    \* process |-> what it does and what it has loaded
    used,       \* the ids given to areas: a UUID is not given again
    ops,        \* the requests so far
    astray,     \* an area was moved below itself, away from its children, or
                \* while somebody else was at work
    swept      \* what a page's delete took beyond its area, and nobody had just created

vars == <<sites, areas, racks, placed, request, used, ops, astray, swept>>

Idle == [kind |-> "idle"]
Areas == DOMAIN areas
Children(a) == {c \in Areas : areas[c].parent = a}

\* The areas and what hangs below them, through whatever site.
Below(roots) ==
    {a \in roots \cup Areas :
       \A S \in SUBSET (roots \cup Areas) :
         roots \subseteq S /\ (\A b \in S : Children(b) \subseteq S) => a \in S}

\* The page builds the tree of a site from the areas of the site alone.
Tree(site) ==
    LET own == {a \in Areas : areas[a].site = site} IN
    {a \in own :
       \A S \in SUBSET own :
         (\A b \in own : areas[b].parent \in S \cup {None} => b \in S) => a \in S}

\* The loop over the parents, for the path of an area, ends.
PathEnds(a) == \E r \in Areas : areas[r].parent = None /\ a \in Below({r})

-----------------------------------------------------------------------------
(* What the database does: rows and their foreign keys                      *)

Put(f, k, v) == [x \in {k} \cup DOMAIN f |-> IF x = k THEN v ELSE f[x]]
Without(f, K) == [k \in DOMAIN f \ K |-> f[k]]

Exists(ref, rows) == ref = None \/ ref \in rows
\* save() updates the row, or inserts it again.
PutArea(a, row) ==
    row.site \in sites /\ Exists(row.parent, Areas \cup {a}) /\ areas' = Put(areas, a, row)
PutRack(r, area) == area \in Areas /\ racks' = Put(racks, r, area)

\* The collector takes what cascades and refuses what devices protect.
Protected(goneSites, goneAreas, goneRacks) ==
    \E d \in DOMAIN placed : \/ placed[d].site \in goneSites
                             \/ placed[d].area \in goneAreas
                             \/ placed[d].rack \in goneRacks
Cascade(goneSites, roots, rackRoots) ==
    LET goneAreas == Below(roots) \cap Areas
        goneRacks == rackRoots \cup {r \in DOMAIN racks : racks[r] \in goneAreas}
    IN IF Protected(goneSites, goneAreas, goneRacks)
       THEN UNCHANGED <<sites, areas, racks>>
       ELSE /\ sites' = sites \ goneSites
            /\ areas' = Without(areas, goneAreas)
            /\ racks' = Without(racks, goneRacks)

-----------------------------------------------------------------------------
(* Requests: load and check, then write                                     *)

Load(p, what) ==
    /\ request[p] = Idle /\ ops < MaxOps
    /\ ops' = ops + 1 /\ request' = [request EXCEPT ![p] = what]
    /\ UNCHANGED <<sites, areas, racks, placed, used, astray, swept>>

CreateArea(p) ==
    \E s \in sites : \E parent \in {None} \cup {a \in Areas : areas[a].site = s} :
        Load(p, [kind |-> "create area", row |-> [site |-> s, parent |-> parent]])
UpdateArea(p) ==
    \E a \in Areas : Load(p, [kind |-> "save area", area |-> a, row |-> areas[a]])
DeleteArea(p) ==
    \E a \in Areas : Children(a) = {} /\ Load(p, [kind |-> "delete area", area |-> a, new |-> {}])
\* The API deletes an area, the administration those selected, leaf or not.
DropAreas(p) ==
    \E roots \in SUBSET Areas \ {{}} : Load(p, [kind |-> "drop areas", areas |-> roots])

CreateSite(p) == \E s \in SiteIds \ sites : Load(p, [kind |-> "save site", site |-> s])
UpdateSite(p) == \E s \in sites : Load(p, [kind |-> "save site", site |-> s])
DeleteSite(p) == \E s \in sites : Load(p, [kind |-> "delete site", site |-> s])

CreateRack(p) ==
    \E a \in Areas, r \in RackIds \ DOMAIN racks : Load(p, [kind |-> "save rack", rack |-> r, area |-> a])
UpdateRack(p) ==
    \E r \in DOMAIN racks : Load(p, [kind |-> "save rack", rack |-> r, area |-> racks[r]])
DeleteRack(p) == \E r \in DOMAIN racks : Load(p, [kind |-> "delete rack", rack |-> r])

\* The administration compares what was chosen; the API takes the old value
\* for one that is missing or cleared.
AdminAllows(a, row) == row.parent # None => areas[row.parent].site = row.site
ApiAllows(a, row) ==
    LET parent == IF row.parent = None THEN areas[a].parent ELSE row.parent
    IN parent # None => areas[parent].site = row.site
UnguardedEdit(p) ==
    \E a \in Areas, s \in sites, parent \in {None} \cup Areas :
        Load(p, [kind |-> "move area", area |-> a, row |-> [site |-> s, parent |-> parent]])
EditArea(p) ==
    \E a \in Areas, s \in sites, parent \in {None} \cup Areas :
        LET row == [site |-> s, parent |-> parent] IN
        /\ row # areas[a]
        /\ AdminAllows(a, row) \/ ApiAllows(a, row)
        /\ Load(p, [kind |-> "move area", area |-> a, row |-> row])
\* Without validation of anything but the reference.
EditRack(p) ==
    \E r \in DOMAIN racks, a \in Areas : Load(p, [kind |-> "save rack", rack |-> r, area |-> a])

\* A delete in progress learns which children came after its check.
Note(a, parent) ==
    [q \in Procs |-> IF request[q].kind = "delete area" /\ parent = request[q].area
                     THEN [request[q] EXCEPT !.new = @ \cup {a}] ELSE request[q]]
Done(p) == [request EXCEPT ![p] = Idle]

SaveNewArea(p) ==
    /\ request[p].kind = "create area"
    /\ \E a \in AreaIds \ used :
         /\ PutArea(a, request[p].row)
         /\ used' = used \cup {a}
         /\ request' = [Note(a, request[p].row.parent) EXCEPT ![p] = Idle]
    /\ UNCHANGED <<sites, racks, placed, ops, astray, swept>>

Alone(p) == \A q \in Procs \ {p} : request[q] = Idle
\* A move below itself, or away from its children.
Hides(a, row) == row.parent \in Below({a}) \/ \E c \in Children(a) : areas[c].site # row.site
SaveArea(p) ==
    /\ request[p].kind \in {"save area", "move area"}
    /\ LET a == request[p].area
           row == request[p].row
           moves == a \in Areas => row # areas[a]
       IN /\ PutArea(a, row)
          /\ request' = [Note(a, row.parent) EXCEPT ![p] = Idle]
          /\ astray' = (astray \/ (moves /\ (~Alone(p) \/ Hides(a, row))))
    /\ UNCHANGED <<sites, racks, placed, used, ops, swept>>

RemoveArea(p) ==
    /\ request[p].kind = "delete area"
    /\ Cascade({}, {request[p].area}, {})
    /\ request' = Done(p)
    /\ swept' = swept \cup ((Areas \ DOMAIN areas') \ ({request[p].area} \cup Below(request[p].new)))
    /\ UNCHANGED <<placed, used, ops, astray>>

RemoveTrees(p) ==
    /\ request[p].kind = "drop areas"
    /\ Cascade({}, request[p].areas, {})
    /\ request' = Done(p)
    /\ UNCHANGED <<placed, used, ops, astray, swept>>

SaveSite(p) ==
    /\ request[p].kind = "save site"
    /\ sites' = sites \cup {request[p].site} /\ request' = Done(p)
    /\ UNCHANGED <<areas, racks, placed, used, ops, astray, swept>>
RemoveSite(p) ==
    /\ request[p].kind = "delete site"
    /\ Cascade({request[p].site}, {a \in Areas : areas[a].site = request[p].site}, {})
    /\ request' = Done(p)
    /\ UNCHANGED <<placed, used, ops, astray, swept>>

SaveRack(p) ==
    /\ request[p].kind = "save rack"
    /\ PutRack(request[p].rack, request[p].area) /\ request' = Done(p)
    /\ UNCHANGED <<sites, areas, placed, used, ops, astray, swept>>
RemoveRack(p) ==
    /\ request[p].kind = "delete rack"
    /\ Cascade({}, {}, {request[p].rack} \cap DOMAIN racks)
    /\ request' = Done(p)
    /\ UNCHANGED <<placed, used, ops, astray, swept>>

\* A reference that is gone, or a name that is taken.
Refused(p) ==
    /\ request[p] # Idle /\ request' = Done(p)
    /\ UNCHANGED <<sites, areas, racks, placed, used, ops, astray, swept>>

\* Device.clean: the area is of the site and the rack in the area.
Place(d) ==
    /\ d \notin DOMAIN placed
    /\ \E a \in {None} \cup Areas, s \in sites :
         /\ a # None => areas[a].site = s
         /\ \E r \in {None} \cup {k \in DOMAIN racks : racks[k] = a} :
              placed' = Put(placed, d, [site |-> s, area |-> a, rack |-> r])
    /\ UNCHANGED <<sites, areas, racks, request, used, ops, astray, swept>>

-----------------------------------------------------------------------------
TypeOK ==
    /\ sites \subseteq SiteIds /\ Areas \subseteq used /\ used \subseteq AreaIds
    /\ \A a \in Areas : areas[a].site \in sites /\ Exists(areas[a].parent, Areas)
    /\ DOMAIN racks \subseteq RackIds /\ \A r \in DOMAIN racks : racks[r] \in Areas
    /\ DOMAIN placed \subseteq Devices
    /\ \A d \in DOMAIN placed : /\ placed[d].site \in sites
                                /\ Exists(placed[d].area, Areas)
                                /\ Exists(placed[d].rack, DOMAIN racks)
    /\ DOMAIN request = Procs /\ ops \in 0..MaxOps /\ astray \in BOOLEAN

Init ==
    /\ sites = SiteIds
    /\ areas = <<>> /\ racks = <<>> /\ placed = <<>>
    /\ request = [p \in Procs |-> Idle]
    /\ used = {} /\ ops = 0 /\ astray = FALSE /\ swept = {}

Next ==
    \/ \E p \in Procs :
         \/ CreateArea(p) \/ UpdateArea(p) \/ DeleteArea(p) \/ DropAreas(p) \/ EditArea(p)
         \/ CreateSite(p) \/ UpdateSite(p) \/ DeleteSite(p)
         \/ CreateRack(p) \/ UpdateRack(p) \/ DeleteRack(p) \/ EditRack(p)
         \/ SaveNewArea(p) \/ SaveArea(p) \/ RemoveArea(p) \/ RemoveTrees(p)
         \/ SaveSite(p) \/ RemoveSite(p)
         \/ SaveRack(p) \/ RemoveRack(p) \/ Refused(p)
    \/ \E d \in Devices : Place(d)

Spec == Init /\ [][Next]_vars

-----------------------------------------------------------------------------
(* The page of a site shows each of its areas, and the path of each ends,    *)
(* until a move is chosen that breaks this or two requests overlap: nothing  *)
(* the page itself does, and no single move that the validation has let      *)
(* through with a parent elsewhere, hides an area.  And its delete, which    *)
(* asks for a leaf, takes only what was hung below the area after it asked.  *)
AreasShown ==
    /\ ~astray => \A a \in Areas : a \in Tree(areas[a].site) /\ PathEnds(a)
    /\ swept = {}

=============================================================================
