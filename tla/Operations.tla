----------------------------- MODULE Operations -----------------------------
(***************************************************************************)
(* The six components whose rows several requests, commands and workers    *)
(* write: schedules, runtime rows, neighbours, the interfaces of a device, *)
(* addresses, and sites with their areas.  They share no state, so a       *)
(* behaviour is one of a component: part says which, and the variables of  *)
(* the others are None.                                                    *)
(***************************************************************************)
EXTENDS Naturals

CONSTANTS
    None, Procs,    \* processes: requests, commands, workers, threads
    MaxWrites, MaxDirect, MaxRuns, MaxSyncs, MaxForms, MaxOps,      \* bounds
    Tasks, Reach, Backup, Cleanup, Title, Rows, Intervals,          \* schedules
    Devices,                                                        \* runtime rows
    Protocols, Entries,                                             \* neighbours
    Names, Kind, InterfaceRows, Types, Reports,                     \* interfaces
    Nets, Places, Interfaces, PrefixIds, AddressIds,                \* addresses
    AreaIds, SiteIds, RackIds, PlacedDevices                        \* sites

VARIABLES
    part,
    proc, writes, directs, alone, exact, rows,      \* of several components
    schedules, periodic, setting, sent,
    present, status, writer, measured,
    ports, old, collector, runs, heard,
    device, members, syncs, last, told, fresh,
    prefixes, addresses, forms, saw, moved,
    sites, areas, racks, placed, request, used, ops, astray, swept

Schedule == INSTANCE ScheduleMirror
Runtime == INSTANCE RuntimeStatus WITH Writers <- Procs
Neighbours == INSTANCE Topology WITH Collectors <- Procs
Sync == INSTANCE DeviceSync WITH Rows <- InterfaceRows
Space == INSTANCE AddressSpace
Sites == INSTANCE Locations WITH Devices <- PlacedDevices

Assumptions == /\ Schedule!Assumptions /\ Runtime!Assumptions /\ Neighbours!Assumptions
               /\ Sync!Assumptions /\ Space!Assumptions /\ Sites!Assumptions

ASSUME OperationsAssumption == Assumptions

-----------------------------------------------------------------------------
scheduleVars == <<schedules, periodic, setting, sent>>
runtimeVars == <<present, status, writer, measured>>
neighbourVars == <<ports, old, collector, runs, heard>>
syncVars == <<device, members, syncs, last, told, fresh>>
spaceVars == <<prefixes, addresses, forms, saw, moved>>
siteVars == <<sites, areas, racks, placed, request, used, ops, astray, swept>>
vars == <<part, proc, writes, directs, alone, exact, rows, scheduleVars, runtimeVars,
          neighbourVars, syncVars, spaceVars, siteVars>>

NoSchedule == schedules = None /\ periodic = None /\ setting = None /\ sent = None
NoRuntime == present = None /\ status = None /\ writer = None /\ measured = None
NoNeighbours == ports = None /\ old = None /\ collector = None /\ runs = None /\ heard = None
NoSync == /\ device = None /\ members = None /\ syncs = None /\ last = None
          /\ told = None /\ fresh = None
NoSpace == prefixes = None /\ addresses = None /\ forms = None /\ saw = None /\ moved = None
NoSites == /\ sites = None /\ areas = None /\ racks = None /\ placed = None /\ request = None
           /\ used = None /\ ops = None /\ astray = None /\ swept = None

Init ==
    \/ /\ part = "schedule" /\ Schedule!Init /\ rows = None
       /\ NoRuntime /\ NoNeighbours /\ NoSync /\ NoSpace /\ NoSites
    \/ /\ part = "runtime" /\ Runtime!Init
       /\ proc = None /\ directs = None /\ alone = None /\ rows = None
       /\ NoSchedule /\ NoNeighbours /\ NoSync /\ NoSpace /\ NoSites
    \/ /\ part = "neighbours" /\ Neighbours!Init
       /\ proc = None /\ writes = None /\ directs = None
       /\ NoSchedule /\ NoRuntime /\ NoSync /\ NoSpace /\ NoSites
    \/ /\ part = "sync" /\ Sync!Init /\ writes = None /\ alone = None
       /\ NoSchedule /\ NoRuntime /\ NoNeighbours /\ NoSpace /\ NoSites
    \/ /\ part = "space" /\ Space!Init
       /\ writes = None /\ directs = None /\ alone = None /\ exact = None /\ rows = None
       /\ NoSchedule /\ NoRuntime /\ NoNeighbours /\ NoSync /\ NoSites
    \/ /\ part = "sites" /\ Sites!Init
       /\ proc = None /\ writes = None /\ directs = None /\ alone = None
       /\ exact = None /\ rows = None
       /\ NoSchedule /\ NoRuntime /\ NoNeighbours /\ NoSync /\ NoSpace

Next ==
    /\ UNCHANGED part
    /\ \/ /\ part = "schedule" /\ Schedule!Next
          /\ UNCHANGED <<rows, runtimeVars, neighbourVars, syncVars, spaceVars, siteVars>>
       \/ /\ part = "runtime" /\ Runtime!Next
          /\ UNCHANGED <<proc, directs, alone, rows,
                         scheduleVars, neighbourVars, syncVars, spaceVars, siteVars>>
       \/ /\ part = "neighbours" /\ Neighbours!Next
          /\ UNCHANGED <<proc, writes, directs,
                         scheduleVars, runtimeVars, syncVars, spaceVars, siteVars>>
       \/ /\ part = "sync" /\ Sync!Next
          /\ UNCHANGED <<writes, alone,
                         scheduleVars, runtimeVars, neighbourVars, spaceVars, siteVars>>
       \/ /\ part = "space" /\ Space!Next
          /\ UNCHANGED <<writes, directs, alone, exact, rows,
                         scheduleVars, runtimeVars, neighbourVars, syncVars, siteVars>>
       \/ /\ part = "sites" /\ Sites!Next
          /\ UNCHANGED <<proc, writes, directs, alone, exact, rows,
                         scheduleVars, runtimeVars, neighbourVars, syncVars, spaceVars>>

Spec == Init /\ [][Next]_vars

-----------------------------------------------------------------------------
(* The variables of each component have the types its module gives them.    *)
TypeOK ==
    /\ part = "schedule" => Schedule!TypeOK
    /\ part = "runtime" => Runtime!TypeOK
    /\ part = "neighbours" => Neighbours!TypeOK
    /\ part = "sync" => Sync!TypeOK
    /\ part = "space" => Space!TypeOK
    /\ part = "sites" => Sites!TypeOK

(* A schedule that a page or the bootstrap command has written alone has a  *)
(* periodic task that says the same, until something writes either again.   *)
MirrorFollows == part = "schedule" => Schedule!MirrorFollows

(* Pages and commands never leave two schedules or two periodic tasks for   *)
(* one task, and the list shows what the page edits.                        *)
OnePerTask == part = "schedule" => Schedule!OnePerTask

(* Overlapping settings forms and reachability runs keep each section as it *)
(* was last saved.                                                          *)
SectionsKept == part = "schedule" => Schedule!SectionsKept

(* What was measured of a device stays until it is measured again, unless a *)
(* run or a scan saves a row it had loaded before another save.             *)
MeasuredStays == part = "runtime" => Runtime!MeasuredStays

(* The rows of a protocol are the neighbours heard by the last collection   *)
(* that was alone and got an answer, each once.                             *)
NeighboursFollow == part = "neighbours" => Neighbours!NeighboursFollow

(* The interfaces and the device's row are those of the answers applied     *)
(* last, unless they were edited since or compared with a stale copy.       *)
AnswersFollow == part = "sync" => Sync!InterfacesFollow /\ Sync!DeviceFollows

(* Of two rows of one address in a VRF neither was there when the other was *)
(* checked.                                                                 *)
AddressesApart == part = "space" => Space!AddressesApart

(* Where the parents lead never decides whether a prefix is accepted.       *)
ParentDecides == part = "space" => Space!ParentDecides

(* A site's page shows each of its areas until a move or an overlap hides   *)
(* one, and deleting a leaf takes nothing that hung below it before.        *)
AreasShown == part = "sites" => Sites!AreasShown

=============================================================================
