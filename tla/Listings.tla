------------------------------ MODULE Listings ------------------------------
(***************************************************************************)
(* The pages that list rows, filtered, sorted and in parts, and the        *)
(* spreadsheets that their Export links fetch.  A browser stays on one     *)
(* listing, turns its pages and follows the link, while nobody edits.      *)
(*                                                                         *)
(* A field's content is the set of the texts it contains, a number's the   *)
(* set of that number.  A search over fields joined by spaces is one over  *)
(* each of them.                                                           *)
(***************************************************************************)
EXTENDS Naturals, FiniteSets, Functions

CONSTANTS
    Databases,      \* what the tables may hold: a set of rows
    Queries,        \* what a browser may ask for
    Sites, Tags, Numbers,
    Statuses, UsageAreas,   \* the choices of an interface and of a VLAN
    Gone,           \* the UUID of no row; a junk parameter is "junk"
    None,
    PageSize

(* A row has its table, id, the device or site it belongs to, tags, words: its *)
(* text fields, and keys: its order by those fields that tell rows apart.      *)
Row(table, id, device, site, tags, words, keys) ==
    [table |-> table, id |-> id, device |-> device, site |-> site, tags |-> tags,
     words |-> words, keys |-> keys]
\* What a browser asks for: a search, filters and the sort field.
Query(search, site, tag, exact, quick, sort) ==
    [search |-> search, site |-> site, tag |-> tag, exact |-> exact, quick |-> quick, sort |-> sort]

Numbered(row) == \A f \in DOMAIN row.keys : row.keys[f] \in Nat
Assumptions == /\ PageSize \in Nat \ {0}
               /\ \A rows \in Databases : IsFiniteSet(rows) /\ \A row \in rows : Numbered(row)

VARIABLES db, view, query,
          pages,        \* the rows that each page showed, by its number
          exported      \* the rows of the spreadsheet, or None

vars == <<db, view, query, pages, exported>>

\* The fields of the first, and those that only the second has.
Over(f, g) == [x \in DOMAIN f \cup DOMAIN g |-> IF x \in DOMAIN f THEN f[x] ELSE g[x]]

Table(name) == {r \in db : r.table = name}
Has(row, field, text) == field \in DOMAIN row.words /\ text \in row.words[field]
Contains(row, fields, text) == text = "" \/ \E f \in fields : Has(row, f, text)
Word(row, field) == IF field \in DOMAIN row.words THEN row.words[field] ELSE {}

\* Each filter that is given has to match.
Quick(row, filters, q) ==
    \A f \in DOMAIN q.quick \cap DOMAIN filters : Contains(row, filters[f], q.quick[f])
Chosen(q, field) == IF field \in DOMAIN q.exact THEN q.exact[field] ELSE ""
Matches(row, field, value) == value = "" \/ value \in Word(row, field)
Exact(row, fields, q) == \A f \in fields : Matches(row, f, Chosen(q, f))

\* What is not offered counts as nothing chosen: of fields with choices, sites and tags.
Known(q, field, offered) == IF Chosen(q, field) \in offered THEN Chosen(q, field) ELSE ""
KnownSite(q) == IF q.site \in Sites THEN q.site ELSE "all"
KnownTag(q) == IF q.tag \in Tags THEN q.tag ELSE ""
AtSite(row, site) == site = "all" \/ row.site = site
Tagged(row, tag) == tag = "" \/ tag \in row.tags

Device(row) == CHOOSE d \in Table("device") : d.id = row.device
\* An interface or module with the columns of its device.
OnDevice(row) == LET d == Device(row)
                     own == [device |-> Word(d, "name"), site_name |-> Word(d, "site_name"),
                             management_ip |-> Word(d, "management_ip")]
                 IN Row(row.table, row.id, row.device, d.site, d.tags, Over(row.words, own), row.keys)

-----------------------------------------------------------------------------
(* The listings                                                             *)

DeviceQuick == [qf_device |-> {"name"}, qf_ip |-> {"management_ip"}, qf_type |-> {"model", "vendor"},
                qf_serial |-> {"serial_number"}, qf_location |-> {"area"}, qf_rack |-> {"rack"},
                qf_image |-> {"image_version"}]
DeviceWords == {"name", "management_ip", "serial_number", "image_version", "model", "vendor",
                "area", "rack", "site_name", "organization"}
HasInterface(row, status) ==
    status = "" \/ \E i \in Table("interface") : i.device = row.id /\ Has(i, "status", status)
InterfaceStatus(q) == Known(q, "interface_status", Statuses)
Devices(q) == {d \in Table("device") : /\ AtSite(d, KnownSite(q)) /\ Tagged(d, KnownTag(q))
                                       /\ HasInterface(d, InterfaceStatus(q))
                                       /\ Contains(d, DeviceWords, q.search)
                                       /\ Quick(d, DeviceQuick, q)}
DeviceSheet(q) == Devices(q)

\* The modules and the interfaces of one device.
Modules(q) == {m \in Table("module") : /\ Exact(m, {"of"}, q)
                                       /\ Contains(m, {"module", "module_serial", "module_description"},
                                                   q.search)}
InterfaceWords == {"name", "description", "ip_address", "vlan_raw"}
IpOrVlan == {"ip_address", "vlan_raw", "access_vlan"}
InterfaceQuick == [qf_name |-> {"name"}, qf_description |-> {"description"}, qf_ip_vlan |-> IpOrVlan,
                   qf_status |-> {"status"}, qf_duplex |-> {"duplex"},
                   qf_speed_mode |-> {"speed_mode"}, qf_speed |-> {"speed"}]
Interfaces(q) == {i \in Table("interface") :
                    /\ Exact(i, {"of"}, q)
                    /\ Contains(i, InterfaceWords \cup {"status", "duplex", "speed_mode"}, q.search)
                    /\ Quick(i, InterfaceQuick, q)}

\* All interfaces, and those that are err-disabled.
WideWords == InterfaceWords \cup {"device", "management_ip", "site_name"}
AllQuick == [qf_device |-> {"device"}, qf_mgmt_ip |-> {"management_ip"}, qf_interface |-> {"name"},
             qf_description |-> {"description"}, qf_ip_vlan |-> IpOrVlan, qf_speed |-> {"speed"},
             qf_status |-> {"status"}]
Wide(q) == {i \in {OnDevice(j) : j \in Table("interface")} :
              AtSite(i, KnownSite(q)) /\ Tagged(i, KnownTag(q))}
AllInterfaces(q) == {i \in Wide(q) : /\ Contains(i, WideWords \cup {"status"}, q.search)
                                     /\ Quick(i, AllQuick, q)}
ErrDisabled(q) == {i \in Wide(q) : /\ Has(i, "status", "err-disabled")
                                   /\ Contains(i, WideWords, q.search)}

\* Every device with each of its modules, or once without.
NoModule == [id |-> None, words |-> <<>>, keys |-> <<>>]
ModulesOf(d) == LET own == {m \in Table("module") : m.device = d.id}
                IN IF own = {} THEN {NoModule} ELSE own
InventoryRow(d, m) ==
    LET own == [device |-> Word(d, "name"), device_serial |-> Word(d, "serial_number")]
    IN Row("inventory", <<d.id, m.id>>, d.id, d.site, d.tags,
           Over(m.words, Over(d.words, own)), Over(d.keys, m.keys))
InventoryWords == {"name", "serial_number", "inventory_number", "site_name", "area", "rack", "module",
                   "module_inventory", "module_serial", "module_description"}
InventoryRows(search) ==
    {r \in UNION {{InventoryRow(d, m) : m \in ModulesOf(d)} : d \in Table("device")} :
       Contains(r, InventoryWords, search)}
InventoryQuick == [qf_device |-> {"device"}, qf_inventory_number |-> {"module_inventory"},
                   qf_device_serial |-> {"device_serial"}, qf_location |-> {"location"},
                   qf_module |-> {"module"}, qf_module_serial |-> {"module_serial"},
                   qf_description |-> {"module_description"}]
Inventory(q) == {r \in InventoryRows(q.search) : /\ AtSite(r, KnownSite(q)) /\ Tagged(r, KnownTag(q))
                                                 /\ Quick(r, InventoryQuick, q)}
\* The spreadsheet takes a site as it is given.
UntaggedInventory(q) == {r \in InventoryRows(q.search) : AtSite(r, q.site) /\ Quick(r, InventoryQuick, q)}
InventorySheet(q) == {r \in InventoryRows(q.search) : /\ AtSite(r, q.site) /\ Tagged(r, KnownTag(q))
                                                      /\ Quick(r, InventoryQuick, q)}

StorageWords == {"designation", "inventory_number", "serial_number", "vendor", "model", "site_name",
                 "area", "item_type", "status", "comment"}
StorageQuick == [qf_designation |-> {"designation"}, qf_inventory_number |-> {"inventory_number"},
                 qf_serial_number |-> {"serial_number"}, qf_location |-> {"location"},
                 qf_vendor |-> {"vendor"}, qf_model |-> {"model"}, qf_item_type |-> {"item_type"},
                 qf_status |-> {"status"}, qf_comment |-> {"comment"}]
StorageRows(search) == {i \in Table("item") : Contains(i, StorageWords, search)}
Storage(q) == {i \in StorageRows(q.search) : AtSite(i, KnownSite(q)) /\ Quick(i, StorageQuick, q)}
StorageSheet(q) == Storage(q)

VlanQuick == [qf_vlan_id |-> {"vlan_id"}, qf_name |-> {"name"}, qf_subnet |-> {"subnet"},
              qf_gateway |-> {"gateway"}, qf_usage_area |-> {"usage_area"}, qf_description |-> {"description"}]
\* Any UUID will do as a site.
VlanSite(q) == IF q.site \in Sites \cup {Gone} THEN q.site ELSE "all"
VlanWords(text) == {"name", "description", "usage_area", "subnet"}
                     \cup {IF text \in Numbers THEN "vlan_id" ELSE "site_name"}
UsageArea(q) == Known(q, "usage_area", UsageAreas)
Vlans(q) == {v \in Table("vlan") : /\ AtSite(v, VlanSite(q)) /\ Matches(v, "usage_area", UsageArea(q))
                                   /\ Contains(v, VlanWords(q.search), q.search)
                                   /\ Quick(v, VlanQuick, q)}
VlanSheet(q) == {v \in Table("vlan") : /\ AtSite(v, VlanSite(q))
                                      /\ Matches(v, "usage_area", UsageArea(q))}

Addresses(q) == {a \in Table("address") :
                   /\ Exact(a, {"of", "interface", "prefix", "vrf", "status"}, q)
                   /\ Contains(a, {"address", "hostname"}, q.search)}
Prefixes(q) == {p \in Table("prefix") : /\ AtSite(p, q.site) /\ Exact(p, {"vrf"}, q)
                                       /\ Matches(p, "length", Known(q, "length", Numbers))}

Reviews == {"exact", "mismatch", "new"}
Candidates(q) == {c \in Table("candidate") : /\ AtSite(c, q.site)
                                             /\ Matches(c, "review", Known(q, "review", Reviews))
                                             /\ Matches(c, "ssh", Known(q, "ssh", {"1"}))
                                             /\ Contains(c, {"ip_address", "hostname", "site_name"}, q.search)}
\* Of the user, and the running ones unless another status is asked for, or "all".
JobStatuses == {"pending", "completed", "failed"}
JobStatus(q) == IF Chosen(q, "status") = "all" THEN ""
                ELSE IF Chosen(q, "status") \in JobStatuses THEN Chosen(q, "status") ELSE "running"
Jobs(q) == {j \in Table("job") : Exact(j, {"owner"}, q) /\ Matches(j, "status", JobStatus(q))}

Views == {"devices", "modules", "interfaces", "all_interfaces", "err_disabled", "inventory",
          "storage", "vlans", "addresses", "prefixes", "candidates", "jobs"}
Listed(q) ==
    CASE view = "devices" -> Devices(q)             [] view = "modules" -> Modules(q)
      [] view = "interfaces" -> Interfaces(q)       [] view = "all_interfaces" -> AllInterfaces(q)
      [] view = "err_disabled" -> ErrDisabled(q)    [] view = "inventory" -> Inventory(q)
      [] view = "storage" -> Storage(q)             [] view = "vlans" -> Vlans(q)
      [] view = "addresses" -> Addresses(q)         [] view = "prefixes" -> Prefixes(q)
      [] view = "candidates" -> Candidates(q)       [] view = "jobs" -> Jobs(q)
\* A site that is no UUID is an error; some listings are of one device or one user.
Answered(q) == /\ view \in {"candidates", "prefixes"} => q.site # "junk"
               /\ view \in {"modules", "interfaces"} => "of" \in DOMAIN q.exact
               /\ view = "jobs" => "owner" \in DOMAIN q.exact
\* The generic list views have no page past the last, and answer 404.
Generic == {"devices", "vlans", "addresses", "prefixes"}

-----------------------------------------------------------------------------
(* Order, pages and spreadsheets                                            *)

Key(row, field) == IF field \in DOMAIN row.keys THEN row.keys[field] ELSE 0
\* The orders of the rows; equal keys come in any, by each query anew.
Orders(rows, field) ==
    {o \in Bijection(1..Cardinality(rows), rows) :
       \A i, j \in DOMAIN o : i < j => Key(o[i], field) <= Key(o[j], field)}
LastPage(rows) == (Cardinality(rows) + PageSize - 1) \div PageSize

\* Regression: each part begins with the last row of the one before.
OverlappingPart(o, m) == {o[i] : i \in DOMAIN o \cap ((m - 1) * PageSize .. m * PageSize)}
Part(o, m) == {o[i] : i \in DOMAIN o \cap ((m - 1) * PageSize + 1 .. m * PageSize)}
\* A number past the last page shows the last, elsewhere than in the generic views.
Page(n) ==
    /\ Answered(query) /\ n \notin DOMAIN pages
    /\ view \in Generic => n = 1 \/ n <= LastPage(Listed(query))
    /\ LET rows == Listed(query)
           m == IF n <= LastPage(rows) THEN n ELSE LastPage(rows)
       IN \E o \in Orders(rows, query.sort) :
            pages' = [k \in DOMAIN pages \cup {n} |-> IF k = n THEN Part(o, m) ELSE pages[k]]
    /\ UNCHANGED <<db, view, query, exported>>

\* The link repeats what the page made of the query; that of the VLANs has the
\* site and the usage area.
Link == LET q == query
        IN IF view = "vlans" THEN Query("", VlanSite(q), q.tag, q.exact, <<>>, q.sort)
           ELSE Query(q.search, KnownSite(q), KnownTag(q), q.exact, q.quick, q.sort)
Export ==
    /\ exported = None
    /\ \/ view = "devices" /\ exported' = DeviceSheet(Link)
       \/ view = "inventory" /\ exported' = InventorySheet(Link)
       \/ view = "storage" /\ exported' = StorageSheet(Link)
       \/ view = "vlans" /\ exported' = VlanSheet(Link)
    /\ UNCHANGED <<db, view, query, pages>>

TypeOK == /\ db \in Databases /\ view \in Views /\ query \in Queries
          /\ DOMAIN pages \subseteq Nat
          /\ \A n \in DOMAIN pages : Cardinality(pages[n]) <= PageSize

Init == /\ db \in Databases /\ view \in Views /\ query \in Queries
        /\ pages = <<>> /\ exported = None

Next == Export \/ \E n \in 1..(LastPage(Listed(query)) + 1) : Page(n)

Spec == Init /\ [][Next]_vars

-----------------------------------------------------------------------------
(* A spreadsheet has the rows of the listing it was fetched from, those of   *)
(* all its pages, however site and tag were given; that of the VLANs leaves  *)
(* the search and the quick filters out.  And the pages show each of these   *)
(* rows once, if the sort field tells them apart: else a row may be on two   *)
(* pages and another on none.                                                *)
SheetIsListing ==
    LET rows == Listed(query)
        numbers == 1..LastPage(rows)
    IN /\ exported # None => exported = IF view = "vlans" THEN Listed(Link) ELSE rows
       /\ numbers \subseteq DOMAIN pages
            /\ (\A r, s \in rows : r # s => Key(r, query.sort) # Key(s, query.sort))
          => /\ UNION {pages[n] : n \in numbers} = rows
             /\ \A m, n \in numbers : m # n => pages[m] \cap pages[n] = {}

=============================================================================
