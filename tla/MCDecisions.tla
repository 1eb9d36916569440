----------------------------- MODULE MCDecisions -----------------------------
(***************************************************************************)
(* A small instance of Decisions: two databases of a few rows, the words   *)
(* of which are x, y, a and 7.                                             *)
(***************************************************************************)
EXTENDS Decisions

CONSTANTS s1, s2

\* As in Listings, whose constants these define.
Row(table, id, device, site, tags, words, keys) ==
    [table |-> table, id |-> id, device |-> device, site |-> site, tags |-> tags,
     words |-> words, keys |-> keys]
Query(search, site, tag, exact, quick, sort) ==
    [search |-> search, site |-> site, tag |-> tag, exact |-> exact, quick |-> quick, sort |-> sort]

Network == {
    Row("device", 1, 0, s1, {"core"},
        [name |-> {"x", "a"}, serial_number |-> {"a"}, site_name |-> {"x"}], [name |-> 1, site |-> 1]),
    Row("device", 2, 0, s1, {}, [name |-> {"a"}, management_ip |-> {"x"}], [name |-> 2, site |-> 1]),
    Row("device", 3, 0, s2, {"core"}, [name |-> {"y"}], [name |-> 3, site |-> 2]),
    Row("module", 4, 1, None, {}, [of |-> {"1"}, module |-> {"x"}, module_serial |-> {"a"}], [module |-> 1]),
    Row("module", 5, 1, None, {}, [of |-> {"1"}, module |-> {"a"}], [module |-> 2]),
    Row("interface", 6, 1, None, {}, [of |-> {"1"}, name |-> {"a"}, status |-> {"err-disabled"}], [name |-> 1]),
    Row("interface", 7, 3, None, {},
        [of |-> {"3"}, name |-> {"x"}, status |-> {"up"}, access_vlan |-> {"a"}], [name |-> 2])}
Office == {
    Row("item", 1, 0, s1, {}, [designation |-> {"x", "a"}, status |-> {"up"}], [name |-> 1]),
    Row("item", 2, 0, s2, {}, [designation |-> {"a"}], [name |-> 2]),
    Row("item", 3, 0, s1, {}, [designation |-> {"a"}], [name |-> 3]),
    Row("vlan", 4, 0, s1, {}, [vlan_id |-> {"7"}, name |-> {"x"}, usage_area |-> {"a"}], [name |-> 1]),
    Row("vlan", 5, 0, s2, {}, [vlan_id |-> {"8"}, name |-> {"7"}, usage_area |-> {"b"}], [name |-> 1]),
    Row("address", 6, 0, None, {}, [address |-> {"x"}, status |-> {"up"}], [name |-> 1]),
    Row("address", 7, 0, None, {}, [address |-> {"a"}, prefix |-> {"a"}], [name |-> 2]),
    Row("prefix", 8, 0, s1, {}, [vrf |-> {"a"}], [name |-> 1]),
    Row("candidate", 9, 0, s1, {}, [ip_address |-> {"x"}, review |-> {"new"}], [name |-> 1]),
    Row("candidate", 10, 0, s2, {}, [ip_address |-> {"a"}, review |-> {"exact"}], [name |-> 2]),
    Row("job", 11, 0, None, {}, [owner |-> {"u"}, status |-> {"running"}], [name |-> 1]),
    Row("job", 12, 0, None, {}, [owner |-> {"u"}, status |-> {"failed"}], [name |-> 2])}

Quick == [qf_device |-> "a", qf_designation |-> "a"]
Exact == {<<>>, [usage_area |-> "a"], [interface_status |-> "up"],
          [owner |-> "u", status |-> "failed", of |-> "1", review |-> "new", vrf |-> "a"],
          [owner |-> "u", status |-> "junk", interface_status |-> "junk", usage_area |-> "junk"]}
MCQueries ==
    {Query(search, site, tag, <<>>, <<>>, sort) :
        search \in {"", "x"}, site \in {"all", s1, Gone, "junk"}, tag \in {"", "core", "junk"},
        sort \in {"name", "site"}}
    \cup {Query(search, site, "", exact, Quick, "name") :
        search \in {"", "7"}, site \in {"all", s1}, exact \in Exact}

MCDatabases == {Network, Office}
=============================================================================
