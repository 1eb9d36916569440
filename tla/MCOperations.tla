---------------------------- MODULE MCOperations ----------------------------
(***************************************************************************)
(* A small instance of Operations.                                         *)
(***************************************************************************)
EXTENDS Operations, TLC

CONSTANTS p1, p2,       \* processes
          x1, x2,       \* devices, sites or prefixes
          y1, y2,       \* addresses, areas
          t1, t2, s0

Symmetric == Permutations({p1, p2}) \cup Permutations({x1, x2}) \cup Permutations({y1, y2})

MCTitle == [reach |-> 1, backup |-> 2, cleanup |-> 3]

\* A neighbour heard by each protocol, on a port of its own.
MCEntries == {[port |-> "a", protocol |-> "cdp", name |-> 1],
              [port |-> "b", protocol |-> "lldp", name |-> 1]}

(* A port, a port-channel and an SVI.  Answers: a status; the port in the   *)
(* channel with an address, as a stack; another address and a status that   *)
(* is unknown; two answers that raise; the channel alone; nothing at all.   *)
(* The models come from the chassis, whose module is listed before it, from *)
(* the device's own entry, from a part alone, and from the version.         *)
MCKind == [gi |-> "physical", po |-> "port-channel", vlan |-> "svi"]
Answer(desc, state, brief, lag, stack, inventory, version) ==
    [desc |-> desc, status |-> state, brief |-> brief, lag |-> lag, stack |-> stack,
     inventory |-> inventory, version |-> version]
Entry(pid, own, chassis, piece) == [pid |-> pid, own |-> own, chassis |-> chassis, part |-> piece]
Module == Entry(t1, FALSE, FALSE, FALSE)
Silent == <<>>
Port(state, vlan) == [gi |-> [state |-> state, vlan |-> vlan]]
Address(a) == [address |-> a, up |-> TRUE]
MCReports == {
    Answer(Silent, Port("connected", "1"), Silent, Silent, 0,
           <<Entry(None, TRUE, TRUE, FALSE)>>, "unknown"),
    Answer([gi |-> "uplink"], Silent, [gi |-> Address("x")], [gi |-> "po"], 2,
           <<Module, Entry(t2, FALSE, TRUE, FALSE)>>, t1),
    Answer(Silent, Port("unknown", "1"), [gi |-> Address("y"), vlan |-> Address("unassigned")],
           Silent, 1, <<Entry(t2, FALSE, TRUE, FALSE), Entry(t1, TRUE, FALSE, TRUE)>>, None),
    Answer(Silent, Port("connected", ""), Silent, Silent, 1, <<>>, None),
    Answer([po |-> "trunk"], Silent, [vlan |-> Address("bad")], Silent, 2, <<>>, None),
    Answer([po |-> "trunk"], Silent, Silent, Silent, 2, <<>>, t1),
    Answer(Silent, Silent, Silent, Silent, 0, <<Entry("unknown", FALSE, FALSE, TRUE)>>, t2)}

\* A block of four addresses and one of its addresses, in a VRF and without.
MCNets == {<<0, 4>>, <<1, 1>>}
MCPlaces == {[site |-> s0, vrf |-> None], [site |-> s0, vrf |-> "mgmt"]}
MCInterfaces == [eth |-> s0]
=============================================================================
