--------------------------- MODULE CommandOutput ---------------------------
(***************************************************************************)
(* What the readers of command output make of it, line by line: the tables *)
(* and details of CDP and LLDP neighbours, the transceivers of NX-OS and   *)
(* the members of an IOS stack.  A line has its kind and its block, the    *)
(* neighbour, slot or member that the device wrote it about; a field's     *)
(* value is the line it was taken from.  Characters are left out.          *)
(***************************************************************************)
EXTENDS Naturals, Sequences

CONSTANTS MaxBlocks,    \* bounds what a device says
          None

Assumptions == /\ MaxBlocks \in Nat
               /\ \A n \in 1..MaxBlocks : [line |-> "name", block |-> n] # None

VARIABLES format,
          said,         \* the blocks so far, the last one perhaps in part
          at,           \* the lines of the last one that were read
          current,      \* field |-> value of the entry being read
          pending,      \* the table row whose name filled a line
          entries,      \* the entries so far
          result        \* the entries returned, or None

vars == <<format, said, at, current, pending, entries, result>>

(* The lines of a block, in the order of the device, of which it prints some. *)
Lines == [
    cdp |-> <<"device_id", "platform", "interface">>,
    lldp_ios |-> <<"local", "chassis", "port", "system_name", "capabilities", "model">>,
    lldp_nxos |-> <<"chassis", "port", "local", "system_name", "description", "capabilities">>,
    transceivers |-> <<"slot", "present", "absent", "type", "vendor", "part", "serial", "no_serial">>,
    cdp_table |-> <<"row", "blank", "name", "rest", "rest_blank">>,
    lldp_table |-> <<"row", "blank">>,
    stack |-> <<"row", "blank">>]
Formats == DOMAIN Lines
Places == 1..Len(Lines[format])
Kinds(f) == {Lines[f][i] : i \in 1..Len(Lines[f])}
MayMiss == {"platform", "interface", "system_name", "capabilities", "model", "description", "present",
            "absent", "type", "vendor", "part", "serial", "no_serial"}
Details(f) ==
    {b \in SUBSET Kinds(f) : /\ Kinds(f) \ b \subseteq MayMiss
                             /\ ~({"present", "absent"} \subseteq b)
                             /\ ~({"serial", "no_serial"} \subseteq b)}
(* A row whose name is too long goes on in the next line; a cell may be blank. *)
Rows(f) == {{"row"}, {"blank"}}
             \cup IF f = "cdp_table" THEN {{"name", "rest"}, {"name", "rest_blank"}} ELSE {}
Tables == {"cdp_table", "lldp_table", "stack"}
Blocks(f) == IF f \in Tables THEN Rows(f) ELSE Details(f)

\* The entry with another value of some fields.
With(entry, fields, v) == [f \in DOMAIN entry \cup fields |-> IF f \in fields THEN v ELSE entry[f]]

-----------------------------------------------------------------------------
(* Neighbours in detail                                                     *)

\* An entry needs a name and a local interface.
Finalized == IF {"name", "local"} \subseteq DOMAIN current THEN Append(entries, current) ELSE entries

CdpLine(v) ==
    /\ current' = CASE v.line = "device_id" -> [name |-> v]
                    [] v.line = "interface" -> With(current, {"local", "port"}, v)
                    [] v.line = "platform"  -> With(current, {"platform", "capabilities"}, v)
    /\ entries' = IF v.line = "device_id" THEN Finalized ELSE entries

\* The chassis is the name until the system name comes.  An entry begins with
\* it, and with the local interface.
Kept == IF {"local", "name"} \cap DOMAIN current = {} THEN current ELSE <<>>
LldpField == [port |-> "port", capabilities |-> "capabilities", model |-> "platform",
              description |-> "platform", system_name |-> "name"]
\* Without a new entry at the local interface.
KeptLine(v) ==
    /\ current' = CASE v.line = "chassis" -> With(Kept, {"name"}, v)
                    [] v.line = "local"   -> With(current, {"local"}, v)
                    [] OTHER              -> With(current, {LldpField[v.line]}, v)
    /\ entries' = IF v.line \in {"chassis", "local"} THEN Finalized ELSE entries
LldpLine(v) ==
    /\ current' = CASE v.line = "chassis" -> With(Kept, {"name"}, v)
                    [] v.line = "local"   -> [local |-> v]
                    [] OTHER              -> With(current, {LldpField[v.line]}, v)
    /\ entries' = IF v.line \in {"chassis", "local"} THEN Finalized ELSE entries

-----------------------------------------------------------------------------
(* Transceivers: an indented line belongs to the last slot                  *)

SlotField == [type |-> "type", vendor |-> "vendor", part |-> "part", serial |-> "serial",
              no_serial |-> "serial", present |-> "present", absent |-> "present"]
SlotLine(v) ==
    entries' = IF v.line = "slot" THEN Append(entries, [slot |-> v])
               ELSE [entries EXCEPT ![Len(entries)] = With(@, {SlotField[v.line]}, v)]
Installed(e) == /\ "serial" \in DOMAIN e /\ e["serial"].line = "serial"
                /\ "present" \in DOMAIN e => e["present"].line = "present"
\* The rows that count, by their slots.
FromText == [i \in {j \in DOMAIN entries : Installed(entries[j])} |-> entries[i]]
\* The template makes the same rows, with a manufacturer that nobody reads.  It
\* may also not know a line, or leave no row that counts.
Unnamed(e) == [f \in DOMAIN e \ {"vendor"} |-> e[f]]
FromTemplate == [i \in DOMAIN FromText |-> Unnamed(entries[i])]

-----------------------------------------------------------------------------
(* Tables                                                                   *)

Row(v) == [name |-> v, local |-> v, port |-> v]
\* A row of five columns continues the pending one, if there is one.
CdpRow(v) ==
    CASE v.line = "row"  -> entries' = Append(entries, Row(v)) /\ pending' = None
      [] v.line = "name" -> pending' = v /\ UNCHANGED entries
      [] v.line \in {"blank", "rest"} /\ pending # None ->
            entries' = Append(entries, [Row(v) EXCEPT !.name = pending]) /\ pending' = None
      [] OTHER -> UNCHANGED <<entries, pending>>
\* One that is too short is skipped.
PlainRow(v) == entries' = IF v.line = "row" THEN Append(entries, Row(v)) ELSE entries

-----------------------------------------------------------------------------
Read(v) ==
    CASE format = "cdp"          -> CdpLine(v) /\ UNCHANGED pending
      [] format \in {"lldp_ios", "lldp_nxos"} -> LldpLine(v) /\ UNCHANGED pending
      [] format = "transceivers" -> SlotLine(v) /\ UNCHANGED <<current, pending>>
      [] format = "cdp_table"    -> CdpRow(v) /\ UNCHANGED current
      [] OTHER                   -> PlainRow(v) /\ UNCHANGED <<current, pending>>

\* The next line of the block: of those printed, the first after the last place.
NextLine(block, n, last) ==
    \E i \in Places :
       /\ i > last /\ Lines[format][i] \in block
       /\ \A j \in Places : last < j /\ j < i => Lines[format][j] \notin block
       /\ Read([line |-> Lines[format][i], block |-> n]) /\ at' = i

Whole == said # <<>> => \A i \in Places : i > at => Lines[format][i] \notin said[Len(said)]
Begin ==
    /\ result = None /\ Whole /\ Len(said) < MaxBlocks
    /\ \E b \in Blocks(format) : said' = Append(said, b) /\ NextLine(b, Len(said) + 1, 0)
    /\ UNCHANGED <<format, result>>
GoOn ==
    /\ ~Whole /\ NextLine(said[Len(said)], Len(said), at)
    /\ UNCHANGED <<format, said, result>>
End ==
    /\ result = None /\ Whole
    /\ result' \in IF format = "transceivers" THEN {FromTemplate, FromText} ELSE {Finalized}
    /\ UNCHANGED <<format, said, at, current, pending, entries>>

TypeOK ==
    /\ format \in Formats /\ Len(said) <= MaxBlocks /\ at \in 0..8
    /\ \A i \in DOMAIN said : said[i] \in Blocks(format)
    /\ DOMAIN current \subseteq {"name", "local", "port", "platform", "capabilities"}
    /\ pending # None => format = "cdp_table"

Init == /\ format \in Formats /\ said = <<>> /\ at = 0
        /\ current = <<>> /\ pending = None /\ entries = <<>> /\ result = None
Next == Begin \/ GoOn \/ End
Spec == Init /\ [][Next]_vars

-----------------------------------------------------------------------------
BlocksOf(e) == {e[f].block : f \in DOMAIN e}
\* The blocks that should make an entry: with a name of its own, for a detail.
Expected ==
    {b \in DOMAIN said :
        CASE format = "cdp"          -> "interface" \in said[b]
          [] format = "lldp_nxos"    -> "system_name" \in said[b]
          [] format = "lldp_ios"     -> FALSE
          [] format = "transceivers" -> "serial" \in said[b] /\ "absent" \notin said[b]
          [] format = "cdp_table"    -> said[b] \in {{"row"}, {"name", "rest"}}
          [] OTHER                   -> said[b] = {"row"}}

(* Each entry is of one block and each block has one at most, and none that  *)
(* should make an entry is missing: no field stays from the block before.    *)
(* Except that a name whose continued row lacks a cell is put before the     *)
(* next row of five columns; and that no LLDP detail of IOS is read at all,  *)
(* whose local interface comes before the chassis.                           *)
OneBlock ==
    result # None =>
        /\ \A i \in DOMAIN result :
             \/ \E b \in DOMAIN said : BlocksOf(result[i]) = {b}
             \/ said[result[i].name.block] = {"name", "rest_blank"}
        /\ \A i, j \in DOMAIN result : i # j => BlocksOf(result[i]) \cap BlocksOf(result[j]) = {}
        /\ \A b \in Expected : \E i \in DOMAIN result : b \in BlocksOf(result[i])
        /\ format = "lldp_ios" => result = <<>>

=============================================================================
