----------------------------- MODULE PartLedger -----------------------------
(***************************************************************************)
(* What the inventory promises about a serial number, whoever writes it:   *)
(* at most one row bears it, the module of a device or an item in stock,   *)
(* until two writers overlap on it and it is in dispute.  It leaves the    *)
(* stock for a device only when the device reports it, and a device for    *)
(* the stock only when the device is retired; a device that reports it     *)
(* undisturbed settles every dispute.                                      *)
(*                                                                         *)
(* Nothing here knows of forms, files, sessions or transactions:           *)
(* SerialCustody does, and implements this specification.                  *)
(***************************************************************************)
CONSTANTS Devices, Serials,
          Stock     \* the holder of what no device holds, none of Devices

VARIABLES
    bearers,    \* bearers[s]: <<device or Stock, row>>, each row that bears s
    devices,    \* the devices in production
    disputed    \* the serials in dispute

ledger == <<bearers, devices, disputed>>

AtMostOne(rows) == \A a, b \in rows : a = b
At(h, rows) == \A row \in rows : row[1] = h

Init == \A s \in Serials \ disputed : AtMostOne(bearers[s])

\* A row is inserted for a serial that none bears.
Take(s) == bearers[s] = {} /\ AtMostOne(bearers'[s])

\* Rows are deleted, or get another serial.
GiveUp(s) == bearers'[s] \subseteq bearers[s]

\* An operator moves a module, or an import the serial of an item.
Move(s) == /\ AtMostOne(bearers'[s])
           /\ \/ At(Stock, bearers[s] \cup bearers'[s])
              \/ \A row \in bearers[s] \cup bearers'[s] : row[1] \in Devices

\* Whatever the rows were, one is left, at the device that reports the serial.
Report(s) == \E d \in devices, row \in bearers'[s] :
                bearers'[s] = {row} /\ row[1] = d

\* The device is retired, and its part is in stock.
Store(s) == \E d \in devices \ devices' :
               /\ At(d, bearers[s]) /\ At(Stock, bearers'[s])
               /\ AtMostOne(bearers'[s])

Undisputed(s) == /\ s \notin disputed
                 /\ Take(s) \/ GiveUp(s) \/ Move(s) \/ Store(s)

Next == \A s \in Serials : s \in disputed' \/ Undisputed(s) \/ Report(s)

Spec == Init /\ [][Next]_ledger

-----------------------------------------------------------------------------
(* A serial number that is not in dispute has one bearer at most.           *)
OneBearer == \A s \in Serials \ disputed : AtMostOne(bearers[s])
=============================================================================
