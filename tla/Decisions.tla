------------------------------ MODULE Decisions ------------------------------
(***************************************************************************)
(* Three components that keep no rows: the terminal, the listings with     *)
(* their spreadsheets, and the readers of command output.  They share no   *)
(* state, so a behaviour is one of a component: part says which, and the   *)
(* variables of the others do not change: those of the last two are None,  *)
(* and no browser has connected to a terminal.                             *)
(***************************************************************************)
EXTENDS Naturals

CONSTANTS
    None,
    Sizes, Default,                                         \* the terminal
    Databases, Queries, Sites, Tags, Numbers,               \* listings
    Statuses, UsageAreas, Gone, PageSize,
    MaxBlocks                                               \* command output

VARIABLES
    part,
    socket, task, worker, asked, transport, channel, reader, handler, closing, pending,
    size, late, raced,
    db, view, query, pages, exported,
    format, said, at, current, unfinished, entries, result

Terminal == INSTANCE SshTerminal
Lists == INSTANCE Listings
Readers == INSTANCE CommandOutput WITH pending <- unfinished

Assumptions == Terminal!Assumptions /\ Lists!Assumptions /\ Readers!Assumptions

ASSUME DecisionsAssumption == Assumptions

-----------------------------------------------------------------------------
terminalVars == <<socket, task, worker, asked, transport, channel, reader, handler, closing,
                  pending, size, late, raced>>
listVars == <<db, view, query, pages, exported>>
readerVars == <<format, said, at, current, unfinished, entries, result>>
vars == <<part, terminalVars, listVars, readerVars>>

NoList == db = None /\ view = None /\ query = None /\ pages = None /\ exported = None
NoReader == /\ format = None /\ said = None /\ at = None /\ current = None
            /\ unfinished = None /\ entries = None /\ result = None

Init ==
    /\ Terminal!Init
    /\ \/ part = "terminal" /\ NoList /\ NoReader
       \/ part = "lists" /\ Lists!Init /\ NoReader
       \/ part = "readers" /\ NoList /\ Readers!Init

Next ==
    /\ UNCHANGED part
    /\ \/ part = "terminal" /\ Terminal!Next /\ UNCHANGED <<listVars, readerVars>>
       \/ part = "lists" /\ Lists!Next /\ UNCHANGED <<terminalVars, readerVars>>
       \/ part = "readers" /\ Readers!Next /\ UNCHANGED <<terminalVars, listVars>>

\* The fairness of the terminal; the others only answer.
Spec == Init /\ [][Next]_vars /\ Terminal!Fairness

-----------------------------------------------------------------------------
(* Each component's variables have the types its module gives them.         *)
TypeOK ==
    /\ Terminal!TypeOK
    /\ part = "lists" => Lists!TypeOK
    /\ part = "readers" => Readers!TypeOK

(* Once the browser has left, the reader ends and the connection to the     *)
(* device is closed, even if the device stops answering.                    *)
TerminalEnds == Terminal!TerminalEnds

(* The open terminal has the last size that the browser sent.               *)
SizeArrives == Terminal!SizeArrives

(* A spreadsheet has the rows of its listing, and the listing's pages show  *)
(* each of them once.                                                       *)
SheetIsListing == part = "lists" => Lists!SheetIsListing

(* An entry read from a command's output is about one neighbour, slot or    *)
(* member, each has one entry, and none is missing.                         *)
OneBlock == part = "readers" => Readers!OneBlock

=============================================================================
