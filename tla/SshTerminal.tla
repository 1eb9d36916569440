---------------------------- MODULE SshTerminal ----------------------------
(***************************************************************************)
(* The web terminal: a WebSocket consumer on the event loop, the task that *)
(* opens an SSH channel to the device in a worker thread, and the thread   *)
(* that reads from it.  The loop handles one message of the browser after  *)
(* the other, and each handler may wait for a thread; the task of          *)
(* start_ssh runs beside them, also when the browser has left.             *)
(*                                                                         *)
(* A device may refuse, hang up or stop answering at any point; paramiko's *)
(* calls end with an exception when the transport is closed.               *)
(***************************************************************************)
EXTENDS Naturals

CONSTANTS Sizes,    \* terminal sizes that the browser sends
          Default   \* the size without one, 80 x 24

Assumptions == Default \notin Sizes

VARIABLES
    socket,     \* the WebSocket, as the consumer sees it
    task,       \* start_ssh
    worker,     \* the thread of _open_channel, and
    asked,      \*   the size it was called with or has read
    transport, channel,
    reader,     \* the thread of _reader_loop
    handler,    \* the message being handled
    closing, pending,
    size,       \* what the device takes the terminal to be
    late,       \* history: disconnect found no transport that it could close
    raced       \* history: a resize came after the last look at pending

vars == <<socket, task, worker, asked, transport, channel, reader, handler,
          closing, pending, size, late, raced>>

AnySize == Sizes \cup {Default}

TypeOK ==
    /\ socket \in {"new", "open", "closing", "gone", "crashed"}
    /\ task \in {"none", "size", "opening", "paging", "newline", "done"}
    /\ worker \in {"none", "dial", "start", "login", "session", "pty", "shell", "late", "apply",
                   "done", "error"}
    /\ transport \in {"none", "new", "open", "closed"} /\ channel \in {"none", "open", "closed"}
    /\ channel # "none" => transport # "none"
    /\ channel = "open" => transport = "open"
    /\ reader \in {"none", "run", "ended"}
    /\ handler \in {"none", "resize", "key", "send", "channel", "transport"}
    /\ {closing, late, raced} \subseteq BOOLEAN
    /\ asked \in AnySize /\ pending \in AnySize /\ size \in AnySize

Init ==
    /\ socket = "new" /\ task = "none"
    /\ worker = "none" /\ asked = Default
    /\ transport = "none" /\ channel = "none" /\ reader = "none" /\ handler = "none"
    /\ closing = FALSE /\ pending = Default /\ size = Default
    /\ late = FALSE /\ raced = FALSE

-----------------------------------------------------------------------------
(* The task that opens the terminal                                         *)

\* Without a user, a TACACS password or a device the socket is closed again.
Connect ==
    /\ socket = "new"
    /\ \/ socket' = "closing" /\ UNCHANGED task
       \/ socket' = "open" /\ task' = "size"
    /\ UNCHANGED <<worker, asked, transport, channel, reader, handler, closing, pending,
                   size, late, raced>>

\* The first resize arrives, or five seconds pass.
InitialSize ==
    /\ task = "size"
    /\ task' = "opening" /\ worker' = "dial" /\ asked' = pending
    /\ UNCHANGED <<socket, transport, channel, reader, handler, closing, pending,
                   size, late, raced>>

Opens(next) == worker' = next /\ UNCHANGED <<socket, task, reader, handler, closing,
                                             pending, late>>
\* A connection, whose transport connect() then starts.
Dial ==
    /\ \/ worker = "dial" /\ Opens("start") /\ transport' = "new"
       \/ worker = "dial" /\ Opens("error") /\ UNCHANGED transport
       \/ worker = "start" /\ Opens("login") /\ transport' = "open"
    /\ UNCHANGED <<asked, channel, size, raced>>

NoLook == "done"        \* regression: pending_resize is not looked at again
LastLook == IF pending = Default THEN "done" ELSE "apply"

\* The device answers: a login, a session, a terminal of the size, a shell.
Answer ==
    /\ transport = "open"
    /\ \/ worker = "login" /\ Opens("session") /\ UNCHANGED <<channel, size>>
       \/ worker = "session" /\ Opens("pty") /\ channel' = "open" /\ UNCHANGED size
       \/ worker = "pty" /\ channel = "open" /\ Opens("shell") /\ size' = asked
          /\ UNCHANGED channel
       \/ worker = "shell" /\ channel = "open" /\ Opens("late") /\ UNCHANGED <<channel, size>>
    /\ UNCHANGED <<asked, transport, raced>>

Refuse ==
    /\ worker \in {"login", "session", "pty", "shell"}
    /\ Opens("error") /\ UNCHANGED <<asked, transport, channel, size, raced>>
\* What cannot be answered any more raises.
Raise == Refuse /\ (transport = "closed" \/ channel = "closed")

\* A resize that came while the channel was opening; its failure is ignored.
LateResize ==
    /\ \/ worker = "late" /\ Opens(LastLook) /\ asked' = pending /\ UNCHANGED size
       \/ worker = "apply" /\ Opens("done") /\ UNCHANGED asked
          /\ size' = IF channel = "open" THEN asked ELSE size
    /\ UNCHANGED <<transport, channel, raced>>

Started ==
    /\ task = "opening"
    /\ \/ worker = "done" /\ reader' = "run" /\ task' = "paging" /\ UNCHANGED socket
       \/ worker = "error" /\ task' = "done" /\ UNCHANGED reader
          /\ socket' = IF socket = "open" THEN "closing" ELSE socket
    /\ UNCHANGED <<worker, asked, transport, channel, handler, closing, pending, size,
                   late, raced>>

\* A newline, unless the channel is closed; it may close before it is sent.
DisablePaging ==
    /\ \/ task = "paging" /\ task' = (IF channel = "closed" THEN "done" ELSE "newline")
          /\ UNCHANGED socket
       \/ task = "newline" /\ task' = "done"
          /\ socket' = IF channel = "closed" /\ socket = "open" THEN "closing" ELSE socket
    /\ UNCHANGED <<worker, asked, transport, channel, reader, handler, closing,
                   pending, size, late, raced>>

\* recv times out every second, so the loop looks at the flag and the channel.
ReaderEnds ==
    /\ reader = "run" /\ (closing \/ channel = "closed")
    /\ reader' = "ended"
    /\ UNCHANGED <<socket, task, worker, asked, transport, channel, handler, closing,
                   pending, size, late, raced>>

-----------------------------------------------------------------------------
(* The messages of the browser                                              *)

Ready == socket = "open" /\ handler = "none"

Resize ==
    /\ Ready
    /\ pending' \in Sizes
    /\ handler' = IF channel = "none" THEN "none" ELSE "resize"
    /\ raced' = (worker = "apply")
    /\ UNCHANGED <<socket, task, worker, asked, transport, channel, reader, closing,
                   size, late>>

Key ==
    /\ Ready /\ channel # "none"
    /\ handler' = "key"
    /\ UNCHANGED <<socket, task, worker, asked, transport, channel, reader, closing,
                   pending, size, late, raced>>

(* In a thread.  Keys are dropped when the channel is found closed; an      *)
(* exception ends the consumer, and disconnect is never called.  A device   *)
(* without a terminal ignores its size.                                     *)
Handle ==
    /\ \/ /\ handler = "key" /\ handler' = (IF channel = "closed" THEN "none" ELSE "send")
          /\ UNCHANGED <<socket, size>>
       \/ /\ handler = "send" /\ handler' = "none"
          /\ socket' = IF channel = "closed" THEN "crashed" ELSE socket
          /\ UNCHANGED size
       \/ /\ handler = "resize" /\ handler' = "none"
          /\ socket' = IF channel = "closed" THEN "crashed" ELSE socket
          /\ size' = IF channel = "open" /\ worker # "pty" THEN pending ELSE size
    /\ UNCHANGED <<task, worker, asked, transport, channel, reader, closing, pending,
                   late, raced>>

Leave ==
    /\ socket = "open" /\ socket' = "closing"
    /\ UNCHANGED <<task, worker, asked, transport, channel, reader, handler, closing,
                   pending, size, late, raced>>

Disconnect ==
    /\ socket = "closing" /\ handler = "none"
    /\ closing' = TRUE
    /\ handler' = IF channel # "none" THEN "channel"
                  ELSE IF transport # "none" THEN "transport" ELSE "none"
    /\ socket' = IF transport = "none" THEN "gone" ELSE socket
    /\ late' = (transport = "none" /\ task \notin {"none", "done"})
    /\ UNCHANGED <<task, worker, asked, transport, channel, reader, pending, size, raced>>

\* Regression: the transport is left open.
OnlyTheChannel == handler = "transport" /\ UNCHANGED <<transport, channel, late>>
\* close() does nothing with a transport that is not started yet.
CloseTransport ==
    /\ handler = "transport"
    /\ transport' = (IF transport = "new" THEN "new" ELSE "closed")
    /\ channel' = IF channel = "open" THEN "closed" ELSE channel
    /\ late' = (transport = "new")
CloseAll ==
    /\ \/ /\ handler = "channel" /\ handler' = "transport" /\ channel' = "closed"
          /\ UNCHANGED <<socket, transport, late>>
       \/ CloseTransport /\ handler' = "none" /\ socket' = "gone"
    /\ UNCHANGED <<task, worker, asked, reader, closing, pending, size, raced>>

\* The user leaves the shell, or the device closes the connection.
HangUp ==
    /\ \/ channel = "open" /\ channel' = "closed" /\ UNCHANGED transport
       \/ transport = "open" /\ transport' = "closed"
          /\ channel' = IF channel = "open" THEN "closed" ELSE channel
    /\ UNCHANGED <<socket, task, worker, asked, reader, handler, closing, pending,
                   size, late, raced>>

-----------------------------------------------------------------------------
\* What the event loop, the threads and paramiko's exceptions bring about.
Local == \/ InitialSize \/ Dial \/ Raise \/ LateResize \/ Started \/ DisablePaging
         \/ ReaderEnds \/ Handle \/ CloseAll \/ Disconnect
Next == Local \/ Connect \/ Answer \/ Refuse \/ Resize \/ Key \/ Leave \/ HangUp

(* Threads and the loop are scheduled, each by itself; neither the browser  *)
(* nor the device is assumed to do anything.                                *)
Fairness ==
    /\ WF_vars(InitialSize) /\ WF_vars(Dial) /\ WF_vars(Raise) /\ WF_vars(LateResize)
    /\ WF_vars(Started) /\ WF_vars(DisablePaging) /\ WF_vars(ReaderEnds)
    /\ WF_vars(Handle) /\ WF_vars(CloseAll) /\ WF_vars(Disconnect)

Spec == Init /\ [][Next]_vars /\ Fairness

-----------------------------------------------------------------------------
(* Once the browser has left, the reader ends and the connection to the     *)
(* device is closed for good, even if the device has stopped answering in   *)
(* the middle of the opening: unless there was no connection yet to close   *)
(* when the browser left, none made or its transport not started (then      *)
(* start_ssh opens one that nobody closes), or a handler has crashed on a   *)
(* closed channel (then disconnect is not called).                          *)
TerminalEnds ==
    []((socket = "gone" \/ closing) =>
         <>[](reader # "run" /\ (late \/ transport # "open")))

(* When the terminal is open and nothing is under way, the device has the   *)
(* last size the browser sent, wherever in the opening it arrived: except   *)
(* between the last look at it and its use, until the next resize.          *)
SizeArrives ==
    worker = "done" /\ Ready /\ channel = "open" /\ pending # Default /\ ~raced
      => size = pending

=============================================================================
