---------------------------- MODULE CommandLine -----------------------------
(***************************************************************************)
(* The three consoles: the serial port (Cli), the TCP CLI over Ethernet    *)
(* (TcpCliServer) and the CLI over WiFi (WifiCliServer).  Each collects    *)
(* the characters of a line in a buffer of its own and gives the line to   *)
(* Cli::executeCommand(), all in the one thread of loop().                 *)
(*                                                                         *)
(* A user sends a line part by part, and one part stands for any number of *)
(* characters; what a part is, is chosen when it is read, so that what     *)
(* waits in a receive buffer needs no variable.  Blanks, which trim()      *)
(* removes, and carriage returns, which the remote consoles skip, are left *)
(* out.                                                                    *)
(*                                                                         *)
(*   link   - the console's _client: "none", "open" (its user's            *)
(*            connection), "gone" (the peer has ended it, or the link is   *)
(*            lost) or, over Ethernet only, "taken" (it is gone, and its   *)
(*            socket number was given to a UDP socket, see SocketPool, so  *)
(*            that connected() says yes again); the serial port is always  *)
(*            open                                                         *)
(*   sent   - parts of the current line read so far                        *)
(*   buffer - _rxBuffer, the numbers of the parts it holds; 0 stands for   *)
(*            bytes of datagrams that were read under a number that is     *)
(*            taken                                                        *)
(*   told   - (history) the user was told that the line is lost: by an     *)
(*            error message, or by the text of a restart on the serial     *)
(*            port                                                         *)
(***************************************************************************)
EXTENDS Settings

CONSTANTS MaxParts,   \* bound: parts of a line a user sends
          MaxCommand  \* MAX_COMMAND_LENGTH in parts, WiFi only

ASSUME CommandLineAssumption == MaxParts \in Nat /\ MaxCommand \in Nat

VARIABLES link, sent, buffer, told

lines == <<sent, buffer, told>>
consoles == <<link, lines>>
vars == <<settings, consoles>>

Remote == {"tcp", "wifi"}
Console == Remote \cup {"serial"}

CommandLineInit ==
    /\ SettingsInit
    /\ link = [c \in Console |-> IF c = "serial" THEN "open" ELSE "none"]
    /\ sent = [c \in Console |-> 0]
    /\ buffer = [c \in Console |-> << >>]
    /\ told = [c \in Console |-> FALSE]

\* The loop is not inside save().
looping == saving = 0

\* connected() of the console's client.
connected(c) == link[c] \in {"open", "taken"}

\* The line of console c begins anew, for the user and in the buffer.
newLine(c) ==
    /\ sent' = [sent EXCEPT ![c] = 0]
    /\ buffer' = [buffer EXCEPT ![c] = << >>]
    /\ told' = [told EXCEPT ![c] = FALSE]

-----------------------------------------------------------------------------
(***************************************************************************)
(* Connections.                                                            *)
(***************************************************************************)
\* Not the code: a new client continues the line of the client before it.
accept_keepsBuffer(c) ==
    /\ looping /\ ~connected(c)
    /\ link' = [link EXCEPT ![c] = "open"]
    /\ sent' = [sent EXCEPT ![c] = 0]
    /\ told' = [told EXCEPT ![c] = FALSE]
    /\ UNCHANGED <<settings, buffer>>

\* The client is missing or gone and available() has a new one: its line is empty.
accept(c) ==
    /\ looping /\ ~connected(c)
    /\ link' = [link EXCEPT ![c] = "open"]
    /\ newLine(c)
    /\ UNCHANGED settings

\* The TCP CLI's available() has none: _client becomes the empty one, and the buffer keeps
\* what the client that is gone had sent.
availableNone ==
    /\ looping /\ link["tcp"] = "gone"
    /\ link' = [link EXCEPT !["tcp"] = "none"]
    /\ UNCHANGED <<settings, lines>>

\* The TCP CLI finds its client gone in its second check: stop(), and the buffer is cleared.
stopGone ==
    /\ looping /\ link["tcp"] = "gone"
    /\ link' = [link EXCEPT !["tcp"] = "none"]
    /\ newLine("tcp")
    /\ UNCHANGED settings

\* The peer ends the connection, or its link is lost, at any time; what process() still
\* reads from it before it looks again counts as read before.
leave(c) ==
    /\ link[c] = "open"
    /\ link' = [link EXCEPT ![c] = "gone"]
    /\ UNCHANGED <<settings, lines>>

\* Before the TCP CLI looks again, socketBegin() gives the closed socket of its client to
\* DHCP ("net restart") or to the NTP listener (reopened after a failed send).
numberTaken ==
    /\ looping /\ link["tcp"] = "gone"
    /\ link' = [link EXCEPT !["tcp"] = "taken"]
    /\ UNCHANGED <<settings, lines>>

\* That UDP socket is closed; what it leaves unread counts as read before.
numberFreed ==
    /\ looping /\ link["tcp"] = "taken"
    /\ link' = [link EXCEPT !["tcp"] = "gone"]
    /\ UNCHANGED <<settings, lines>>

-----------------------------------------------------------------------------
(***************************************************************************)
(* Characters.                                                             *)
(***************************************************************************)
\* The next part of the line is read from console c.
next(c) ==
    /\ looping /\ link[c] = "open" /\ sent[c] < MaxParts
    /\ sent' = [sent EXCEPT ![c] = @ + 1]
    /\ UNCHANGED <<settings, link>>

\* Only the WiFi CLI has a limit.
full(c) == c = "wifi" /\ Len(buffer[c]) >= MaxCommand

\* The part is appended to the buffer.
readPart(c) ==
    /\ next(c) /\ ~full(c)
    /\ buffer' = [buffer EXCEPT ![c] = Append(@, sent'[c])]
    /\ UNCHANGED told

\* handleClientInput() refuses a character that is not printable, and any character when
\* the buffer is full: it drops it with all that came before, and says so.  What follows
\* on the same line starts a new command.
refusePart ==
    /\ next("wifi")
    /\ buffer' = [buffer EXCEPT !["wifi"] = << >>]
    /\ told' = [told EXCEPT !["wifi"] = TRUE]

\* Bytes of a datagram to the UDP socket are appended to what the client that is gone had
\* sent.
readForeign ==
    /\ looping /\ link["tcp"] = "taken"
    /\ \A i \in DOMAIN buffer["tcp"] : buffer["tcp"][i] # 0  \* one 0 for any number of bytes
    /\ buffer' = [buffer EXCEPT !["tcp"] = Append(@, 0)]
    /\ UNCHANGED <<settings, link, sent, told>>

\* The end of the line, typed or in a datagram, with the buffer as in filled: loop() acts
\* on it in this pass, and the buffer is cleared.
endOfLine(c, filled) ==
    /\ looping /\ connected(c)
    /\ filled <=> buffer[c] # << >>
    /\ newLine(c)

\* An empty line.
emptyLine(c) == endOfLine(c, FALSE) /\ UNCHANGED <<settings, link>>

\* executeCommand() tries the five handlers in turn; each command belongs to one of them.
\* "wifi off" also disconnects the WiFi, and with it the WiFi CLI's client.
executeChange(c, k) ==
    /\ endOfLine(c, TRUE)
    /\ \E text \in Arguments(k) :
          /\ change(k, text)
          /\ link' = IF k = "wifi_en" /\ text = <<FALSE>> /\ link["wifi"] = "open"
                     THEN [link EXCEPT !["wifi"] = "gone"]
                     ELSE link

executeSave(c) == endOfLine(c, TRUE) /\ save /\ UNCHANGED link

executeOther(c) == endOfLine(c, TRUE) /\ noSetting /\ UNCHANGED link

\* "exit" on the WiFi CLI, which is no command of executeCommand().
exit ==
    /\ endOfLine("wifi", TRUE)
    /\ link' = [link EXCEPT !["wifi"] = "none"]
    /\ UNCHANGED settings

\* The loop is in save().
saveStep == (\E stored \in BOOLEAN : put(stored)) /\ UNCHANGED consoles

\* A restart drops the connections and every buffer.  The user of the serial port, who may
\* be in the middle of a line, sees the text of setup().
restart ==
    /\ settingsRestart
    /\ link' = [c \in Console |-> IF c = "serial" THEN "open" ELSE "none"]
    /\ sent' = [sent EXCEPT !["tcp"] = 0, !["wifi"] = 0]
    /\ buffer' = [c \in Console |-> << >>]
    /\ told' = [c \in Console |-> c = "serial" /\ sent[c] > 0]

CommandLineNext ==
    \/ \E c \in Remote : accept(c) \/ leave(c)
    \/ availableNone \/ stopGone
    \/ numberTaken \/ numberFreed \/ readForeign
    \/ \E c \in Console : readPart(c) \/ emptyLine(c)
    \/ refusePart
    \/ \E c \in Console, k \in Keys : executeChange(c, k)
    \/ \E c \in Console : executeSave(c) \/ executeOther(c)
    \/ exit
    \/ saveStep
    \/ restart

Spec == CommandLineInit /\ [][CommandLineNext]_vars

-----------------------------------------------------------------------------
TypeOK ==
    /\ SettingsTypeOK
    /\ link \in [Console -> {"none", "open", "gone", "taken"}] /\ link["serial"] = "open"
    /\ sent \in [Console -> 0..MaxParts]
    /\ told \in [Console -> BOOLEAN]
    /\ \A c \in Console : buffer[c] \in Seq(0..MaxParts)

\* While a console's user is connected, what the end of a line executes is that line, whole
\* and typed by this user, unless the user was told otherwise while typing it: the buffer
\* never holds a part of an earlier line, of a line of another connection, of a line it has
\* lost a part of, or of a datagram.  Nothing is said of the TCP CLI's buffer once its user
\* is gone: under a number that is taken, half a line joined to a datagram is executed.
BufferIsLine ==
    \A c \in Console :
        link[c] = "open" /\ ~told[c] => buffer[c] = [i \in 1..sent[c] |-> i]

\* "wifi ip <IP_ADDRESS>" and its likes set the address that was typed.
WifiAddressTaken ==
    [][\A c \in Console, k \in Keys \cap WifiAddress, a \in Address :
         endOfLine(c, TRUE) /\ change(k, <<a>>) /\ UNCHANGED link => ram'[k] = a]_vars
=============================================================================
