------------------------------ MODULE NtpSync -------------------------------
(***************************************************************************)
(* NtpClient, which sets the RTC from an NTP server, within the loop() that*)
(* runs it: ntpClient.process(), the CLIs that configure it or start a sync*)
(* by hand, and the check of the network that drives the RUN LED's mode.   *)
(*                                                                         *)
(* A sync holds loop() for as long as it takes.  It opens UDP port 2390,   *)
(* sends one request and takes the first datagram that comes; answers to   *)
(* an earlier request may still be under way.  Time is counted in units in *)
(* which the loop does at least one iteration or poll: sleep is the time   *)
(* until its next step, and time passes only while it is positive.  The    *)
(* unsigned longs derived from millis() have MillisWord values.            *)
(*                                                                         *)
(*   now                  - millis()                                       *)
(*   autoSync, syncIntervalHours - configManager.ntp(); its server name is *)
(*                          not modelled: it is never empty                *)
(*   firstRun, lastSyncMillis, lastSyncSuccess - NtpClient's members       *)
(*   runMode, lastNetworkState - IndicatorManager's and main.cpp's         *)
(*   pc                   - the step of loop(): "client", "cli", "check",  *)
(*                          or within a sync "resolve", "wait"             *)
(*   auto                 - the sync was started by process()              *)
(*   start, open, unread  - of the query: when its wait began, port 2390 is*)
(*                          open, a short datagram was left unread         *)
(*   ethernet, wifi       - the two links                                  *)
(*   received             - the answers in port 2390's buffer, each by the *)
(*                          age of the time it carries                     *)
(*   sinceSync            - history: the time since the last automatic sync*)
(*                          ended, counted up to MillisWord                *)
(***************************************************************************)
EXTENDS Integers

CONSTANTS MillisWord,  \* 2^32
          HourMillis,  \* 3600 * 1000
          Hours,       \* values typed at "ntp interval <hours>", 0 among them
          Timeout,     \* 3000, the wait for an answer
          Poll,        \* 10, between two looks at the socket
          MaxPause,    \* bound on one iteration of loop(), or on a DNS lookup
          Life         \* bound on the time a datagram spends in the network

ASSUME NtpSyncAssumption ==
    /\ MillisWord \in Nat /\ HourMillis \in Nat /\ Hours \subseteq Nat
    /\ Timeout \in Nat \ {0} /\ Poll \in Nat \ {0}
    /\ MaxPause \in Nat \ {0} /\ Life \in Nat
    /\ Timeout + Poll < MillisWord /\ Life + Poll < MillisWord

VARIABLES now, autoSync, syncIntervalHours,
          firstRun, lastSyncMillis, lastSyncSuccess, runMode, lastNetworkState,
          pc, auto, sleep, start, open, unread,
          ethernet, wifi, received, sinceSync

config == <<autoSync, syncIntervalHours>>
client == <<firstRun, lastSyncMillis, lastSyncSuccess>>
query == <<start, open, unread>>
links == <<ethernet, wifi>>
vars == <<now, config, client, runMode, lastNetworkState, pc, auto, sleep, query, links,
          received, sinceSync>>

RunMode == {"NoNetwork", "Normal", "Syncing"}
Millis == 0..(MillisWord - 1)
MaxAge == Life + Poll + 1  \* ages in received are counted up to here

isConnected == ethernet \/ wifi
restoreRunMode == IF isConnected THEN "Normal" ELSE "NoNetwork"
elapsed(t) == (now - t) % MillisWord

Init ==
    /\ now \in Millis
    /\ autoSync \in BOOLEAN /\ syncIntervalHours \in Hours \ {0}
    /\ firstRun = TRUE /\ lastSyncMillis = 0 /\ lastSyncSuccess = FALSE
    /\ runMode = "NoNetwork" /\ lastNetworkState = FALSE
    /\ pc = "client" /\ auto = FALSE /\ sleep = 0
    /\ start = 0 /\ open = FALSE /\ unread = FALSE
    /\ ethernet \in BOOLEAN /\ wifi \in BOOLEAN
    /\ received = {}
    /\ sinceSync = MillisWord

-----------------------------------------------------------------------------
(***************************************************************************)
(* A sync: syncRtcEx() and queryServer().                                  *)
(***************************************************************************)
\* syncRtcEx() returns, to process() if that called it, which then notes the time
\* whatever the result was.
return(toProcess) ==
    /\ auto' = FALSE
    /\ pc' = IF toProcess THEN "cli" ELSE "check"
    /\ lastSyncMillis' = IF toProcess THEN now ELSE lastSyncMillis
    /\ sinceSync' = IF toProcess THEN 0 ELSE sinceSync

\* Not the code: a failed sync is not noted and so is tried again at once.
syncFailed_notNoted(toProcess) ==
    /\ lastSyncSuccess' = FALSE
    /\ runMode' = restoreRunMode
    /\ auto' = FALSE
    /\ pc' = IF toProcess THEN "cli" ELSE "check"
    /\ UNCHANGED lastSyncMillis
    /\ sinceSync' = IF toProcess THEN 0 ELSE sinceSync

\* Not the code: an early return that forgets the RUN LED.
syncFailed_noRestore(toProcess) ==
    /\ lastSyncSuccess' = FALSE
    /\ runMode' = "Syncing"
    /\ return(toProcess)

\* No address, or no answer.
syncFailed(toProcess) ==
    /\ lastSyncSuccess' = FALSE
    /\ runMode' = restoreRunMode
    /\ return(toProcess)

\* syncRtcEx() up to its call of queryServer(), which first looks up the server's name.  An
\* empty name would end the sync here; the default, the flash and "ntp server" never give one.
startSync(byProcess) ==
    /\ auto' = byProcess
    /\ runMode' = "Syncing" /\ pc' = "resolve"
    /\ sleep' \in 0..MaxPause
    /\ UNCHANGED <<lastSyncMillis, lastSyncSuccess, sinceSync>>

\* WiFi.hostByName() fails, as it always does without WiFi.
resolveFailed ==
    /\ pc = "resolve" /\ sleep = 0
    /\ syncFailed(auto)
    /\ UNCHANGED <<now, config, firstRun, lastNetworkState, sleep, query, links,
                   received>>

\* The request leaves from port 2390; whether it was sent is not checked.
sendRequest ==
    /\ pc = "resolve" /\ sleep = 0 /\ wifi
    /\ open' = TRUE
    /\ start' = now
    /\ pc' = "wait"
    /\ UNCHANGED <<now, config, client, runMode, lastNetworkState, auto, sleep, unread,
                   links, received, sinceSync>>

\* udp.stop(), and queryServer() is left.
stop == open' = FALSE /\ received' = {} /\ unread' = FALSE /\ start' = 0

\* Not the code: the deadline is compared, not the time elapsed.
inTime_plainCompare == now < start + Timeout

inTime == elapsed(start) < Timeout

\* Not the code: the socket stays open when the wait is over.
timedOut_noStop ==
    /\ pc = "wait" /\ sleep = 0 /\ ~inTime
    /\ syncFailed(auto)
    /\ UNCHANGED <<now, config, firstRun, lastNetworkState, sleep, query, received, links>>

timedOut ==
    /\ pc = "wait" /\ sleep = 0 /\ ~inTime
    /\ stop
    /\ syncFailed(auto)
    /\ UNCHANGED <<now, config, firstRun, lastNetworkState, sleep, links>>

\* parsePacket() returns 0 on an empty buffer, and while a datagram is left unread.
pollAgain ==
    /\ pc = "wait" /\ sleep = 0 /\ inTime
    /\ received = {} \/ unread
    /\ sleep' = Poll
    /\ UNCHANGED <<now, config, client, runMode, lastNetworkState, pc, auto, query, links,
                   received, sinceSync>>

\* A datagram of less than 48 bytes is not read, nor drained as NtpServer drains its own.
pollShort ==
    /\ pc = "wait" /\ sleep = 0 /\ inTime /\ ~unread
    /\ unread' = TRUE
    /\ sleep' = Poll
    /\ UNCHANGED <<now, config, client, runMode, lastNetworkState, pc, auto, start, open,
                   links, received, sinceSync>>

\* Any other datagram is taken for the answer, and the RTC set to its transmit time, which
\* setTime() always reports to have succeeded.
syncSucceeded ==
    /\ pc = "wait" /\ sleep = 0 /\ inTime /\ ~unread
    /\ received # {}
    /\ stop
    /\ lastSyncSuccess' = TRUE
    /\ runMode' = restoreRunMode
    /\ return(auto)
    /\ UNCHANGED <<now, config, firstRun, lastNetworkState, sleep, links>>

-----------------------------------------------------------------------------
(***************************************************************************)
(* The steps of loop().                                                    *)
(***************************************************************************)
intervalMs == (syncIntervalHours * HourMillis) % MillisWord

\* Not the code: the time of the next sync is compared, not the time elapsed.
syncDue_plainCompare == firstRun \/ now >= lastSyncMillis + intervalMs

syncDue == firstRun \/ elapsed(lastSyncMillis) >= intervalMs

process ==
    /\ pc = "client" /\ sleep = 0
    /\ IF autoSync /\ isConnected /\ syncDue
       THEN firstRun' = FALSE /\ startSync(TRUE)
       ELSE /\ pc' = "cli"
            /\ UNCHANGED <<client, runMode, auto, sleep, sinceSync>>
    /\ UNCHANGED <<now, config, lastNetworkState, query, links, received>>

cliIdle ==
    /\ pc = "cli" /\ sleep = 0
    /\ pc' = "check"
    /\ UNCHANGED <<now, config, client, runMode, lastNetworkState, auto, sleep, query, links,
                   received, sinceSync>>

\* "ntp sync on" and "off"
cliConfig ==
    /\ pc = "cli" /\ sleep = 0
    /\ autoSync' \in BOOLEAN
    /\ pc' = "check"
    /\ UNCHANGED <<now, syncIntervalHours, client, runMode, lastNetworkState, auto, sleep,
                   query, links, received, sinceSync>>

\* Not the code: "ntp interval" takes what it is given.
cliInterval_unchecked ==
    /\ pc = "cli" /\ sleep = 0
    /\ syncIntervalHours' \in Hours
    /\ pc' = "check"
    /\ UNCHANGED <<now, autoSync, client, runMode, lastNetworkState, auto, sleep,
                   query, links, received, sinceSync>>

\* "ntp interval <hours>"
cliInterval ==
    /\ pc = "cli" /\ sleep = 0
    /\ \E hours \in Hours :
          syncIntervalHours' = IF hours = 0 THEN syncIntervalHours ELSE hours
    /\ pc' = "check"
    /\ UNCHANGED <<now, autoSync, client, runMode, lastNetworkState, auto, sleep,
                   query, links, received, sinceSync>>

\* "ntp sync", whatever the state of the network; once a pass (a bound of the model).
cliSync ==
    /\ pc = "cli" /\ sleep = 0
    /\ startSync(FALSE)
    /\ UNCHANGED <<now, config, firstRun, lastNetworkState, query, links, received>>

\* The end of loop(): the RUN LED's mode follows a change of the network.
networkCheck ==
    /\ pc = "check" /\ sleep = 0
    /\ lastNetworkState' = isConnected
    /\ runMode' = IF isConnected # lastNetworkState THEN restoreRunMode ELSE runMode
    /\ pc' = "client"
    /\ sleep' \in 1..MaxPause
    /\ UNCHANGED <<now, config, client, auto, query, links, received, sinceSync>>

loop ==
    \/ process \/ cliIdle \/ cliConfig \/ cliInterval \/ cliSync \/ networkCheck
    \/ resolveFailed \/ sendRequest \/ pollAgain \/ pollShort \/ syncSucceeded \/ timedOut

-----------------------------------------------------------------------------
(***************************************************************************)
(* The network and time.                                                   *)
(***************************************************************************)
LinkChanges ==
    /\ \/ ethernet' = ~ethernet /\ wifi' = wifi
       \/ wifi' = ~wifi /\ ethernet' = ethernet
    /\ UNCHANGED <<now, config, client, runMode, lastNetworkState, pc, auto, sleep, query,
                   received, sinceSync>>

\* An answer arrives, to this request or to an earlier one, or a copy of an answer; while
\* the port is closed nothing does.
AnswerArrives ==
    /\ open /\ wifi
    /\ \E age \in 0..Life : received' = received \cup {age}
    /\ UNCHANGED <<now, config, client, runMode, lastNetworkState, pc, auto, sleep, query,
                   links, sinceSync>>

Tick ==
    /\ sleep > 0
    /\ sleep' = sleep - 1
    /\ now' = (now + 1) % MillisWord
    /\ received' = {IF age < MaxAge THEN age + 1 ELSE age : age \in received}
    /\ sinceSync' = IF sinceSync < MillisWord THEN sinceSync + 1 ELSE sinceSync
    /\ UNCHANGED <<config, client, runMode, lastNetworkState, pc, auto, query, links>>

Next == loop \/ Tick \/ LinkChanges \/ AnswerArrives

SafeSpec == Init /\ [][Next]_vars

\* loop() is called forever, no step of it waits for anything but time, and time goes on.
Spec == SafeSpec /\ WF_vars(loop) /\ WF_vars(Tick)

-----------------------------------------------------------------------------
TypeOK ==
    /\ now \in Millis /\ start \in Millis /\ lastSyncMillis \in Millis
    /\ autoSync \in BOOLEAN /\ ethernet \in BOOLEAN /\ wifi \in BOOLEAN
    /\ firstRun \in BOOLEAN /\ lastSyncSuccess \in BOOLEAN /\ lastNetworkState \in BOOLEAN
    /\ auto \in BOOLEAN /\ open \in BOOLEAN /\ unread \in BOOLEAN
    /\ syncIntervalHours \in Hours \ {0}
    /\ runMode \in RunMode
    /\ pc \in {"client", "cli", "check", "resolve", "wait"}
    /\ sleep \in Nat
    /\ received \subseteq 0..MaxAge
    /\ sinceSync \in 0..MillisWord

\* The RUN LED's mode is Syncing exactly while a query holds the loop: every way out of
\* syncRtcEx() restores it.  (process() of the LEDs is not called meanwhile, so the mode
\* is never seen to blink.)
SyncingWhileQuerying == runMode = "Syncing" <=> pc \in {"resolve", "wait"}

\* A time that a sync may write to the RTC is no older than a datagram can be, even when it
\* answers an earlier request: nothing waits in port 2390's buffer from sync to sync.
FreshTime == ~unread => \A age \in received : age <= Life + Poll

\* Two automatic syncs are at least syncIntervalHours apart, across the wrap of millis()
\* and whatever syncs by hand and failures come between, as long as the interval in
\* milliseconds is an unsigned long.
IntervalRespected ==
    [][ /\ pc = "client" /\ pc' = "resolve" /\ ~firstRun
        /\ syncIntervalHours * HourMillis < MillisWord
        => sinceSync >= syncIntervalHours * HourMillis ]_vars

\* No sync holds the loop forever, whatever arrives and at whatever time it starts.
SyncEnds == pc = "resolve" ~> pc \in {"cli", "check"}

\* process() has what it needs, and the interval leaves room in an unsigned long for what
\* delays it.
AutoSyncPossible ==
    /\ autoSync /\ isConnected
    /\ syncIntervalHours * HourMillis + 2 * MaxPause + Timeout + Poll < MillisWord

\* As long as that stays so there are always further automatic syncs.
AutoSyncRecurs == <>[]AutoSyncPossible => []<>(pc = "resolve" /\ auto)

\* What main.cpp line 126 says: "Check network state and update indicator manager RUN LED
\* accordingly".
RunModeFollowsNetwork ==
    pc = "client" => runMode = IF lastNetworkState THEN "Normal" ELSE "NoNetwork"
=============================================================================
