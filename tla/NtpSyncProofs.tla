--------------------------- MODULE NtpSyncProofs ----------------------------
(***************************************************************************)
(* Theorems about NtpSync for any width of millis(), interval, timeout and *)
(* network delay.                                                          *)
(***************************************************************************)
EXTENDS NtpSync, ModularArithmetic

\* Port 2390 is open, and holds anything, only during the wait.
OpenInWait ==
    /\ open <=> pc = "wait"
    /\ ~open => received = {} /\ ~unread

\* Between two polls an answer in the buffer gains no more age than the pause is long.
AgeInWait ==
    pc = "wait" =>
        /\ sleep <= Poll
        /\ ~unread => \A age \in received : age + sleep <= Life + Poll

\* Until the history has counted a full word, lastSyncMillis tells the same time.
SinceAgrees == sinceSync < MillisWord => now = (lastSyncMillis + sinceSync) % MillisWord

IInv == TypeOK /\ SyncingWhileQuerying /\ OpenInWait /\ AgeInWait /\ SinceAgrees

-----------------------------------------------------------------------------
LEMMA RestoreRunMode == restoreRunMode \in {"Normal", "NoNetwork"}
  BY DEF restoreRunMode

\* What the end of a sync leaves, whoever started it and however it ended.
LEMMA ReturnStep ==
  ASSUME IInv, NEW toProcess \in BOOLEAN, return(toProcess), runMode' = restoreRunMode,
         lastSyncSuccess' \in BOOLEAN, UNCHANGED <<now, links, config>>
  PROVE  /\ auto' = FALSE /\ pc' \in {"cli", "check"} /\ runMode' \in {"Normal", "NoNetwork"}
         /\ lastSyncMillis' \in Millis /\ sinceSync' \in 0..MillisWord
         /\ SinceAgrees'
<1>1. now \in Millis /\ MillisWord \in Nat \ {0}
  BY NtpSyncAssumption DEF IInv, TypeOK
<1>2. (now + 0) % MillisWord = now
  BY <1>1, RemainderSmall DEF Millis
<1>3. CASE toProcess
  BY <1>1, <1>2, <1>3, RestoreRunMode DEF return, SinceAgrees
<1>4. CASE ~toProcess
  BY <1>4, RestoreRunMode DEF return, IInv, TypeOK, SinceAgrees
<1> QED  BY <1>3, <1>4

-----------------------------------------------------------------------------
LEMMA InitIInv == Init => IInv
<1> SUFFICES ASSUME Init PROVE IInv
  OBVIOUS
<1>1. TypeOK
  <2>1. /\ MillisWord \in Nat /\ 0 \in Millis /\ MillisWord \in 0..MillisWord
    BY NtpSyncAssumption DEF Millis
  <2> QED  BY <2>1 DEF Init, TypeOK, RunMode
<1>2. SyncingWhileQuerying /\ OpenInWait /\ AgeInWait /\ SinceAgrees /\ sleep \in Nat
  BY NtpSyncAssumption DEF Init, SyncingWhileQuerying, OpenInWait, AgeInWait, SinceAgrees
<1> QED  BY <1>1, <1>2 DEF IInv

\* The steps that leave the time and everything about a query alone.
LEMMA OtherSteps ==
  ASSUME IInv,
         cliIdle \/ cliConfig \/ cliInterval \/ networkCheck \/ LinkChanges
            \/ (process /\ pc' = "cli" /\ UNCHANGED <<client, runMode, auto, sleep, sinceSync>>)
  PROVE  IInv'
<1>1. /\ UNCHANGED <<now, client, auto, query, received, sinceSync>>
      /\ \/ pc' = pc /\ UNCHANGED <<runMode, sleep>>
         \/ /\ pc \notin {"resolve", "wait"} /\ pc' \in {"cli", "check", "client"}
            /\ runMode' \in {runMode, "Normal", "NoNetwork"} /\ sleep' \in Nat
  <2>1. CASE networkCheck
    BY <2>1, RestoreRunMode, NtpSyncAssumption DEF networkCheck
  <2>2. CASE LinkChanges
    BY <2>2 DEF LinkChanges
  <2>3. CASE cliIdle \/ cliConfig \/ cliInterval
    BY <2>3 DEF cliIdle, cliConfig, cliInterval, IInv, TypeOK
  <2>4. CASE process /\ pc' = "cli" /\ UNCHANGED <<client, runMode, auto, sleep, sinceSync>>
    BY <2>4 DEF process, IInv, TypeOK
  <2> QED  BY <2>1, <2>2, <2>3, <2>4
<1>2. /\ autoSync' \in BOOLEAN /\ ethernet' \in BOOLEAN
      /\ wifi' \in BOOLEAN /\ lastNetworkState' \in BOOLEAN /\ syncIntervalHours' \in Hours \ {0}
  <2>1. CASE networkCheck
    BY <2>1 DEF networkCheck, config, links, isConnected, IInv, TypeOK
  <2>2. CASE LinkChanges
    BY <2>2 DEF LinkChanges, config, IInv, TypeOK
  <2>3. CASE cliIdle
    BY <2>3 DEF cliIdle, config, links, IInv, TypeOK
  <2>4. CASE cliConfig
    BY <2>4 DEF cliConfig, links, IInv, TypeOK
  <2>5. CASE cliInterval
    BY <2>5 DEF cliInterval, links, IInv, TypeOK
  <2>6. CASE process
    BY <2>6 DEF process, config, links, IInv, TypeOK
  <2> QED  BY <2>1, <2>2, <2>3, <2>4, <2>5, <2>6
<1>3. TypeOK'
  BY <1>1, <1>2 DEF client, query, IInv, TypeOK, RunMode
<1>4. SyncingWhileQuerying' /\ OpenInWait' /\ AgeInWait' /\ SinceAgrees'
  BY <1>1 DEF client, query, IInv, SyncingWhileQuerying, OpenInWait, AgeInWait, SinceAgrees
<1> QED  BY <1>3, <1>4 DEF IInv, TypeOK

\* process() or "ntp sync" starts a sync.
LEMMA StartStep ==
  ASSUME IInv, NEW byProcess \in BOOLEAN, startSync(byProcess),
         pc \in {"client", "cli"}, firstRun' \in BOOLEAN,
         UNCHANGED <<now, config, lastNetworkState, query, links, received>>
  PROVE  IInv'
<1>1. sleep' \in Nat
  BY NtpSyncAssumption DEF startSync
<1>2. TypeOK'
  BY <1>1 DEF startSync, config, query, links, IInv, TypeOK, RunMode
<1>3. SyncingWhileQuerying' /\ OpenInWait' /\ AgeInWait' /\ SinceAgrees'
  BY DEF startSync, query, IInv, SyncingWhileQuerying, OpenInWait, AgeInWait, SinceAgrees
<1> QED  BY <1>2, <1>3 DEF IInv

\* The three ways in which a sync that was started ends.
LEMMA EndStep ==
  ASSUME IInv, resolveFailed \/ timedOut \/ syncSucceeded
  PROVE  IInv'
<1>1. /\ return(auto) /\ runMode' = restoreRunMode /\ lastSyncSuccess' \in BOOLEAN
      /\ UNCHANGED <<now, config, firstRun, lastNetworkState, sleep, links>>
  BY DEF resolveFailed, timedOut, syncSucceeded, syncFailed
<1>2. open' = FALSE /\ received' = {} /\ unread' = FALSE /\ start' \in Millis
  <2>1. CASE resolveFailed
    BY <2>1 DEF resolveFailed, query, IInv, TypeOK, OpenInWait
  <2>2. CASE timedOut \/ syncSucceeded
    BY <2>2, NtpSyncAssumption DEF timedOut, syncSucceeded, stop, Millis
  <2> QED  BY <2>1, <2>2
<1>3. /\ auto' = FALSE /\ pc' \in {"cli", "check"} /\ runMode' \in {"Normal", "NoNetwork"}
      /\ lastSyncMillis' \in Millis /\ sinceSync' \in 0..MillisWord /\ SinceAgrees'
  <2>1. auto \in BOOLEAN
    BY DEF IInv, TypeOK
  <2> QED  BY <1>1, <2>1, ReturnStep
<1>4. TypeOK'
  BY <1>1, <1>2, <1>3 DEF config, links, IInv, TypeOK, RunMode
<1>5. SyncingWhileQuerying' /\ OpenInWait' /\ AgeInWait'
  BY <1>2, <1>3 DEF SyncingWhileQuerying, OpenInWait, AgeInWait
<1> QED  BY <1>3, <1>4, <1>5 DEF IInv, TypeOK

\* The request, the polls that find nothing to take, and the answers that arrive.
LEMMA WaitStep ==
  ASSUME IInv, sendRequest \/ pollAgain \/ pollShort \/ AnswerArrives
  PROVE  IInv'
<1> USE NtpSyncAssumption
<1>1. CASE sendRequest
  <2>1. TypeOK'
    BY <1>1 DEF sendRequest, config, client, links, IInv, TypeOK
  <2>2. SyncingWhileQuerying' /\ OpenInWait' /\ AgeInWait' /\ SinceAgrees'
    BY <1>1 DEF sendRequest, client, IInv, SyncingWhileQuerying, OpenInWait, AgeInWait,
                SinceAgrees
  <2> QED  BY <2>1, <2>2 DEF IInv, TypeOK
<1>2. CASE pollAgain \/ pollShort
  <2>1. TypeOK'
    BY <1>2 DEF pollAgain, pollShort, config, client, query, links, IInv, TypeOK
  <2>2. SyncingWhileQuerying' /\ OpenInWait' /\ SinceAgrees'
    BY <1>2 DEF pollAgain, pollShort, client, query, IInv, SyncingWhileQuerying, OpenInWait,
                SinceAgrees
  <2>3. AgeInWait'
    BY <1>2 DEF pollAgain, pollShort, query, AgeInWait
  <2> QED  BY <2>1, <2>2, <2>3 DEF IInv, TypeOK
<1>3. CASE AnswerArrives
  <2>1. PICK age \in 0..Life : received' = received \cup {age}
    BY <1>3 DEF AnswerArrives
  <2>2. /\ open
        /\ UNCHANGED <<now, config, client, runMode, lastNetworkState, pc, auto, sleep, query,
                       links, sinceSync>>
    BY <1>3 DEF AnswerArrives
  <2>3. TypeOK'
    BY <2>1, <2>2 DEF config, client, query, links, IInv, TypeOK, MaxAge
  <2>4. SyncingWhileQuerying' /\ OpenInWait' /\ SinceAgrees'
    BY <2>2 DEF client, query, IInv, SyncingWhileQuerying, OpenInWait, SinceAgrees
  <2>5. AgeInWait'
    BY <2>1, <2>2 DEF query, IInv, TypeOK, AgeInWait
  <2> QED  BY <2>3, <2>4, <2>5 DEF IInv, TypeOK
<1> QED  BY <1>1, <1>2, <1>3

LEMMA TickStep == ASSUME IInv, Tick PROVE IInv'
<1>1. /\ sleep \in Nat /\ sleep > 0 /\ sleep' = sleep - 1
      /\ now' = (now + 1) % MillisWord
      /\ received' = {IF age < MaxAge THEN age + 1 ELSE age : age \in received}
      /\ sinceSync' = IF sinceSync < MillisWord THEN sinceSync + 1 ELSE sinceSync
      /\ UNCHANGED <<config, client, runMode, lastNetworkState, pc, auto, query, links>>
  BY DEF Tick, IInv, TypeOK
<1>2. now \in Int /\ lastSyncMillis \in Int /\ MillisWord \in Nat \ {0} /\ sinceSync \in 0..MillisWord
  BY NtpSyncAssumption DEF IInv, TypeOK, Millis
<1>3. now' \in Millis
  <2>1. now + 1 \in Int
    BY <1>2
  <2>2. (now + 1) % MillisWord \in 0..(MillisWord - 1)
    BY <1>2, <2>1, DivMod
  <2> QED  BY <1>1, <2>2 DEF Millis
<1>4. received' \subseteq 0..MaxAge
  BY <1>1, NtpSyncAssumption DEF IInv, TypeOK, MaxAge
<1>5. TypeOK'
  BY <1>1, <1>2, <1>3, <1>4, NtpSyncAssumption DEF config, client, query, links, IInv, TypeOK
<1>6. SinceAgrees'
  <2>1. SUFFICES ASSUME sinceSync' < MillisWord
                 PROVE  now' = (lastSyncMillis + (sinceSync + 1)) % MillisWord
    BY <1>1, <1>2 DEF client, SinceAgrees
  <2>2. sinceSync < MillisWord
    BY <1>1, <1>2, <2>1
  <2>3. now = (lastSyncMillis + sinceSync) % MillisWord
    BY <2>2 DEF IInv, SinceAgrees
  <2>4. lastSyncMillis + sinceSync \in Int /\ 1 \in Int
    BY <1>2
  <2>5. (now + 1) % MillisWord = ((lastSyncMillis + sinceSync) + 1) % MillisWord
    BY <1>2, <2>3, <2>4, RemainderOfSum
  <2>6. (lastSyncMillis + sinceSync) + 1 = lastSyncMillis + (sinceSync + 1)
    BY <1>2
  <2> QED  BY <1>1, <2>5, <2>6
<1>7. SyncingWhileQuerying' /\ OpenInWait'
  BY <1>1 DEF query, IInv, SyncingWhileQuerying, OpenInWait
<1>8. AgeInWait'
  <2> SUFFICES ASSUME pc = "wait"
               PROVE  /\ sleep' <= Poll
                      /\ ~unread => \A age \in received' : age + sleep' <= Life + Poll
    BY <1>1 DEF query, AgeInWait
  <2>1. sleep <= Poll
    BY DEF IInv, AgeInWait
  <2>2. ASSUME ~unread, NEW old \in received PROVE old + 1 + sleep' <= Life + Poll
    BY <1>1, <2>2, NtpSyncAssumption DEF IInv, AgeInWait, TypeOK, MaxAge
  <2>3. \A old \in received : old \in Nat
    BY NtpSyncAssumption DEF IInv, TypeOK, MaxAge
  <2> QED  BY <1>1, <2>1, <2>2, <2>3, NtpSyncAssumption DEF MaxAge
<1> QED  BY <1>5, <1>6, <1>7, <1>8 DEF IInv, TypeOK

LEMMA NextIInv == IInv /\ [Next]_vars => IInv'
<1> SUFFICES ASSUME IInv, [Next]_vars PROVE IInv'
  OBVIOUS
<1>1. CASE process
  <2>1. CASE autoSync /\ isConnected /\ syncDue
    <3>1. startSync(TRUE) /\ firstRun' \in BOOLEAN /\ pc \in {"client", "cli"}
      BY <1>1, <2>1 DEF process
    <3>2. UNCHANGED <<now, config, lastNetworkState, query, links, received>>
      BY <1>1 DEF process
    <3> QED  BY <3>1, <3>2, StartStep
  <2>2. CASE ~(autoSync /\ isConnected /\ syncDue)
    BY <1>1, <2>2, OtherSteps DEF process
  <2> QED  BY <2>1, <2>2
<1>2. CASE cliSync
  <2>1. startSync(FALSE) /\ firstRun' \in BOOLEAN /\ pc \in {"client", "cli"}
    BY <1>2 DEF cliSync, IInv, TypeOK
  <2>2. UNCHANGED <<now, config, lastNetworkState, query, links, received>>
    BY <1>2 DEF cliSync
  <2> QED  BY <2>1, <2>2, StartStep
<1>3. CASE cliIdle \/ cliConfig \/ cliInterval \/ networkCheck \/ LinkChanges
  BY <1>3, OtherSteps
<1>4. CASE resolveFailed \/ timedOut \/ syncSucceeded
  BY <1>4, EndStep
<1>5. CASE sendRequest \/ pollAgain \/ pollShort \/ AnswerArrives
  BY <1>5, WaitStep
<1>6. CASE Tick
  BY <1>6, TickStep
<1>7. CASE UNCHANGED vars
  BY <1>7 DEF vars, config, client, query, links, IInv, TypeOK, SyncingWhileQuerying, OpenInWait,
              AgeInWait, SinceAgrees
<1> QED  BY <1>1, <1>2, <1>3, <1>4, <1>5, <1>6, <1>7 DEF Next, loop

LEMMA Inductive == SafeSpec => []IInv
  BY InitIInv, NextIInv, PTL DEF SafeSpec

-----------------------------------------------------------------------------
\* Every variable stays within its type: words within their width, no interval of 0 hours.
THEOREM TypeCorrect == SafeSpec => []TypeOK
  BY Inductive, PTL DEF IInv

\* Every way out of syncRtcEx() restores the RUN LED's mode, and nothing else sets Syncing.
THEOREM ModeRestored == SafeSpec => []SyncingWhileQuerying
  BY Inductive, PTL DEF IInv

\* Whatever Timeout is, an answer that a sync takes is never older than the network can
\* make it plus one poll.
THEOREM AnswersFresh == SafeSpec => []FreshTime
<1>1. IInv => FreshTime
  <2> SUFFICES ASSUME IInv, ~unread, NEW age \in received PROVE age <= Life + Poll
    BY DEF FreshTime
  <2>1. pc = "wait" /\ age + sleep <= Life + Poll
    BY DEF IInv, OpenInWait, AgeInWait
  <2> QED  BY <2>1, NtpSyncAssumption DEF IInv, TypeOK, MaxAge
<1> QED  BY <1>1, Inductive, PTL

\* NtpClient::process() keeps its distance for every interval whose milliseconds fit an
\* unsigned long: the subtraction of two of them is right across any number of wraps.
THEOREM IntervalKept == SafeSpec => IntervalRespected
<1> DEFINE hoursMs == syncIntervalHours * HourMillis
           Respected == /\ pc = "client" /\ pc' = "resolve" /\ ~firstRun
                        /\ hoursMs < MillisWord
                        => sinceSync >= hoursMs
<1>1. IInv /\ [Next]_vars => [Respected]_vars
  <2> SUFFICES ASSUME IInv, Next, pc = "client", pc' = "resolve", ~firstRun, hoursMs < MillisWord
               PROVE  sinceSync >= hoursMs
    OBVIOUS
  <2>1. process
    BY DEF Next, loop, cliIdle, cliConfig, cliInterval, cliSync, networkCheck, resolveFailed,
           sendRequest, pollAgain, pollShort, syncSucceeded, timedOut, Tick, LinkChanges,
           AnswerArrives
  <2>2. (now - lastSyncMillis) % MillisWord >= hoursMs % MillisWord
    BY <2>1 DEF process, syncDue, elapsed, intervalMs
  <2>3. /\ MillisWord \in Nat \ {0} /\ sinceSync \in 0..MillisWord
        /\ lastSyncMillis \in Int /\ now \in Int
    BY NtpSyncAssumption DEF IInv, TypeOK, Millis
  <2>4. hoursMs \in 0..(MillisWord - 1)
    <3>1. syncIntervalHours \in Nat /\ HourMillis \in Nat
      BY NtpSyncAssumption DEF IInv, TypeOK
    <3>2. hoursMs \in Nat
      BY <3>1
    <3> QED  BY <2>3, <3>2
  <2> HIDE DEF hoursMs
  <2>5. hoursMs % MillisWord = hoursMs
    BY <2>3, <2>4, RemainderSmall
  <2>6. CASE sinceSync = MillisWord
    BY <2>3, <2>4, <2>6
  <2>7. CASE sinceSync < MillisWord
    <3> DEFINE sum == lastSyncMillis + sinceSync
               back == -lastSyncMillis
    <3>1. now = sum % MillisWord
      BY <2>7 DEF IInv, SinceAgrees
    <3>2. /\ sum \in Int /\ back \in Int /\ sum + back = sinceSync
          /\ now - lastSyncMillis = now + back
      BY <2>3
    <3> HIDE DEF sum, back
    <3>3. ((sum % MillisWord) + back) % MillisWord = (sum + back) % MillisWord
      BY <2>3, <3>2, RemainderOfSum
    <3>4. sinceSync % MillisWord = sinceSync
      BY <2>3, <2>7, RemainderSmall
    <3>5. (now - lastSyncMillis) % MillisWord = sinceSync
      BY <3>1, <3>2, <3>3, <3>4, Zenon
    <3> QED  BY <2>2, <2>5, <3>5, Zenon
  <2> QED  BY <2>3, <2>6, <2>7
<1> QED  BY <1>1, Inductive, PTL DEF SafeSpec, IntervalRespected
=============================================================================
