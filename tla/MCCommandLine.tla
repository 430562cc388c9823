--------------------------- MODULE MCCommandLine ----------------------------
(***************************************************************************)
(* Constants of CommandLine for TLC.                                       *)
(***************************************************************************)
EXTENDS CommandLine

DefaultSettings ==
    [k \in Keys |->
        CASE k \in Switch -> FALSE
          [] k \in WiredAddress -> CHOOSE a \in Address : TRUE
          [] k \in WifiAddress -> NoAddress
          [] k \in Text -> CHOOSE n \in Name : TRUE
          [] k = "mac" -> [i \in 1..MacLen |-> IF i = 1 THEN 2 ELSE 0]
          [] k = "ntp_interval" -> 1]

Numbers == {-1, 0, 1}

\* Too short, zero, of a group, everyone's, one that is accepted and one that is with more
\* after it.
Macs == {<< >>, <<0, 0>>, <<1, 0>>, <<255, 255>>, <<2, 2>>, <<2, 0, 1>>}
=============================================================================
