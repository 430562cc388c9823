--------------------------- MODULE SocketBuffers ----------------------------
(***************************************************************************)
(* Both directions of one socket.  They share the chip and the driver's    *)
(* addressing of its buffers and no state: a behaviour follows one of      *)
(* them, its half, while the other rests, so that the runs need the sum of *)
(* the two state spaces and not their product.                             *)
(***************************************************************************)
EXTENDS SocketReceive, SocketSend

VARIABLE half

vars == <<receiveVars, sendVars, half>>

Init ==
    /\ ReceiveInit /\ SendInit
    /\ half \in {"receive", "send"}

Next ==
    /\ \/ half = "receive" /\ ReceiveNext /\ UNCHANGED sendVars
       \/ half = "send" /\ SendNext /\ UNCHANGED receiveVars
    /\ UNCHANGED half

Spec == Init /\ [][Next]_vars /\ SendFairness

TypeOK == ReceiveTypeOK /\ SendTypeOK
=============================================================================
