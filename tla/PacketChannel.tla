--------------------------- MODULE PacketChannel ----------------------------
(***************************************************************************)
(* What the receive path of the Bluetooth HAL promises: the packets the    *)
(* controller sent reach the client whole, once each and in order.         *)
(***************************************************************************)
EXTENDS Naturals, Sequences

CONSTANTS Packets, MaxPackets

VARIABLES sent, delivered   \* packets sent and delivered so far

vars == <<sent, delivered>>

Init == sent = <<>> /\ delivered = <<>>

Send(p) ==
    /\ Len(sent) < MaxPackets
    /\ sent' = Append(sent, p)
    /\ UNCHANGED delivered

Deliver ==
    /\ Len(delivered) < Len(sent)
    /\ delivered' = Append(delivered, sent[Len(delivered) + 1])
    /\ UNCHANGED sent

Next == Deliver \/ \E p \in Packets : Send(p)

SafetySpec == Init /\ [][Next]_vars
Spec == SafetySpec /\ WF_vars(Deliver)
=============================================================================
