---------------------------- MODULE MCH4Receive -----------------------------
(* H4Receive with bytes of six values, so that a payload of six needs both *)
(* bytes of an ACL length. Payload bytes look like type bytes.        *)
EXTENDS H4Receive

EventPacket == [type |-> HCI_PACKET_TYPE_EVENT, body |-> <<3, 1, 4>>]
ScoPacket   == [type |-> HCI_PACKET_TYPE_SCO_DATA, body |-> <<4, 0, 2, 2, 4>>]
AclPacket   == [type |-> HCI_PACKET_TYPE_ACL_DATA,
                body |-> <<1, 2, 0, 1, 4, 1, 0, 3, 2, 5>>]
EmptyAcl    == [type |-> HCI_PACKET_TYPE_ACL_DATA, body |-> <<1, 2, 0, 0>>]

MCPackets == {EventPacket, ScoPacket, AclPacket, EmptyAcl}
=============================================================================
