--------------------------- MODULE MCBluetoothHci ---------------------------
(* BluetoothHci with two clients, one after the other or both at once.     *)
EXTENDS BluetoothHci

CONSTANTS first, second

MCClients == {first, second}
=============================================================================
