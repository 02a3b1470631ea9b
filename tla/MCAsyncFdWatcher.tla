-------------------------- MODULE MCAsyncFdWatcher --------------------------
(* AsyncFdWatcher with two descriptors, as BluetoothHci uses it.           *)
EXTENDS AsyncFdWatcher

TtyFd == 3
ForHciFd == 5
MCFds == {TtyFd, ForHciFd}
=============================================================================
