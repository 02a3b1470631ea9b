---------------------------- MODULE BluetoothHci ----------------------------
(***************************************************************************)
(* The life cycle of the Bluetooth HAL (src/bluetooth/bluetooth_hci.cc):   *)
(* clients that initialize it, send, close it or die, the one RPC thread   *)
(* that serves their calls and death notices in turn (service.cc), and the *)
(* watcher thread that runs the callbacks initialize() has registered.     *)
(*                                                                         *)
(* The watcher is FdDispatcher, which AsyncFdWatcher implements. Each      *)
(* initialize() that opens the tty begins a session with descriptors of    *)
(* its own; a unit of data stands for one read of the packetizer.          *)
(***************************************************************************)
EXTENDS Integers, Sequences, SequencesExt

CONSTANTS
    Clients,        \* processes that use the HAL
    NoClient,
    NoFd,
    MaxSessions,    \* bound: sessions begun
    MaxArrivals,    \* bound: units that arrive at the tty in a session
    ShimCapacity    \* units a shim socket holds

ASSUME NamesAssumption == NoClient \notin Clients
ASSUME SessionsAssumption ==
    MaxSessions \in Nat /\ MaxArrivals \in Nat /\ ShimCapacity \in Nat \ {0}

Sessions == 1..MaxSessions
NONE == 0   \* a null hci_; an hci_tty_fd_ of -1
Tty(n)  == [kind |-> "tty", session |-> n]
Shim(n) == [kind |-> "shim", session |-> n]

ASSUME NoFdAssumption == \A n \in Sessions : NoFd \notin {Tty(n), Shim(n)}

VARIABLES
    client,         \* what each client is doing
    queue,          \* calls and death notices waiting for the RPC thread
    call,           \* the one it is serving
    rpc,            \* where it is
    hci_tty_fd_,    \* the session whose tty it is, or NONE
    event_cb_,      \* the client whose callbacks they are, or NoClient
    hci_,           \* the session whose H4Protocol it is, or NONE
    live,           \* H4Protocol objects that have not been deleted
    linked,         \* clients whose death deathRecipient is told
    sessions,       \* sessions begun so far
    owner,          \* the client that began each of them
    registered, stopping, active, avail,   \* FdDispatcher: the watcher
    using,          \* the H4Protocol a callback is inside
    forwarded,      \* the callback of the tty has written to the shim
    fed,            \* history: the shims each H4Protocol has read from
    arrived,        \* history: units that have arrived at each tty
    orderly,        \* history: clients have used the HAL as they should
    crashed         \* the process is gone

W == INSTANCE FdDispatcher WITH
        Fds <- {Tty(n) : n \in Sessions} \cup {Shim(n) : n \in Sessions},
        MaxUnits <- ShimCapacity

watcher  == <<registered, stopping, active, avail>>
callback == <<using, forwarded, fed>>
hal      == <<hci_tty_fd_, event_cb_, hci_, live, linked, sessions, owner>>
vars == <<client, queue, call, rpc, hal, watcher, callback, arrived, orderly,
          crashed>>

Requests == [kind : {"initialize", "send", "close", "serviceDied"}, from : Clients]
NoCall   == [kind |-> "none", from |-> NoClient]

\* hci_ and hci_tty_fd_ have no initialiser; whatever they hold, a use of them
\* before the first initialize() ends the process like a null pointer does.
Init ==
    /\ client = [c \in Clients |-> "new"]
    /\ queue = <<>>
    /\ call = NoCall
    /\ rpc = "idle"
    /\ hci_tty_fd_ = NONE /\ event_cb_ = NoClient /\ hci_ = NONE
    /\ live = {} /\ linked = {}
    /\ sessions = 0
    /\ owner = [n \in Sessions |-> NoClient]
    /\ W!Init
    /\ using = NONE /\ forwarded = FALSE
    /\ fed = [n \in Sessions |-> {}]
    /\ arrived = [n \in Sessions |-> 0]
    /\ orderly = TRUE
    /\ crashed = FALSE

\* A step of a process that goes on, and the last step of one that does not.
Survives == ~crashed /\ crashed' = FALSE
Crashes  == ~crashed /\ crashed' = TRUE

-----------------------------------------------------------------------------
(* Clients. A call is synchronous: its client waits for the reply.         *)

Request(kind, c) == [kind |-> kind, from |-> c]

Asks(c, kind) ==
    /\ queue' = Append(queue, Request(kind, c))
    /\ client' = [client EXCEPT ![c] = "waiting"]
    /\ UNCHANGED <<call, rpc, hal, watcher, callback, arrived>>
    /\ Survives

\* Every other client has finished with the HAL, and the HAL with it.
Alone(c) ==
    /\ rpc = "idle" /\ queue = <<>>
    /\ \A d \in Clients \ {c} : client[d] \notin {"waiting", "ready"}

\* Nothing keeps a client from initializing while another one uses the HAL, nor
\* from closing what it has failed to open; it is not orderly.
ClientInitializes(c) ==
    /\ client[c] = "new"
    /\ Asks(c, "initialize")
    /\ orderly' = (orderly /\ Alone(c))

ClientSends(c) ==
    /\ client[c] = "ready"
    /\ Asks(c, "send")
    /\ UNCHANGED orderly

ClientCloses(c) ==
    /\ client[c] \in {"ready", "failed"}
    /\ Asks(c, "close")
    /\ orderly' = (orderly /\ client[c] = "ready")

ClientDies(c) ==
    /\ client[c] \in {"waiting", "ready", "failed"}
    /\ client' = [client EXCEPT ![c] = "dead"]
    /\ queue' = IF c \in linked THEN Append(queue, Request("serviceDied", c)) ELSE queue
    /\ UNCHANGED <<call, rpc, hal, watcher, callback, arrived, orderly>>
    /\ Survives

-----------------------------------------------------------------------------
(* The RPC thread.                                                         *)

TakeCall ==
    /\ rpc = "idle"
    /\ queue # <<>>
    /\ call' = Head(queue)
    /\ queue' = Tail(queue)
    /\ rpc' = CASE call'.kind = "initialize" -> "open"
                [] call'.kind = "send" -> "send"
                [] OTHER -> "stop"
    /\ UNCHANGED <<client, hal, watcher, callback, arrived, orderly>>
    /\ Survives

\* The caller has its reply, if it lives to see it.
Reply(status) ==
    /\ client' = IF client[call.from] = "waiting"
                 THEN [client EXCEPT ![call.from] = status] ELSE client
    /\ rpc' = "idle"

OpenFails ==
    /\ rpc = "open"
    /\ hci_tty_fd_' = NONE
    /\ Reply("failed")
    /\ UNCHANGED <<queue, call, event_cb_, hci_, live, linked, sessions, owner,
                   watcher, callback, arrived, orderly>>
    /\ Survives

\* Mutations: the death is not linked; the link precedes "event_cb_ = cb".
LinkNobody(c) == UNCHANGED <<linked, queue>>
LinkPrevious(c) == linked' = linked \cup {event_cb_} /\ UNCHANGED queue

\* linkToDeath: a client that is dead already is reported at once.
LinkToDeath(c) ==
    /\ linked' = linked \cup {c}
    /\ queue' = IF client[c] = "dead" THEN Append(queue, Request("serviceDied", c)) ELSE queue

\* The tty, the death link and the protocol object of a new session.
OpenSucceeds ==
    /\ rpc = "open"
    /\ sessions < MaxSessions
    /\ LET n == sessions + 1
       IN  /\ sessions' = n
           /\ hci_tty_fd_' = n
           /\ owner' = [owner EXCEPT ![n] = call.from]
           /\ hci_' = n
           /\ live' = live \cup {n}
    /\ event_cb_' = call.from
    /\ LinkToDeath(call.from)
    /\ rpc' = "watch_tty"
    /\ UNCHANGED <<client, call, watcher, callback, arrived, orderly>>
    /\ Survives

WatchTty ==
    /\ rpc = "watch_tty"
    /\ W!Register(Tty(hci_tty_fd_))
    /\ rpc' = "watch_shim"
    /\ UNCHANGED <<client, queue, call, hal, callback, arrived, orderly>>
    /\ Survives

WatchShim ==
    /\ rpc = "watch_shim"
    /\ W!Register(Shim(hci_tty_fd_))
    /\ rpc' = "complete"
    /\ UNCHANGED <<client, queue, call, hal, callback, arrived, orderly>>
    /\ Survives

InitializationComplete ==
    /\ rpc = "complete"
    /\ Reply("ready")
    /\ UNCHANGED <<queue, call, hal, watcher, callback, arrived, orderly>>
    /\ Survives

SendPacket ==
    /\ rpc = "send"
    /\ hci_ # NONE
    /\ Reply("ready")
    /\ UNCHANGED <<queue, call, hal, watcher, callback, arrived, orderly>>
    /\ Survives

SendCrashes ==
    /\ rpc = "send"
    /\ hci_ = NONE
    /\ UNCHANGED <<client, queue, call, rpc, hal, watcher, callback, arrived, orderly>>
    /\ Crashes

\* Mutations: a stop that is never asked for; one that does not wait for the
\* callback that is running; one that leaves the descriptors registered.
StopUnasked == UNCHANGED watcher
StopUnawaited == stopping' = FALSE /\ registered' = {} /\ UNCHANGED <<active, avail>>
StopUnfinished == active = NoFd /\ stopping' = FALSE /\ UNCHANGED <<registered, active, avail>>

\* The two ends of StopWatchingFileDescriptors.
AskToStop == W!BeginStop
StopReturns == W!FinishStop

\* close(), for a caller or for serviceDied.
CloseStopsWatcher ==
    /\ rpc = "stop"
    /\ hci_tty_fd_ # NONE
    /\ AskToStop
    /\ rpc' = "join"
    /\ UNCHANGED <<client, queue, call, hal, callback, arrived, orderly>>
    /\ Survives

CloseWithoutTty ==
    /\ rpc = "stop"
    /\ hci_tty_fd_ = NONE
    /\ rpc' = "unlink"
    /\ UNCHANGED <<client, queue, call, hal, watcher, callback, arrived, orderly>>
    /\ Survives

CloseJoins ==
    /\ rpc = "join"
    /\ StopReturns
    /\ hci_tty_fd_' = NONE
    /\ rpc' = "unlink"
    /\ UNCHANGED <<client, queue, call, event_cb_, hci_, live, linked, sessions,
                   owner, callback, arrived, orderly>>
    /\ Survives

\* unlinkToDeath takes back a notice that is still waiting; there is one at most.
TakeBack(notice) ==
    IF notice \in Range(queue)
    THEN \E i \in DOMAIN queue : queue[i] = notice /\ queue' = RemoveAt(queue, i)
    ELSE UNCHANGED queue

CloseUnlinks ==
    /\ rpc = "unlink"
    /\ event_cb_ # NoClient
    /\ linked' = linked \ {event_cb_}
    /\ TakeBack(Request("serviceDied", event_cb_))
    /\ rpc' = "delete"
    /\ UNCHANGED <<client, call, hci_tty_fd_, event_cb_, hci_, live, sessions, owner,
                   watcher, callback, arrived, orderly>>
    /\ Survives

\* event_cb_ is null if no session has ever begun.
CloseCrashes ==
    /\ rpc = "unlink"
    /\ event_cb_ = NoClient
    /\ UNCHANGED <<client, queue, call, rpc, hal, watcher, callback, arrived, orderly>>
    /\ Crashes

CloseDeletes ==
    /\ rpc = "delete"
    /\ live' = live \ {hci_}
    /\ hci_' = NONE
    /\ Reply("closed")
    /\ UNCHANGED <<queue, call, hci_tty_fd_, event_cb_, linked, sessions, owner,
                   watcher, callback, arrived, orderly>>
    /\ Survives

-----------------------------------------------------------------------------
(* The watcher thread.                                                     *)

TtyCallbackBegins(n) ==
    /\ W!BeginCallback(Tty(n))
    /\ UNCHANGED <<client, queue, call, rpc, hal, callback, arrived, orderly>>
    /\ Survives

\* The lambda has captured the shim of its session; a full shim blocks it.
TtyCallbackForwards(n) ==
    /\ active = Tty(n)
    /\ ~forwarded
    /\ W!DataArrives(Shim(n))
    /\ forwarded' = TRUE
    /\ UNCHANGED <<client, queue, call, rpc, hal, using, fed, arrived, orderly>>
    /\ Survives

TtyCallbackReturns(n) ==
    /\ active = Tty(n)
    /\ forwarded
    /\ W!EndCallback
    /\ forwarded' = FALSE
    /\ UNCHANGED <<client, queue, call, rpc, hal, using, fed, arrived, orderly>>
    /\ Survives

\* The lambda has captured this, and reads hci_ when it runs.
ShimCallbackBegins(n) ==
    /\ hci_ # NONE
    /\ W!BeginCallback(Shim(n))
    /\ using' = hci_
    /\ UNCHANGED <<client, queue, call, rpc, hal, forwarded, fed, arrived, orderly>>
    /\ Survives

ShimCallbackCrashes(n) ==
    /\ hci_ = NONE
    /\ W!BeginCallback(Shim(n))
    /\ UNCHANGED <<client, queue, call, rpc, hal, callback, arrived, orderly>>
    /\ Crashes

ShimCallbackReturns(n) ==
    /\ active = Shim(n)
    /\ fed' = [fed EXCEPT ![using] = @ \cup {n}]
    /\ using' = NONE
    /\ W!EndCallback
    /\ UNCHANGED <<client, queue, call, rpc, hal, forwarded, arrived, orderly>>
    /\ Survives

\* The controller sends more to an open tty.
DataArrives(n) ==
    /\ Tty(n) \in registered
    /\ arrived[n] < MaxArrivals
    /\ arrived' = [arrived EXCEPT ![n] = @ + 1]
    /\ W!DataArrives(Tty(n))
    /\ UNCHANGED <<client, queue, call, rpc, hal, callback, orderly>>
    /\ Survives

-----------------------------------------------------------------------------
RpcStep ==
    \/ TakeCall
    \/ OpenFails \/ OpenSucceeds \/ WatchTty \/ WatchShim \/ InitializationComplete
    \/ SendPacket \/ SendCrashes
    \/ CloseStopsWatcher \/ CloseWithoutTty
    \/ CloseUnlinks \/ CloseCrashes \/ CloseDeletes

CallbackStep(n) ==
    TtyCallbackForwards(n) \/ TtyCallbackReturns(n) \/ ShimCallbackReturns(n)

ClientStep(c) ==
    ClientInitializes(c) \/ ClientSends(c) \/ ClientCloses(c) \/ ClientDies(c)

Next ==
    \/ RpcStep \/ CloseJoins
    \/ \E c \in Clients : ClientStep(c)
    \/ \E n \in Sessions :
          \/ CallbackStep(n)
          \/ TtyCallbackBegins(n)
          \/ ShimCallbackBegins(n) \/ ShimCallbackCrashes(n)
          \/ DataArrives(n)

Spec == Init /\ [][Next]_vars

\* The shim's callback is inside the protocol object of a client that has died: a
\* call to that client comes back at once.
CallsTheDead == using # NONE /\ client[owner[using]] = "dead"

\* What FdDispatcher!Spec promises of the watcher, and threads that run. A living
\* client may keep the call that the shim's callback makes for as long as it likes.
FairSpec ==
    /\ Spec
    /\ WF_vars(RpcStep)
    /\ SF_vars(CloseJoins)
    /\ \A n \in Sessions :
          /\ WF_vars(TtyCallbackForwards(n) \/ TtyCallbackReturns(n))
          /\ WF_vars(CallsTheDead /\ ShimCallbackReturns(n))

-----------------------------------------------------------------------------
(* Properties. Those that say "orderly" hold as long as no client          *)
(* initializes while another one uses the HAL, nor closes what is not open.*)

\* The H4Protocol that a callback of the watcher thread is inside is not deleted
\* under it by a close() on the RPC thread, and neither hci_ nor event_cb_ is
\* dereferenced while null, by the watcher thread or by a client's call.
NoBadAccess == orderly => ~crashed /\ (using # NONE => using \in live)

\* The bytes a protocol object parses are those of one tty, its own: two streams
\* in one parser would cut packets out of a mixture of both.
OneStreamPerParser == orderly => \A n \in Sessions : fed[n] \subseteq {n}

\* Whatever clients do, a session whose client has died is not forgotten: the
\* notice of the death is waiting for the RPC thread, or a close() is under way.
SessionHasGuardian ==
    (hci_tty_fd_ # NONE /\ client[owner[hci_tty_fd_]] = "dead") =>
        \/ rpc \in {"stop", "join"}
        \/ Request("serviceDied", owner[hci_tty_fd_]) \in Range(queue)

\* The watcher thread sleeps in its write to a full shim, which nobody but itself
\* would read (bluetooth_hci.cc:73-75).
WriteIsStuck ==
    \E n \in Sessions : active = Tty(n) /\ ~forwarded /\ avail[Shim(n)] = ShimCapacity

\* "mHci->close()" in serviceDied: the session of a client that dies ends, unless the
\* watcher thread, which the close waits for, sleeps for ever in a write to a full
\* shim. Nothing else keeps it, a call to the dead client the least.
DeadClientsSessionEnds ==
    \A n \in Sessions :
        (hci_tty_fd_ = n /\ client[owner[n]] = "dead")
            ~> (hci_tty_fd_ # n \/ ~orderly \/ []WriteIsStuck)

\* The join of a close() (async_fd_watcher.cc:90) waits for the callback that runs.
\* It ends and the close returns, but for two callbacks that never do: one asleep in
\* a write to a full shim, and one in a call that a living client does not answer.
CloseReturns ==
    (rpc = "join")
        ~> \/ rpc = "idle" \/ ~orderly
           \/ []WriteIsStuck
           \/ [](using # NONE /\ ~CallsTheDead)
=============================================================================
