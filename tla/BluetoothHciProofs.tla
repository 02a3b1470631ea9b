------------------------- MODULE BluetoothHciProofs -------------------------
(***************************************************************************)
(* Proofs about BluetoothHci, for every set of clients and every bound on  *)
(* sessions, units and shims.                                              *)
(***************************************************************************)
EXTENDS BluetoothHci, SequenceTheorems, TLAPS

Descriptors == {Tty(n) : n \in Sessions} \cup {Shim(n) : n \in Sessions}
Opening == {"open", "watch_tty", "watch_shim", "complete"}
Closing == {"stop", "join", "unlink", "delete"}
Places  == 1..Len(queue)

TypeOK ==
    /\ client \in [Clients -> {"new", "waiting", "ready", "failed", "closed", "dead"}]
    /\ queue \in Seq(Requests)
    /\ call \in Requests \cup {NoCall}
    /\ rpc \in {"idle", "send"} \cup Opening \cup Closing
    /\ hci_tty_fd_ \in Sessions \cup {NONE}
    /\ event_cb_ \in Clients \cup {NoClient}
    /\ hci_ \in Sessions \cup {NONE}
    /\ live \subseteq Sessions
    /\ linked \subseteq Clients
    /\ sessions \in 0..MaxSessions
    /\ owner \in [Sessions -> Clients \cup {NoClient}]
    /\ registered \subseteq Descriptors
    /\ stopping \in BOOLEAN
    /\ active \in Descriptors \cup {NoFd}
    /\ avail \in [Descriptors -> 0..ShimCapacity]
    /\ using \in Sessions \cup {NONE}
    /\ forwarded \in BOOLEAN
    /\ fed \in [Sessions -> SUBSET Sessions]
    /\ arrived \in [Sessions -> 0..MaxArrivals]
    /\ orderly \in BOOLEAN
    /\ crashed \in BOOLEAN

\* Where the RPC thread is tells which call it serves, and whether the tty is open.
CallInv ==
    /\ rpc # "idle" => call \in Requests
    /\ rpc \in Opening => call.kind = "initialize"
    /\ rpc = "send" => call.kind = "send"
    /\ rpc \in Closing => call.kind \in {"close", "serviceDied"}
    /\ stopping <=> rpc = "join"
    /\ rpc \in {"watch_tty", "watch_shim"} => hci_tty_fd_ # NONE
    /\ rpc \in {"unlink", "delete"} => hci_tty_fd_ = NONE

\* A callback that runs is of a registered descriptor with data; one of a shim, and no
\* other, is inside a protocol object.
WatcherInv ==
    /\ active # NoFd => active \in registered /\ avail[active] > 0
    /\ using # NONE => \E n \in Sessions : active = Shim(n)
    /\ ~crashed => \A n \in Sessions : active = Shim(n) => using # NONE

\* A call on its way is of a client that waits, or waited when it died; a notice is of a
\* client that is linked, which a client is not before it is initialized.
PlaceInv(r) ==
    /\ client[r.from] \in {"waiting", "dead"}
    /\ r.kind = "serviceDied" => client[r.from] = "dead" /\ r.from \in linked
    /\ r.kind = "initialize" => r.from \notin linked

\* A client has one call in the system at most, and the notice of its death comes after it.
Follows(q, r) == q.from = r.from => q.kind # "serviceDied" /\ r.kind = "serviceDied"

ServedInv ==
    rpc # "idle" =>
        /\ client[call.from] \in {"waiting", "dead"}
        /\ call.kind = "serviceDied" => client[call.from] = "dead"
        /\ rpc = "open" => call.from \notin linked

QueueInv ==
    /\ \A i \in Places : PlaceInv(queue[i])
    /\ \A i, j \in Places : i < j => Follows(queue[i], queue[j])
    /\ ServedInv
    /\ rpc # "idle" => \A i \in Places : Follows(call, queue[i])
    /\ \A c \in Clients : client[c] = "new" => c \notin linked

\* The client whose callbacks event_cb_ holds began the session that is open, and its
\* death is linked.
GuardianInv ==
    hci_tty_fd_ # NONE =>
        /\ owner[hci_tty_fd_] = event_cb_
        /\ event_cb_ \in linked
        /\ client[event_cb_] = "dead" =>
               \/ rpc \in {"stop", "join"}
               \/ Request("serviceDied", event_cb_) \in Range(queue)

Serving(c) == rpc # "idle" /\ call.from = c
Busy(c) ==
    \/ client[c] \in {"waiting", "ready"}
    \/ c \in linked
    \/ \E i \in Places : queue[i].from = c
    \/ Serving(c)

\* As long as clients are orderly the HAL works for one of them.
OneUser == \A c, d \in Clients : Busy(c) /\ Busy(d) => c = d

\* The calls that are on their way, or served, are those that fit the session, which is
\* open or not.
CallsFit ==
    /\ \A c \in linked :
           /\ event_cb_ = c
           /\ hci_tty_fd_ # NONE \/ rpc = "unlink"
           /\ client[c] \in {"waiting", "ready", "dead"}
    /\ \A c \in Clients : client[c] = "ready" => hci_tty_fd_ # NONE /\ event_cb_ = c
    /\ \A i \in Places :
           /\ queue[i].kind \in {"send", "close"} => hci_tty_fd_ # NONE
           /\ queue[i].kind = "initialize" => hci_tty_fd_ = NONE
    /\ rpc = "open" => hci_tty_fd_ = NONE
    /\ rpc \in (Opening \ {"open"}) \cup {"send", "stop", "join"} => hci_tty_fd_ # NONE
    /\ rpc \in (Opening \ {"open"}) \cup {"send"} \cup Closing => event_cb_ = call.from

\* The protocol object is that of the tty, and lives until the watcher is quiet.
ProtocolInv ==
    /\ ~crashed
    /\ hci_tty_fd_ # NONE =>
           hci_ = hci_tty_fd_ /\ registered \subseteq {Tty(hci_), Shim(hci_)}
    /\ hci_tty_fd_ = NONE =>
           registered = {} /\ (hci_ # NONE => rpc \in {"unlink", "delete"})
    /\ hci_ # NONE => hci_ \in live
    /\ using # NONE => using = hci_ /\ active = Shim(hci_)
    /\ \A n \in Sessions : fed[n] \subseteq {n}

OrderlyInv == orderly => OneUser /\ CallsFit /\ ProtocolInv

IInv == TypeOK /\ CallInv /\ WatcherInv /\ QueueInv /\ GuardianInv /\ OrderlyInv

-----------------------------------------------------------------------------
(* Queues of requests. *)

\* A request is what Request() makes of its fields.
LEMMA RequestFields ==
  ASSUME NEW r \in Requests
  PROVE  /\ r.kind \in {"initialize", "send", "close", "serviceDied"}
         /\ r.from \in Clients
         /\ r = Request(r.kind, r.from)
BY DEF Requests, Request

\* A queue without its element i.
LEMMA RemovePlaces ==
  ASSUME NEW q \in Seq(Requests), NEW i \in 1..Len(q)
  PROVE  /\ RemoveAt(q, i) \in Seq(Requests)
         /\ Len(RemoveAt(q, i)) = Len(q) - 1
         /\ \A j \in 1..Len(q) - 1 :
                RemoveAt(q, i)[j] = IF j < i THEN q[j] ELSE q[j + 1]
<1>. DEFINE left == SubSeq(q, 1, i - 1)
            right == SubSeq(q, i + 1, Len(q))
<1>1. /\ left \in Seq(Requests) /\ Len(left) = i - 1
      /\ \A j \in 1..i - 1 : left[j] = q[j]
  BY \A j \in 1..i - 1 : q[j] \in Requests, SubSeqProperties
<1>2. /\ right \in Seq(Requests) /\ Len(right) = Len(q) - i
      /\ \A j \in 1..Len(q) - i : right[j] = q[j + i]
  BY \A j \in i + 1..Len(q) : q[j] \in Requests, SubSeqProperties
<1>. HIDE DEF left, right
<1>3. RemoveAt(q, i) = left \o right
  BY DEF RemoveAt, left, right
<1>4. /\ left \o right \in Seq(Requests) /\ Len(left \o right) = Len(q) - 1
      /\ \A j \in 1..Len(q) - 1 :
             (left \o right)[j] = IF j <= i - 1 THEN left[j] ELSE right[j - (i - 1)]
  <2>1. Len(left) + Len(right) = Len(q) - 1
    BY <1>1, <1>2
  <2>2. /\ left \o right \in Seq(Requests) /\ Len(left \o right) = Len(left) + Len(right)
        /\ \A j \in 1..Len(left) + Len(right) :
               (left \o right)[j] = IF j <= Len(left) THEN left[j] ELSE right[j - Len(left)]
    BY <1>1, <1>2, ConcatProperties
  <2>. QED
    BY <1>1, <2>1, <2>2
<1>5. ASSUME NEW j \in 1..Len(q) - 1
      PROVE  (left \o right)[j] = IF j < i THEN q[j] ELSE q[j + 1]
  <2>1. CASE j < i
    <3>1. j <= i - 1 /\ j \in 1..i - 1
      BY <2>1
    <3>. QED
      BY <1>1, <1>4, <2>1, <3>1
  <2>2. CASE ~(j < i)
    <3>1. ~(j <= i - 1) /\ j - (i - 1) \in 1..Len(q) - i /\ (j - (i - 1)) + i = j + 1
      BY <2>2
    <3>. QED
      BY <1>2, <1>4, <2>2, <3>1
  <2>. QED
    BY <2>1, <2>2
<1>. QED
  BY <1>3, <1>4, <1>5

\* What TakeBack leaves of the queue.
LEMMA TakeBackPlaces ==
  ASSUME queue \in Seq(Requests), NEW r \in Requests, TakeBack(r)
  PROVE  /\ queue' \in Seq(Requests)
         /\ \/ queue' = queue /\ \A i \in Places : queue[i] # r
            \/ \E k \in Places :
                  /\ queue[k] = r
                  /\ Len(queue') = Len(queue) - 1
                  /\ \A j \in 1..Len(queue') :
                         queue'[j] = IF j < k THEN queue[j] ELSE queue[j + 1]
<1>1. DOMAIN queue = Places
  BY DEF Places
<1>2. CASE r \in Range(queue)
  <2>1. PICK k \in Places : queue[k] = r /\ queue' = RemoveAt(queue, k)
    BY <1>1, <1>2 DEF TakeBack
  <2>. QED
    BY <2>1, RemovePlaces DEF Places
<1>3. CASE r \notin Range(queue)
  BY <1>1, <1>3 DEF TakeBack, Range
<1>. QED
  BY <1>2, <1>3

\* What TakeCall leaves of the queue.
LEMMA TakeCallPlaces ==
  ASSUME queue \in Seq(Requests), TakeCall
  PROVE  /\ queue' \in Seq(Requests) /\ call' \in Requests
         /\ 1 \in Places /\ call' = queue[1]
         /\ Len(queue') = Len(queue) - 1
         /\ \A j \in 1..Len(queue') : queue'[j] = queue[j + 1]
<1>1. queue # <<>> /\ call' = Head(queue) /\ queue' = Tail(queue)
  BY DEF TakeCall
<1>. QED
  BY <1>1, HeadTailProperties DEF Places

\* The range of a queue, place by place.
LEMMA RangePlaces ==
  ASSUME NEW q \in Seq(Requests), NEW r
  PROVE  r \in Range(q) <=> \E i \in 1..Len(q) : q[i] = r
BY DEF Range

\* A new last element takes nothing away.
LEMMA AppendRange ==
  ASSUME NEW q \in Seq(Requests), NEW e \in Requests, NEW r
  PROVE  r \in Range(Append(q, e)) <=> r \in Range(q) \/ r = e
<1>1. /\ Append(q, e) \in Seq(Requests) /\ Len(Append(q, e)) = Len(q) + 1
      /\ \A i \in 1..Len(q) : Append(q, e)[i] = q[i]
      /\ Append(q, e)[Len(q) + 1] = e /\ Len(q) \in Nat
  BY AppendProperties, LenProperties
<1>2. \A i \in 1..Len(q) + 1 : i \in 1..Len(q) \/ i = Len(q) + 1
  BY <1>1
<1>3. Len(q) + 1 \in 1..Len(q) + 1 /\ 1..Len(q) \subseteq 1..Len(q) + 1
  BY <1>1
<1>4. r \in Range(Append(q, e)) <=> \E i \in 1..Len(q) + 1 : Append(q, e)[i] = r
  BY <1>1, RangePlaces
<1>5. (\E i \in 1..Len(q) + 1 : Append(q, e)[i] = r) <=> (\E i \in 1..Len(q) : q[i] = r) \/ r = e
  BY <1>1, <1>2, <1>3
<1>. QED
  BY <1>4, <1>5, RangePlaces

\* What an Append adds.
LEMMA AppendPlaces ==
  ASSUME queue \in Seq(Requests), NEW r \in Requests, queue' = Append(queue, r)
  PROVE  /\ queue' \in Seq(Requests)
         /\ Len(queue') = Len(queue) + 1
         /\ \A i \in Places : queue'[i] = queue[i]
         /\ queue'[Len(queue) + 1] = r
BY AppendProperties DEF Places

-----------------------------------------------------------------------------
(* Types. *)

\* The initial states.
LEMMA InitInv == Init => IInv
<1>. SUFFICES ASSUME Init PROVE IInv
  OBVIOUS
<1>1. queue = <<>> /\ queue \in Seq(Requests) /\ Len(queue) = 0 /\ Places = {}
  BY DEF Init, Places
<1>2. TypeOK
  <2>1. /\ avail \in [Descriptors -> 0..ShimCapacity] /\ arrived \in [Sessions -> 0..MaxArrivals]
        /\ registered \subseteq Descriptors /\ active = NoFd
    BY SessionsAssumption DEF Init, W!Init, Descriptors
  <2>2. fed \in [Sessions -> SUBSET Sessions] /\ sessions \in 0..MaxSessions
    BY SessionsAssumption DEF Init
  <2>. QED
    BY <1>1, <2>1, <2>2 DEF Init, TypeOK, W!Init
<1>3. CallInv /\ WatcherInv
  BY NoFdAssumption DEF Init, CallInv, WatcherInv, W!Init, Opening, Closing
<1>4. QueueInv /\ GuardianInv
  BY <1>1 DEF Init, QueueInv, ServedInv, GuardianInv
<1>5. OrderlyInv
  BY <1>1 DEF Init, OrderlyInv, OneUser, CallsFit, ProtocolInv, Busy, Serving, W!Init,
     Opening, Closing
<1>. QED
  BY <1>2, <1>3, <1>4, <1>5 DEF IInv

\* Every step keeps the types.
LEMMA TypeStep ==
  ASSUME TypeOK, CallInv, WatcherInv, [Next]_vars
  PROVE  TypeOK'
<1>. USE DEF hal, watcher, callback
<1>1. ASSUME NEW c \in Clients, ClientInitializes(c) PROVE TypeOK'
  <2>1. queue' = Append(queue, Request("initialize", c)) /\ Request("initialize", c) \in Requests
    BY <1>1 DEF ClientInitializes, Asks, Requests, Request
  <2>2. queue' \in Seq(Requests)
    BY <2>1, AppendPlaces DEF TypeOK
  <2>. QED
    BY <1>1, <2>2 DEF TypeOK, ClientInitializes, Asks, Survives
<1>2. ASSUME NEW c \in Clients, ClientSends(c) PROVE TypeOK'
  <2>1. queue' = Append(queue, Request("send", c)) /\ Request("send", c) \in Requests
    BY <1>2 DEF ClientSends, Asks, Requests, Request
  <2>2. queue' \in Seq(Requests)
    BY <2>1, AppendPlaces DEF TypeOK
  <2>. QED
    BY <1>2, <2>2 DEF TypeOK, ClientSends, Asks, Survives
<1>3. ASSUME NEW c \in Clients, ClientCloses(c) PROVE TypeOK'
  <2>1. queue' = Append(queue, Request("close", c)) /\ Request("close", c) \in Requests
    BY <1>3 DEF ClientCloses, Asks, Requests, Request
  <2>2. queue' \in Seq(Requests)
    BY <2>1, AppendPlaces DEF TypeOK
  <2>. QED
    BY <1>3, <2>2 DEF TypeOK, ClientCloses, Asks, Survives
<1>4. ASSUME NEW c \in Clients, ClientDies(c) PROVE TypeOK'
  <2>1. Request("serviceDied", c) \in Requests
    BY DEF Requests, Request
  <2>2. queue' \in Seq(Requests)
    BY <1>4, <2>1, AppendPlaces DEF ClientDies, TypeOK
  <2>. QED
    BY <1>4, <2>2 DEF TypeOK, ClientDies, Survives
<1>5. CASE TakeCall
  <2>1. queue' \in Seq(Requests) /\ call' \in Requests
    BY <1>5, TakeCallPlaces DEF TypeOK
  <2>2. rpc' \in {"open", "send", "stop"}
    BY <1>5 DEF TakeCall
  <2>. QED
    BY <1>5, <2>1, <2>2 DEF TypeOK, TakeCall, Survives, Opening, Closing
<1>6. CASE OpenFails
  BY <1>6 DEF OpenFails, Reply, Survives, TypeOK, Opening, Closing
<1>7. CASE OpenSucceeds
  <2>1. call.from \in Clients /\ Request("serviceDied", call.from) \in Requests
    BY <1>7, RequestFields DEF OpenSucceeds, CallInv, Requests, Request
  <2>2. queue' \in Seq(Requests) /\ linked' \subseteq Clients
    BY <1>7, <2>1, AppendPlaces DEF OpenSucceeds, LinkToDeath, TypeOK
  <2>3. /\ sessions + 1 \in Sessions /\ sessions + 1 \in 0..MaxSessions
        /\ sessions' = sessions + 1 /\ hci_tty_fd_' = sessions + 1 /\ hci_' = sessions + 1
        /\ live' = live \cup {sessions + 1}
    BY <1>7, SessionsAssumption DEF OpenSucceeds, TypeOK, Sessions
  <2>4. owner' \in [Sessions -> Clients \cup {NoClient}]
    BY <1>7, <2>1, <2>3 DEF OpenSucceeds, TypeOK
  <2>. QED
    BY <1>7, <2>1, <2>2, <2>3, <2>4 DEF TypeOK, OpenSucceeds, Survives, Opening
<1>8. CASE WatchTty
  <2>1. hci_tty_fd_ \in Sessions
    BY <1>8 DEF WatchTty, CallInv, TypeOK
  <2>2. Tty(hci_tty_fd_) \in Descriptors
    BY <2>1 DEF Descriptors
  <2>. QED
    BY <1>8, <2>2 DEF TypeOK, WatchTty, W!Register, Survives, Opening
<1>9. CASE WatchShim
  <2>1. hci_tty_fd_ \in Sessions
    BY <1>9 DEF WatchShim, CallInv, TypeOK
  <2>2. Shim(hci_tty_fd_) \in Descriptors
    BY <2>1 DEF Descriptors
  <2>. QED
    BY <1>9, <2>2 DEF TypeOK, WatchShim, W!Register, Survives, Opening
<1>10. CASE InitializationComplete
  BY <1>10 DEF InitializationComplete, Reply, Survives, TypeOK, Opening, Closing
<1>11. CASE SendPacket
  BY <1>11 DEF SendPacket, Reply, Survives, TypeOK, Opening, Closing
<1>12. CASE SendCrashes
  BY <1>12 DEF SendCrashes, Crashes, TypeOK, Opening, Closing
<1>13. CASE CloseStopsWatcher
  BY <1>13 DEF CloseStopsWatcher, AskToStop, Survives, W!BeginStop, TypeOK, Opening,
     Closing
<1>14. CASE CloseWithoutTty
  BY <1>14 DEF CloseWithoutTty, Survives, TypeOK, Opening, Closing
<1>15. CASE CloseJoins
  BY <1>15 DEF CloseJoins, StopReturns, Survives, W!FinishStop, TypeOK, Opening,
     Closing
<1>16. CASE CloseUnlinks
  <2>1. event_cb_ \in Clients /\ Request("serviceDied", event_cb_) \in Requests
    BY <1>16 DEF CloseUnlinks, TypeOK, Requests, Request
  <2>2. queue' \in Seq(Requests)
    BY <1>16, <2>1, TakeBackPlaces DEF CloseUnlinks, TypeOK
  <2>. QED
    BY <1>16, <2>2 DEF TypeOK, CloseUnlinks, Survives, Closing
<1>17. CASE CloseCrashes
  BY <1>17 DEF CloseCrashes, Crashes, TypeOK, Opening, Closing
<1>18. CASE CloseDeletes
  BY <1>18 DEF CloseDeletes, Reply, Survives, TypeOK, Opening, Closing
<1>19. ASSUME NEW n \in Sessions, TtyCallbackBegins(n) PROVE TypeOK'
  <2>1. Tty(n) \in Descriptors /\ Shim(n) \in Descriptors
    BY DEF Descriptors
  <2>. QED
    BY <1>19, <2>1 DEF TypeOK, TtyCallbackBegins, W!BeginCallback, Survives
<1>20. ASSUME NEW n \in Sessions, TtyCallbackForwards(n) PROVE TypeOK'
  <2>1. Tty(n) \in Descriptors /\ Shim(n) \in Descriptors
    BY DEF Descriptors
  <2>2. avail' \in [Descriptors -> 0..ShimCapacity]
    BY <1>20, <2>1, SessionsAssumption DEF TtyCallbackForwards, W!DataArrives, TypeOK
  <2>. QED
    BY <1>20, <2>2 DEF TypeOK, TtyCallbackForwards, W!DataArrives, Survives
<1>21. ASSUME NEW n \in Sessions, TtyCallbackReturns(n) PROVE TypeOK'
  <2>1. active \in Descriptors /\ avail[active] - 1 \in 0..ShimCapacity
    BY <1>21, SessionsAssumption DEF TtyCallbackReturns, W!EndCallback, WatcherInv, TypeOK
  <2>2. avail' \in [Descriptors -> 0..ShimCapacity]
    BY <1>21, <2>1 DEF TtyCallbackReturns, W!EndCallback, TypeOK
  <2>. QED
    BY <1>21, <2>2 DEF TypeOK, TtyCallbackReturns, W!EndCallback, Survives
<1>22. ASSUME NEW n \in Sessions, ShimCallbackBegins(n) PROVE TypeOK'
  BY <1>22 DEF ShimCallbackBegins, Survives, W!BeginCallback, TypeOK, Opening,
     Closing
<1>23. ASSUME NEW n \in Sessions, ShimCallbackCrashes(n) PROVE TypeOK'
  BY <1>23 DEF ShimCallbackCrashes, Crashes, W!BeginCallback, TypeOK, Opening,
     Closing
<1>24. ASSUME NEW n \in Sessions, ShimCallbackReturns(n) PROVE TypeOK'
  <2>1. active \in Descriptors /\ avail[active] - 1 \in 0..ShimCapacity
    BY <1>24, SessionsAssumption DEF ShimCallbackReturns, W!EndCallback, WatcherInv, TypeOK
  <2>2. avail' \in [Descriptors -> 0..ShimCapacity]
    BY <1>24, <2>1 DEF ShimCallbackReturns, W!EndCallback, TypeOK
  <2>3. fed' \in [Sessions -> SUBSET Sessions]
    BY <1>24 DEF ShimCallbackReturns, WatcherInv, Survives, TypeOK
  <2>. QED
    BY <1>24, <2>2, <2>3 DEF TypeOK, ShimCallbackReturns, W!EndCallback, Survives
<1>25. ASSUME NEW n \in Sessions, DataArrives(n) PROVE TypeOK'
  <2>1. Tty(n) \in Descriptors /\ Shim(n) \in Descriptors
    BY DEF Descriptors
  <2>2. avail' \in [Descriptors -> 0..ShimCapacity]
    BY <1>25, <2>1, SessionsAssumption DEF DataArrives, W!DataArrives, TypeOK
  <2>3. arrived' \in [Sessions -> 0..MaxArrivals]
    BY <1>25, SessionsAssumption DEF DataArrives, TypeOK
  <2>. QED
    BY <1>25, <2>2, <2>3 DEF TypeOK, DataArrives, W!DataArrives, Survives
<1>26. CASE UNCHANGED vars
  BY <1>26 DEF vars, TypeOK, Opening, Closing
<1>. QED
  BY <1>1, <1>2, <1>3, <1>4, <1>5, <1>6, <1>7, <1>8, <1>9, <1>10, <1>11, <1>12,
     <1>13, <1>14, <1>15, <1>16, <1>17, <1>18, <1>19, <1>20, <1>21, <1>22, <1>23,
     <1>24, <1>25, <1>26 DEF Next, RpcStep, CallbackStep, ClientStep

\* Every step keeps the place of the RPC thread in agreement with its call.
LEMMA CallStep ==
  ASSUME TypeOK, CallInv, [Next]_vars
  PROVE  CallInv'
<1>. USE DEF hal, watcher, callback
<1>1. ASSUME NEW c \in Clients, ClientInitializes(c) PROVE CallInv'
  BY <1>1 DEF ClientInitializes, Asks, Survives, CallInv, Opening, Closing, NONE
<1>2. ASSUME NEW c \in Clients, ClientSends(c) PROVE CallInv'
  BY <1>2 DEF ClientSends, Asks, Survives, CallInv, Opening, Closing, NONE
<1>3. ASSUME NEW c \in Clients, ClientCloses(c) PROVE CallInv'
  BY <1>3 DEF ClientCloses, Asks, Survives, CallInv, Opening, Closing, NONE
<1>4. ASSUME NEW c \in Clients, ClientDies(c) PROVE CallInv'
  BY <1>4 DEF ClientDies, Survives, CallInv, Opening, Closing, NONE
<1>5. CASE TakeCall
  <2>1. call' \in Requests /\ rpc = "idle"
    BY <1>5, TakeCallPlaces DEF TakeCall, TypeOK
  <2>2. /\ rpc' \in {"open", "send", "stop"}
        /\ rpc' = "open" => call'.kind = "initialize"
        /\ rpc' = "send" => call'.kind = "send"
        /\ rpc' = "stop" => call'.kind \in {"close", "serviceDied"}
    BY <1>5, <2>1, RequestFields DEF TakeCall
  <2>. QED
    BY <1>5, <2>1, <2>2 DEF TakeCall, CallInv, Opening, Closing
<1>6. CASE OpenFails
  BY <1>6 DEF OpenFails, Reply, Survives, CallInv, Opening, Closing, NONE
<1>7. CASE OpenSucceeds
  <2>1. hci_tty_fd_' # NONE
    BY <1>7 DEF OpenSucceeds, TypeOK, NONE
  <2>. QED
    BY <1>7, <2>1 DEF OpenSucceeds, CallInv, Opening, Closing
<1>8. CASE WatchTty
  BY <1>8 DEF WatchTty, Survives, W!Register, CallInv, Opening, Closing, NONE
<1>9. CASE WatchShim
  BY <1>9 DEF WatchShim, Survives, W!Register, CallInv, Opening, Closing, NONE
<1>10. CASE InitializationComplete
  BY <1>10 DEF InitializationComplete, Reply, Survives, CallInv, Opening, Closing,
     NONE
<1>11. CASE SendPacket
  BY <1>11 DEF SendPacket, Reply, Survives, CallInv, Opening, Closing, NONE
<1>12. CASE SendCrashes
  BY <1>12 DEF SendCrashes, Crashes, CallInv, Opening, Closing, NONE
<1>13. CASE CloseStopsWatcher
  BY <1>13 DEF CloseStopsWatcher, AskToStop, Survives, W!BeginStop, CallInv,
     Opening, Closing, NONE
<1>14. CASE CloseWithoutTty
  BY <1>14 DEF CloseWithoutTty, Survives, CallInv, Opening, Closing, NONE
<1>15. CASE CloseJoins
  BY <1>15 DEF CloseJoins, StopReturns, Survives, W!FinishStop, CallInv, Opening,
     Closing, NONE
<1>16. CASE CloseUnlinks
  BY <1>16 DEF CloseUnlinks, Survives, CallInv, Opening, Closing, NONE
<1>17. CASE CloseCrashes
  BY <1>17 DEF CloseCrashes, Crashes, CallInv, Opening, Closing, NONE
<1>18. CASE CloseDeletes
  BY <1>18 DEF CloseDeletes, Reply, Survives, CallInv, Opening, Closing, NONE
<1>19. ASSUME NEW n \in Sessions, TtyCallbackBegins(n) PROVE CallInv'
  BY <1>19 DEF TtyCallbackBegins, Survives, W!BeginCallback, CallInv, Opening,
     Closing, NONE
<1>20. ASSUME NEW n \in Sessions, TtyCallbackForwards(n) PROVE CallInv'
  BY <1>20 DEF TtyCallbackForwards, Survives, W!DataArrives, CallInv, Opening,
     Closing, NONE
<1>21. ASSUME NEW n \in Sessions, TtyCallbackReturns(n) PROVE CallInv'
  BY <1>21 DEF TtyCallbackReturns, Survives, W!EndCallback, CallInv, Opening,
     Closing, NONE
<1>22. ASSUME NEW n \in Sessions, ShimCallbackBegins(n) PROVE CallInv'
  BY <1>22 DEF ShimCallbackBegins, Survives, W!BeginCallback, CallInv, Opening,
     Closing, NONE
<1>23. ASSUME NEW n \in Sessions, ShimCallbackCrashes(n) PROVE CallInv'
  BY <1>23 DEF ShimCallbackCrashes, Crashes, W!BeginCallback, CallInv, Opening,
     Closing, NONE
<1>24. ASSUME NEW n \in Sessions, ShimCallbackReturns(n) PROVE CallInv'
  BY <1>24 DEF ShimCallbackReturns, Survives, W!EndCallback, CallInv, Opening,
     Closing, NONE
<1>25. ASSUME NEW n \in Sessions, DataArrives(n) PROVE CallInv'
  BY <1>25 DEF DataArrives, Survives, W!DataArrives, CallInv, Opening, Closing, NONE
<1>26. CASE UNCHANGED vars
  BY <1>26 DEF vars, CallInv, Opening, Closing, NONE
<1>. QED
  BY <1>1, <1>2, <1>3, <1>4, <1>5, <1>6, <1>7, <1>8, <1>9, <1>10, <1>11, <1>12,
     <1>13, <1>14, <1>15, <1>16, <1>17, <1>18, <1>19, <1>20, <1>21, <1>22, <1>23,
     <1>24, <1>25, <1>26 DEF Next, RpcStep, CallbackStep, ClientStep

\* No two descriptors are the same, and none is the mark of an idle watcher.
LEMMA DescriptorsDiffer ==
  ASSUME NEW m \in Sessions, NEW n \in Sessions
  PROVE  /\ Tty(m) # Shim(n) /\ (Tty(m) = Tty(n) => m = n) /\ (Shim(m) = Shim(n) => m = n)
         /\ NoFd # Tty(n) /\ NoFd # Shim(n)
BY NoFdAssumption DEF Tty, Shim

\* Every step keeps the running callback registered, and inside a protocol object if it
\* is of a shim.
LEMMA WatcherStep ==
  ASSUME TypeOK, CallInv, WatcherInv, [Next]_vars
  PROVE  WatcherInv'
<1>. USE DEF hal, watcher, callback
<1>1. ASSUME NEW c \in Clients, ClientInitializes(c) PROVE WatcherInv'
  BY <1>1 DEF ClientInitializes, Asks, Survives, WatcherInv
<1>2. ASSUME NEW c \in Clients, ClientSends(c) PROVE WatcherInv'
  BY <1>2 DEF ClientSends, Asks, Survives, WatcherInv
<1>3. ASSUME NEW c \in Clients, ClientCloses(c) PROVE WatcherInv'
  BY <1>3 DEF ClientCloses, Asks, Survives, WatcherInv
<1>4. ASSUME NEW c \in Clients, ClientDies(c) PROVE WatcherInv'
  BY <1>4 DEF ClientDies, Survives, WatcherInv
<1>5. CASE TakeCall
  BY <1>5 DEF TakeCall, Survives, WatcherInv
<1>6. CASE OpenFails
  BY <1>6 DEF OpenFails, Reply, Survives, WatcherInv
<1>7. CASE OpenSucceeds
  BY <1>7 DEF OpenSucceeds, LinkToDeath, Survives, WatcherInv
<1>8. CASE WatchTty
  <2>1. registered \subseteq registered' /\ UNCHANGED <<active, avail, using>> /\ ~crashed
    BY <1>8 DEF WatchTty, W!Register, Survives
  <2>. QED
    BY <2>1 DEF WatcherInv
<1>9. CASE WatchShim
  <2>1. registered \subseteq registered' /\ UNCHANGED <<active, avail, using>> /\ ~crashed
    BY <1>9 DEF WatchShim, W!Register, Survives
  <2>. QED
    BY <2>1 DEF WatcherInv
<1>10. CASE InitializationComplete
  BY <1>10 DEF InitializationComplete, Reply, Survives, WatcherInv
<1>11. CASE SendPacket
  BY <1>11 DEF SendPacket, Reply, Survives, WatcherInv
<1>12. CASE SendCrashes
  BY <1>12 DEF SendCrashes, Crashes, WatcherInv
<1>13. CASE CloseStopsWatcher
  BY <1>13 DEF CloseStopsWatcher, AskToStop, Survives, W!BeginStop, WatcherInv
<1>14. CASE CloseWithoutTty
  BY <1>14 DEF CloseWithoutTty, Survives, WatcherInv
<1>15. CASE CloseJoins
  <2>1. active = NoFd /\ UNCHANGED <<active, using>> /\ ~crashed
    BY <1>15 DEF CloseJoins, StopReturns, W!FinishStop, Survives
  <2>. QED
    BY <2>1 DEF WatcherInv
<1>16. CASE CloseUnlinks
  BY <1>16 DEF CloseUnlinks, Survives, WatcherInv
<1>17. CASE CloseCrashes
  BY <1>17 DEF CloseCrashes, Crashes, WatcherInv
<1>18. CASE CloseDeletes
  BY <1>18 DEF CloseDeletes, Reply, Survives, WatcherInv
<1>19. ASSUME NEW n \in Sessions, TtyCallbackBegins(n) PROVE WatcherInv'
  <2>1. /\ active = NoFd /\ active' = Tty(n) /\ Tty(n) \in registered /\ avail[Tty(n)] > 0
        /\ UNCHANGED <<registered, avail, using>>
    BY <1>19 DEF TtyCallbackBegins, W!BeginCallback
  <2>2. using = NONE
    BY <2>1, DescriptorsDiffer DEF WatcherInv
  <2>. QED
    BY <2>1, <2>2, DescriptorsDiffer DEF WatcherInv
<1>20. ASSUME NEW n \in Sessions, TtyCallbackForwards(n) PROVE WatcherInv'
  <2>1. /\ UNCHANGED <<registered, active, using>> /\ ~crashed
        /\ Shim(n) \in Descriptors /\ avail' = [avail EXCEPT ![Shim(n)] = @ + 1]
    BY <1>20 DEF TtyCallbackForwards, W!DataArrives, Survives, Descriptors
  <2>2. \A d \in Descriptors : avail[d] > 0 => avail'[d] > 0
    BY <2>1 DEF TypeOK
  <2>. QED
    BY <2>1, <2>2 DEF WatcherInv, TypeOK
<1>21. ASSUME NEW n \in Sessions, TtyCallbackReturns(n) PROVE WatcherInv'
  <2>1. active = Tty(n) /\ active' = NoFd /\ using' = using
    BY <1>21 DEF TtyCallbackReturns, W!EndCallback
  <2>2. using = NONE
    BY <2>1, DescriptorsDiffer DEF WatcherInv
  <2>. QED
    BY <2>1, <2>2, DescriptorsDiffer DEF WatcherInv
<1>22. ASSUME NEW n \in Sessions, ShimCallbackBegins(n) PROVE WatcherInv'
  BY <1>22 DEF ShimCallbackBegins, Survives, W!BeginCallback, WatcherInv
<1>23. ASSUME NEW n \in Sessions, ShimCallbackCrashes(n) PROVE WatcherInv'
  <2>1. /\ active = NoFd /\ active' = Shim(n) /\ Shim(n) \in registered /\ avail[Shim(n)] > 0
        /\ UNCHANGED <<registered, avail, using>> /\ crashed'
    BY <1>23 DEF ShimCallbackCrashes, W!BeginCallback, Crashes
  <2>. QED
    BY <2>1 DEF WatcherInv
<1>24. ASSUME NEW n \in Sessions, ShimCallbackReturns(n) PROVE WatcherInv'
  <2>1. active' = NoFd /\ using' = NONE
    BY <1>24 DEF ShimCallbackReturns, W!EndCallback
  <2>. QED
    BY <2>1, DescriptorsDiffer DEF WatcherInv
<1>25. ASSUME NEW n \in Sessions, DataArrives(n) PROVE WatcherInv'
  <2>1. /\ UNCHANGED <<registered, active, using>> /\ ~crashed
        /\ Tty(n) \in Descriptors /\ avail' = [avail EXCEPT ![Tty(n)] = @ + 1]
    BY <1>25 DEF DataArrives, W!DataArrives, Survives, Descriptors
  <2>2. \A d \in Descriptors : avail[d] > 0 => avail'[d] > 0
    BY <2>1 DEF TypeOK
  <2>. QED
    BY <2>1, <2>2 DEF WatcherInv, TypeOK
<1>26. CASE UNCHANGED vars
  BY <1>26 DEF vars, WatcherInv
<1>. QED
  BY <1>1, <1>2, <1>3, <1>4, <1>5, <1>6, <1>7, <1>8, <1>9, <1>10, <1>11, <1>12,
     <1>13, <1>14, <1>15, <1>16, <1>17, <1>18, <1>19, <1>20, <1>21, <1>22, <1>23,
     <1>24, <1>25, <1>26 DEF Next, RpcStep, CallbackStep, ClientStep

-----------------------------------------------------------------------------
(* Calls and notices on their way. *)

\* The requests in the queue are requests.
LEMMA PlacesAreRequests ==
  ASSUME TypeOK, NEW i \in Places
  PROVE  /\ queue[i] \in Requests /\ queue[i].from \in Clients
         /\ queue[i].kind \in {"initialize", "send", "close", "serviceDied"}
<1>1. queue[i] \in Requests
  BY ElementOfSeq DEF TypeOK, Places
<1>. QED
  BY <1>1, RequestFields

\* The order of a queue with a new last element.
LEMMA AppendOrder ==
  ASSUME TypeOK, NEW r \in Requests, queue' = Append(queue, r),
         \A i, j \in Places : i < j => Follows(queue[i], queue[j]),
         \A i \in Places : Follows(queue[i], r)
  PROVE  /\ \A j \in Places' : queue'[j] = r \/ \E i \in Places : queue'[j] = queue[i]
         /\ \A i, j \in Places' : i < j => Follows(queue'[i], queue'[j])
<1>1. /\ Len(queue') = Len(queue) + 1 /\ queue'[Len(queue) + 1] = r
      /\ \A i \in Places : queue'[i] = queue[i]
      /\ Len(queue) \in Nat
  BY AppendPlaces, LenProperties DEF TypeOK
<1>2. \A j \in Places' : j \in Places \/ j = Len(queue) + 1
  BY <1>1 DEF Places
<1>3. ASSUME NEW i \in Places', NEW j \in Places', i < j
      PROVE  Follows(queue'[i], queue'[j])
  <2>1. i \in Places
    BY <1>1, <1>3 DEF Places
  <2>2. CASE j \in Places
    BY <1>1, <1>3, <2>1, <2>2
  <2>3. CASE j = Len(queue) + 1
    BY <1>1, <2>1, <2>3
  <2>. QED
    BY <1>2, <2>2, <2>3
<1>. QED
  BY <1>1, <1>2, <1>3

\* A client that asks for something waits with this one call.
LEMMA AskStep ==
  ASSUME TypeOK, CallInv, QueueInv, NEW c \in Clients,
         NEW k \in {"initialize", "send", "close"}, Asks(c, k),
         client[c] \in {"new", "ready", "failed"}, k = "initialize" => client[c] = "new"
  PROVE  QueueInv'
<1>. DEFINE r == Request(k, c)
<1>1. r \in Requests /\ r.from = c /\ r.kind = k /\ queue' = Append(queue, r)
  BY DEF Asks, Request, Requests
<1>. HIDE DEF r
<1>2. /\ \A d \in Clients : client'[d] = IF d = c THEN "waiting" ELSE client[d]
      /\ UNCHANGED <<call, rpc, linked>>
  BY DEF Asks, TypeOK, hal
<1>3. \A i \in Places : queue[i].from # c /\ queue[i].from \in Clients
  BY PlacesAreRequests DEF QueueInv, PlaceInv
<1>4. rpc # "idle" => call.from # c /\ call.from \in Clients
  BY RequestFields DEF QueueInv, ServedInv, CallInv
<1>5. /\ \A j \in Places' : queue'[j] = r \/ \E i \in Places : queue'[j] = queue[i]
      /\ \A i, j \in Places' : i < j => Follows(queue'[i], queue'[j])
  <2>1. \A i \in Places : Follows(queue[i], r)
    BY <1>1, <1>3 DEF Follows
  <2>. QED
    BY <1>1, <2>1, AppendOrder DEF QueueInv
<1>6. ASSUME NEW j \in Places' PROVE PlaceInv(queue[j])'
  <2>1. CASE queue'[j] = r
    BY <1>1, <1>2, <2>1 DEF PlaceInv, QueueInv
  <2>2. ASSUME NEW i \in Places, queue'[j] = queue[i] PROVE PlaceInv(queue[j])'
    BY <1>2, <1>3, <2>2 DEF PlaceInv, QueueInv
  <2>. QED
    BY <1>5, <2>1, <2>2
<1>7. ServedInv'
  BY <1>2, <1>4 DEF QueueInv, ServedInv
<1>8. ASSUME rpc # "idle", NEW j \in Places' PROVE Follows(call, queue'[j])
  BY <1>1, <1>4, <1>5, <1>8 DEF QueueInv, Follows
<1>9. \A d \in Clients : client'[d] = "new" => d \notin linked'
  BY <1>2 DEF QueueInv
<1>. QED
  BY <1>2, <1>5, <1>6, <1>7, <1>8, <1>9 DEF QueueInv

\* A client dies: its death is the last that is heard of it.
LEMMA DeathStep ==
  ASSUME TypeOK, CallInv, QueueInv, NEW c \in Clients, ClientDies(c)
  PROVE  QueueInv'
<1>. DEFINE r == Request("serviceDied", c)
<1>1. r \in Requests /\ r.from = c /\ r.kind = "serviceDied"
  BY DEF Request, Requests
<1>2. queue' = IF c \in linked THEN Append(queue, r) ELSE queue
  BY DEF ClientDies
<1>. HIDE DEF r
<1>3. /\ \A d \in Clients : client'[d] = IF d = c THEN "dead" ELSE client[d]
      /\ UNCHANGED <<call, rpc, linked>> /\ client[c] # "dead"
  BY DEF ClientDies, TypeOK, hal
<1>4. \A i \in Places :
          /\ queue[i].from \in Clients
          /\ queue[i].from = c => queue[i].kind # "serviceDied"
  BY <1>3, PlacesAreRequests DEF QueueInv, PlaceInv
<1>5. rpc # "idle" =>
          call.from \in Clients /\ (call.from = c => call.kind # "serviceDied")
  BY <1>3, RequestFields DEF QueueInv, ServedInv, CallInv
<1>6. /\ \A j \in Places' :
             \/ queue'[j] = r /\ c \in linked
             \/ \E i \in Places : queue'[j] = queue[i]
      /\ \A i, j \in Places' : i < j => Follows(queue'[i], queue'[j])
  <2>1. CASE c \in linked
    <3>1. \A i \in Places : Follows(queue[i], r)
      BY <1>1, <1>4 DEF Follows
    <3>. QED
      BY <1>1, <1>2, <2>1, <3>1, AppendOrder DEF QueueInv
  <2>2. CASE c \notin linked
    BY <1>2, <2>2 DEF QueueInv, Places
  <2>. QED
    BY <2>1, <2>2
<1>7. ASSUME NEW j \in Places' PROVE PlaceInv(queue[j])'
  <2>1. CASE queue'[j] = r /\ c \in linked
    BY <1>1, <1>3, <2>1 DEF PlaceInv
  <2>2. ASSUME NEW i \in Places, queue'[j] = queue[i] PROVE PlaceInv(queue[j])'
    BY <1>3, <1>4, <2>2 DEF PlaceInv, QueueInv
  <2>. QED
    BY <1>6, <2>1, <2>2
<1>8. ServedInv'
  BY <1>3, <1>5 DEF QueueInv, ServedInv
<1>9. ASSUME rpc # "idle", NEW j \in Places' PROVE Follows(call, queue'[j])
  BY <1>1, <1>5, <1>6, <1>9 DEF QueueInv, Follows
<1>10. \A d \in Clients : client'[d] = "new" => d \notin linked'
  BY <1>3 DEF QueueInv
<1>. QED
  BY <1>3, <1>6, <1>7, <1>8, <1>9, <1>10 DEF QueueInv

\* The death of the client of a new session is linked, or reported at once.
LEMMA LinkStep ==
  ASSUME TypeOK, CallInv, QueueInv, OpenSucceeds
  PROVE  QueueInv'
<1>1. /\ call \in Requests /\ call.from \in Clients /\ call.kind = "initialize"
      /\ rpc = "open" /\ rpc' = "watch_tty" /\ UNCHANGED <<client, call>>
  BY RequestFields DEF OpenSucceeds, CallInv, Opening
<1>. DEFINE c == call.from
            r == Request("serviceDied", c)
<1>2. r \in Requests /\ r.from = c /\ r.kind = "serviceDied"
  BY <1>1 DEF Request, Requests
<1>3. /\ linked' = linked \cup {c} /\ c \notin linked
      /\ queue' = IF client[c] = "dead" THEN Append(queue, r) ELSE queue
      /\ client[c] \in {"waiting", "dead"}
  BY <1>1 DEF OpenSucceeds, LinkToDeath, QueueInv, ServedInv
<1>. HIDE DEF r
<1>4. \A i \in Places : queue[i].from \in Clients /\ queue[i].from # c
  BY <1>1, <1>3, PlacesAreRequests DEF QueueInv, PlaceInv, Follows
<1>5. /\ \A j \in Places' :
             \/ queue'[j] = r /\ client[c] = "dead"
             \/ \E i \in Places : queue'[j] = queue[i]
      /\ \A i, j \in Places' : i < j => Follows(queue'[i], queue'[j])
  <2>1. CASE client[c] = "dead"
    <3>1. \A i \in Places : Follows(queue[i], r)
      BY <1>2, <1>4 DEF Follows
    <3>. QED
      BY <1>2, <1>3, <2>1, <3>1, AppendOrder DEF QueueInv
  <2>2. CASE client[c] # "dead"
    BY <1>3, <2>2 DEF QueueInv, Places
  <2>. QED
    BY <2>1, <2>2
<1>6. ASSUME NEW j \in Places' PROVE PlaceInv(queue[j])'
  <2>1. CASE queue'[j] = r /\ client[c] = "dead"
    BY <1>1, <1>2, <1>3, <2>1 DEF PlaceInv
  <2>2. ASSUME NEW i \in Places, queue'[j] = queue[i] PROVE PlaceInv(queue[j])'
    BY <1>1, <1>3, <1>4, <2>2 DEF PlaceInv, QueueInv
  <2>. QED
    BY <1>5, <2>1, <2>2
<1>7. ServedInv'
  BY <1>1, <1>3 DEF QueueInv, ServedInv
<1>8. ASSUME NEW j \in Places' PROVE Follows(call, queue'[j])
  BY <1>1, <1>2, <1>4, <1>5 DEF Follows
<1>9. \A d \in Clients : client'[d] = "new" => d \notin linked'
  BY <1>1, <1>3 DEF QueueInv
<1>. QED
  BY <1>1, <1>5, <1>6, <1>7, <1>8, <1>9 DEF QueueInv

\* The RPC thread takes the first call: what follows it in the queue follows it still.
LEMMA TakeStep ==
  ASSUME TypeOK, QueueInv, TakeCall
  PROVE  QueueInv'
<1>1. /\ call' \in Requests /\ 1 \in Places /\ call' = queue[1]
      /\ Len(queue') = Len(queue) - 1 /\ Len(queue) \in Nat
      /\ \A j \in 1..Len(queue') : queue'[j] = queue[j + 1]
  BY TakeCallPlaces, LenProperties DEF TypeOK
<1>2. \A j \in Places' : j + 1 \in Places /\ 1 < j + 1 /\ queue'[j] = queue[j + 1]
  BY <1>1 DEF Places
<1>3. UNCHANGED <<client, linked>>
  BY DEF TakeCall, hal
<1>4. \A j \in Places' : PlaceInv(queue[j])'
  BY <1>2, <1>3 DEF QueueInv, PlaceInv
<1>5. ASSUME NEW i \in Places', NEW j \in Places', i < j PROVE Follows(queue'[i], queue'[j])
  <2>1. i + 1 < j + 1
    BY <1>5 DEF Places
  <2>. QED
    BY <1>2, <2>1 DEF QueueInv
<1>6. ServedInv'
  <2>1. PlaceInv(call') /\ (rpc' = "open" => call'.kind = "initialize")
    BY <1>1, RequestFields DEF QueueInv, TakeCall
  <2>. QED
    BY <1>3, <2>1 DEF ServedInv, PlaceInv
<1>7. ASSUME NEW j \in Places' PROVE Follows(call', queue'[j])
  BY <1>1, <1>2 DEF QueueInv
<1>8. \A d \in Clients : client'[d] = "new" => d \notin linked'
  BY <1>3 DEF QueueInv
<1>. QED
  BY <1>4, <1>5, <1>6, <1>7, <1>8 DEF QueueInv

\* unlinkToDeath leaves no notice of the client behind.
LEMMA UnlinkStep ==
  ASSUME TypeOK, QueueInv, CloseUnlinks
  PROVE  /\ QueueInv'
         /\ \A j \in Places' : \E i \in Places : queue'[j] = queue[i]
         /\ \A j \in Places' :
                queue'[j].from = event_cb_ => queue'[j].kind # "serviceDied"
<1>. DEFINE r == Request("serviceDied", event_cb_)
<1>1. /\ event_cb_ \in Clients /\ r \in Requests /\ r.from = event_cb_
      /\ r.kind = "serviceDied" /\ TakeBack(r)
      /\ linked' = linked \ {event_cb_} /\ UNCHANGED <<client, call>>
      /\ rpc = "unlink" /\ rpc' = "delete"
  BY DEF CloseUnlinks, TypeOK, Request, Requests
<1>2. \A i \in Places :
          queue[i].from = event_cb_ /\ queue[i].kind = "serviceDied" => queue[i] = r
  BY <1>1, RequestFields, PlacesAreRequests
<1>. HIDE DEF r
<1>3. /\ \A j \in Places' : \E i \in Places : queue'[j] = queue[i]
      /\ \A i, j \in Places' : i < j => Follows(queue'[i], queue'[j])
      /\ \A j \in Places' : queue'[j].from = event_cb_ => queue'[j].kind # "serviceDied"
  <2>1. CASE queue' = queue /\ \A i \in Places : queue[i] # r
    BY <1>2, <2>1 DEF QueueInv, Places
  <2>2. CASE \E k \in Places :
                  /\ queue[k] = r
                  /\ Len(queue') = Len(queue) - 1
                  /\ \A j \in 1..Len(queue') :
                         queue'[j] = IF j < k THEN queue[j] ELSE queue[j + 1]
    <3>1. PICK k \in Places :
                  /\ queue[k] = r
                  /\ Len(queue') = Len(queue) - 1
                  /\ \A j \in 1..Len(queue') :
                         queue'[j] = IF j < k THEN queue[j] ELSE queue[j + 1]
      BY <2>2
    <3>. DEFINE at(j) == IF j < k THEN j ELSE j + 1
    <3>2. Len(queue) \in Nat /\ k \in Nat
      BY DEF TypeOK, Places
    <3>3. \A j \in Places' :
              /\ at(j) \in Places /\ queue'[j] = queue[at(j)]
              /\ at(j) < k \/ k < at(j)
      BY <3>1, <3>2 DEF Places
    <3>4. ASSUME NEW i \in Places', NEW j \in Places', i < j PROVE at(i) < at(j)
      BY <3>1, <3>2, <3>4 DEF Places
    <3>. HIDE DEF at
    <3>5. ASSUME NEW j \in Places'
          PROVE  queue'[j].from = event_cb_ => queue'[j].kind # "serviceDied"
      <4>1. CASE at(j) < k
        BY <1>1, <3>1, <3>3, <4>1 DEF QueueInv, Follows
      <4>2. CASE k < at(j)
        BY <1>1, <3>1, <3>3, <4>2 DEF QueueInv, Follows
      <4>. QED
        BY <3>3, <4>1, <4>2
    <3>. QED
      BY <3>3, <3>4, <3>5 DEF QueueInv
  <2>. QED
    BY <1>1, <2>1, <2>2, TakeBackPlaces DEF TypeOK
<1>4. ASSUME NEW j \in Places' PROVE PlaceInv(queue[j])'
  <2>1. PICK i \in Places : queue'[j] = queue[i]
    BY <1>3
  <2>. QED
    BY <1>1, <1>3, <2>1 DEF QueueInv, PlaceInv
<1>5. ServedInv'
  BY <1>1 DEF QueueInv, ServedInv
<1>6. ASSUME NEW j \in Places' PROVE Follows(call, queue'[j])
  BY <1>1, <1>3 DEF QueueInv
<1>7. \A d \in Clients : client'[d] = "new" => d \notin linked'
  BY <1>1 DEF QueueInv
<1>. QED
  BY <1>1, <1>3, <1>4, <1>5, <1>6, <1>7 DEF QueueInv

\* A reply ends the call of its client, which had no other one.
LEMMA ReplyStep ==
  ASSUME TypeOK, CallInv, QueueInv, rpc # "idle", NEW status \in {"ready", "failed", "closed"},
         Reply(status), UNCHANGED <<queue, call, linked>>
  PROVE  QueueInv'
<1>1. call.from \in Clients
  BY RequestFields DEF CallInv
<1>2. /\ \A c \in Clients :
             client'[c] = IF c = call.from /\ client[c] = "waiting" THEN status ELSE client[c]
      /\ rpc' = "idle"
  BY <1>1 DEF Reply, TypeOK
<1>3. Places' = Places
  BY DEF Places
<1>4. ASSUME NEW i \in Places PROVE PlaceInv(queue[i])'
  <2>1. queue[i].from = call.from => client[call.from] = "dead"
    BY <1>1 DEF QueueInv, Follows, PlaceInv
  <2>2. queue[i].from \in Clients
    BY PlacesAreRequests
  <2>. QED
    BY <1>2, <2>1, <2>2 DEF QueueInv, PlaceInv
<1>5. \A d \in Clients : client'[d] = "new" => d \notin linked'
  BY <1>2 DEF QueueInv
<1>. QED
  BY <1>2, <1>3, <1>4, <1>5 DEF QueueInv, ServedInv

\* Every step keeps the order of calls and notices.
LEMMA QueueStep ==
  ASSUME TypeOK, CallInv, QueueInv, [Next]_vars
  PROVE  QueueInv'
<1>. USE DEF hal, watcher, callback
<1>1. ASSUME NEW c \in Clients, ClientInitializes(c) PROVE QueueInv'
  BY <1>1, AskStep DEF ClientInitializes
<1>2. ASSUME NEW c \in Clients, ClientSends(c) PROVE QueueInv'
  BY <1>2, AskStep DEF ClientSends
<1>3. ASSUME NEW c \in Clients, ClientCloses(c) PROVE QueueInv'
  BY <1>3, AskStep DEF ClientCloses
<1>4. ASSUME NEW c \in Clients, ClientDies(c) PROVE QueueInv'
  BY <1>4, DeathStep
<1>5. CASE TakeCall
  BY <1>5, TakeStep
<1>6. CASE OpenFails
  BY <1>6, ReplyStep DEF OpenFails
<1>7. CASE OpenSucceeds
  BY <1>7, LinkStep
<1>8. CASE WatchTty
  BY <1>8 DEF WatchTty, Survives, W!Register, QueueInv, ServedInv, PlaceInv, Places
<1>9. CASE WatchShim
  BY <1>9 DEF WatchShim, Survives, W!Register, QueueInv, ServedInv, PlaceInv, Places
<1>10. CASE InitializationComplete
  BY <1>10, ReplyStep DEF InitializationComplete
<1>11. CASE SendPacket
  BY <1>11, ReplyStep DEF SendPacket
<1>12. CASE SendCrashes
  BY <1>12 DEF SendCrashes, Crashes, QueueInv, ServedInv, PlaceInv, Places
<1>13. CASE CloseStopsWatcher
  BY <1>13 DEF CloseStopsWatcher, AskToStop, Survives, W!BeginStop, QueueInv,
     ServedInv, PlaceInv, Places
<1>14. CASE CloseWithoutTty
  BY <1>14 DEF CloseWithoutTty, Survives, QueueInv, ServedInv, PlaceInv, Places
<1>15. CASE CloseJoins
  BY <1>15 DEF CloseJoins, StopReturns, Survives, W!FinishStop, QueueInv, ServedInv,
     PlaceInv, Places
<1>16. CASE CloseUnlinks
  BY <1>16, UnlinkStep
<1>17. CASE CloseCrashes
  BY <1>17 DEF CloseCrashes, Crashes, QueueInv, ServedInv, PlaceInv, Places
<1>18. CASE CloseDeletes
  BY <1>18, ReplyStep DEF CloseDeletes
<1>19. ASSUME NEW n \in Sessions, TtyCallbackBegins(n) PROVE QueueInv'
  BY <1>19 DEF TtyCallbackBegins, Survives, W!BeginCallback, QueueInv, ServedInv,
     PlaceInv, Places
<1>20. ASSUME NEW n \in Sessions, TtyCallbackForwards(n) PROVE QueueInv'
  BY <1>20 DEF TtyCallbackForwards, Survives, W!DataArrives, QueueInv, ServedInv,
     PlaceInv, Places
<1>21. ASSUME NEW n \in Sessions, TtyCallbackReturns(n) PROVE QueueInv'
  BY <1>21 DEF TtyCallbackReturns, Survives, W!EndCallback, QueueInv, ServedInv,
     PlaceInv, Places
<1>22. ASSUME NEW n \in Sessions, ShimCallbackBegins(n) PROVE QueueInv'
  BY <1>22 DEF ShimCallbackBegins, Survives, W!BeginCallback, QueueInv, ServedInv,
     PlaceInv, Places
<1>23. ASSUME NEW n \in Sessions, ShimCallbackCrashes(n) PROVE QueueInv'
  BY <1>23 DEF ShimCallbackCrashes, Crashes, W!BeginCallback, QueueInv, ServedInv,
     PlaceInv, Places
<1>24. ASSUME NEW n \in Sessions, ShimCallbackReturns(n) PROVE QueueInv'
  BY <1>24 DEF ShimCallbackReturns, Survives, W!EndCallback, QueueInv, ServedInv,
     PlaceInv, Places
<1>25. ASSUME NEW n \in Sessions, DataArrives(n) PROVE QueueInv'
  BY <1>25 DEF DataArrives, Survives, W!DataArrives, QueueInv, ServedInv, PlaceInv,
     Places
<1>26. CASE UNCHANGED vars
  BY <1>26 DEF vars, QueueInv, ServedInv, PlaceInv, Places
<1>. QED
  BY <1>1, <1>2, <1>3, <1>4, <1>5, <1>6, <1>7, <1>8, <1>9, <1>10, <1>11, <1>12,
     <1>13, <1>14, <1>15, <1>16, <1>17, <1>18, <1>19, <1>20, <1>21, <1>22, <1>23,
     <1>24, <1>25, <1>26 DEF Next, RpcStep, CallbackStep, ClientStep

\* Every step leaves the session with a guardian.
LEMMA GuardianStep ==
  ASSUME TypeOK, CallInv, QueueInv, GuardianInv, [Next]_vars
  PROVE  GuardianInv'
<1>. USE DEF hal, watcher, callback
<1>1. ASSUME NEW c \in Clients, ClientInitializes(c) PROVE GuardianInv'
  <2>1. queue' = Append(queue, Request("initialize", c)) /\ Request("initialize", c) \in Requests
    BY <1>1 DEF ClientInitializes, Asks, Request, Requests
  <2>2. \A r : r \in Range(queue) => r \in Range(queue')
    BY <2>1, AppendRange DEF TypeOK
  <2>3. UNCHANGED <<hci_tty_fd_, owner, event_cb_, linked, rpc>>
    BY <1>1 DEF ClientInitializes, Asks
  <2>4. \A d \in Clients : client'[d] = "dead" => client[d] = "dead"
    BY <1>1 DEF ClientInitializes, Asks, TypeOK
  <2>5. \A d : Request("serviceDied", d)' = Request("serviceDied", d)
    BY DEF Request
  <2>. QED
    BY <2>1, <2>2, <2>3, <2>4, <2>5 DEF GuardianInv, TypeOK
<1>2. ASSUME NEW c \in Clients, ClientSends(c) PROVE GuardianInv'
  <2>1. queue' = Append(queue, Request("send", c)) /\ Request("send", c) \in Requests
    BY <1>2 DEF ClientSends, Asks, Request, Requests
  <2>2. \A r : r \in Range(queue) => r \in Range(queue')
    BY <2>1, AppendRange DEF TypeOK
  <2>3. UNCHANGED <<hci_tty_fd_, owner, event_cb_, linked, rpc>>
    BY <1>2 DEF ClientSends, Asks
  <2>4. \A d \in Clients : client'[d] = "dead" => client[d] = "dead"
    BY <1>2 DEF ClientSends, Asks, TypeOK
  <2>5. \A d : Request("serviceDied", d)' = Request("serviceDied", d)
    BY DEF Request
  <2>. QED
    BY <2>1, <2>2, <2>3, <2>4, <2>5 DEF GuardianInv, TypeOK
<1>3. ASSUME NEW c \in Clients, ClientCloses(c) PROVE GuardianInv'
  <2>1. queue' = Append(queue, Request("close", c)) /\ Request("close", c) \in Requests
    BY <1>3 DEF ClientCloses, Asks, Request, Requests
  <2>2. \A r : r \in Range(queue) => r \in Range(queue')
    BY <2>1, AppendRange DEF TypeOK
  <2>3. UNCHANGED <<hci_tty_fd_, owner, event_cb_, linked, rpc>>
    BY <1>3 DEF ClientCloses, Asks
  <2>4. \A d \in Clients : client'[d] = "dead" => client[d] = "dead"
    BY <1>3 DEF ClientCloses, Asks, TypeOK
  <2>5. \A d : Request("serviceDied", d)' = Request("serviceDied", d)
    BY DEF Request
  <2>. QED
    BY <2>1, <2>2, <2>3, <2>4, <2>5 DEF GuardianInv, TypeOK
<1>4. ASSUME NEW c \in Clients, ClientDies(c) PROVE GuardianInv'
  <2>1. Request("serviceDied", c) \in Requests
    BY DEF Request, Requests
  <2>2. /\ \A r : r \in Range(queue) => r \in Range(queue')
        /\ c \in linked => Request("serviceDied", c) \in Range(queue')
    BY <1>4, <2>1, AppendRange DEF ClientDies, TypeOK
  <2>3. UNCHANGED <<hci_tty_fd_, owner, event_cb_, linked, rpc>>
    BY <1>4 DEF ClientDies
  <2>4. \A d \in Clients : client'[d] = "dead" => d = c \/ client[d] = "dead"
    BY <1>4 DEF ClientDies, TypeOK
  <2>. QED
    BY <2>2, <2>3, <2>4 DEF GuardianInv, TypeOK, Request
<1>5. CASE TakeCall
  <2>1. \A r : r \in Range(queue) => r = call' \/ r \in Range(queue')
    <3>1. \A i \in Places : i = 1 \/ i - 1 \in 1..Len(queue')
      BY <1>5, TakeCallPlaces, LenProperties DEF TypeOK, Places
    <3>2. \A i \in Places : queue[i] = call' \/ \E j \in 1..Len(queue') : queue'[j] = queue[i]
      <4>. SUFFICES ASSUME NEW i \in Places, i # 1
                    PROVE  \E j \in 1..Len(queue') : queue'[j] = queue[i]
        BY <1>5, TakeCallPlaces DEF TypeOK
      <4>1. i - 1 \in 1..Len(queue') /\ (i - 1) + 1 = i
        BY <3>1 DEF Places
      <4>. QED
        BY <1>5, <4>1, TakeCallPlaces DEF TypeOK
    <3>. QED
      BY <1>5, <3>2, RangePlaces, TakeCallPlaces DEF TypeOK, Places
  <2>2. call'.kind = "serviceDied" => rpc' = "stop"
    BY <1>5 DEF TakeCall
  <2>3. UNCHANGED <<hci_tty_fd_, owner, event_cb_, linked, client>> /\ rpc = "idle"
    BY <1>5 DEF TakeCall
  <2>4. ASSUME NEW d, call' = Request("serviceDied", d) PROVE rpc' = "stop"
    BY <2>2, <2>4 DEF Request
  <2>. QED
    BY <2>1, <2>3, <2>4 DEF GuardianInv, Request
<1>6. CASE OpenFails
  BY <1>6 DEF OpenFails, GuardianInv
<1>7. CASE OpenSucceeds
  <2>1. call.from \in Clients /\ Request("serviceDied", call.from) \in Requests
    BY <1>7, RequestFields DEF OpenSucceeds, CallInv, Request, Requests
  <2>2. /\ sessions + 1 \in Sessions /\ hci_tty_fd_' = sessions + 1
        /\ owner' = [owner EXCEPT ![sessions + 1] = call.from]
        /\ event_cb_' = call.from /\ call.from \in linked' /\ client' = client
    BY <1>7, SessionsAssumption DEF OpenSucceeds, LinkToDeath, TypeOK, Sessions
  <2>3. client[call.from] = "dead" => Request("serviceDied", call.from) \in Range(queue')
    BY <1>7, <2>1, AppendRange DEF OpenSucceeds, LinkToDeath, TypeOK
  <2>. QED
    BY <2>2, <2>3 DEF GuardianInv, TypeOK, Request
<1>8. CASE WatchTty
  BY <1>8 DEF WatchTty, Survives, W!Register, GuardianInv
<1>9. CASE WatchShim
  BY <1>9 DEF WatchShim, Survives, W!Register, GuardianInv
<1>10. CASE InitializationComplete
  BY <1>10, RequestFields DEF InitializationComplete, Reply, Survives, GuardianInv, CallInv, TypeOK, Opening, Closing
<1>11. CASE SendPacket
  BY <1>11, RequestFields DEF SendPacket, Reply, Survives, GuardianInv, CallInv, TypeOK, Opening, Closing
<1>12. CASE SendCrashes
  BY <1>12 DEF SendCrashes, Crashes, GuardianInv
<1>13. CASE CloseStopsWatcher
  BY <1>13 DEF CloseStopsWatcher, AskToStop, Survives, W!BeginStop, GuardianInv
<1>14. CASE CloseWithoutTty
  BY <1>14 DEF CloseWithoutTty, Survives, GuardianInv
<1>15. CASE CloseJoins
  BY <1>15 DEF CloseJoins, GuardianInv
<1>16. CASE CloseUnlinks
  BY <1>16 DEF CloseUnlinks, GuardianInv, CallInv
<1>17. CASE CloseCrashes
  BY <1>17 DEF CloseCrashes, Crashes, GuardianInv
<1>18. CASE CloseDeletes
  BY <1>18 DEF CloseDeletes, GuardianInv, CallInv
<1>19. ASSUME NEW n \in Sessions, TtyCallbackBegins(n) PROVE GuardianInv'
  BY <1>19 DEF TtyCallbackBegins, Survives, W!BeginCallback, GuardianInv
<1>20. ASSUME NEW n \in Sessions, TtyCallbackForwards(n) PROVE GuardianInv'
  BY <1>20 DEF TtyCallbackForwards, Survives, W!DataArrives, GuardianInv
<1>21. ASSUME NEW n \in Sessions, TtyCallbackReturns(n) PROVE GuardianInv'
  BY <1>21 DEF TtyCallbackReturns, Survives, W!EndCallback, GuardianInv
<1>22. ASSUME NEW n \in Sessions, ShimCallbackBegins(n) PROVE GuardianInv'
  BY <1>22 DEF ShimCallbackBegins, Survives, W!BeginCallback, GuardianInv
<1>23. ASSUME NEW n \in Sessions, ShimCallbackCrashes(n) PROVE GuardianInv'
  BY <1>23 DEF ShimCallbackCrashes, Crashes, W!BeginCallback, GuardianInv
<1>24. ASSUME NEW n \in Sessions, ShimCallbackReturns(n) PROVE GuardianInv'
  BY <1>24 DEF ShimCallbackReturns, Survives, W!EndCallback, GuardianInv
<1>25. ASSUME NEW n \in Sessions, DataArrives(n) PROVE GuardianInv'
  BY <1>25 DEF DataArrives, Survives, W!DataArrives, GuardianInv
<1>26. CASE UNCHANGED vars
  BY <1>26 DEF vars, GuardianInv
<1>. QED
  BY <1>1, <1>2, <1>3, <1>4, <1>5, <1>6, <1>7, <1>8, <1>9, <1>10, <1>11, <1>12,
     <1>13, <1>14, <1>15, <1>16, <1>17, <1>18, <1>19, <1>20, <1>21, <1>22, <1>23,
     <1>24, <1>25, <1>26 DEF Next, RpcStep, CallbackStep, ClientStep

-----------------------------------------------------------------------------
(* One client at a time. *)

\* Nobody else gets busy: there is one user as before.
LEMMA FewerBusy ==
  ASSUME OneUser, \A c \in Clients : Busy(c)' => Busy(c)
  PROVE  OneUser'
BY DEF OneUser

\* The first call of a client that is alone makes it the user of the HAL.
LEMMA AloneIsUser ==
  ASSUME IInv, orderly, NEW c \in Clients, ClientInitializes(c), orderly'
  PROVE  hci_tty_fd_ = NONE /\ linked = {} /\ \A d \in Clients : Busy(d)' => d = c
<1>1. /\ client[c] = "new" /\ rpc = "idle" /\ queue = <<>>
      /\ \A d \in Clients \ {c} : client[d] \notin {"waiting", "ready"}
  BY DEF ClientInitializes, Alone
<1>2. Places = {} /\ Range(queue) = {}
  BY <1>1 DEF Places, Range
<1>3. linked = {}
  <2>. SUFFICES ASSUME NEW d \in linked PROVE FALSE
    OBVIOUS
  <2>1. d \in Clients /\ d # c
    BY <1>1 DEF IInv, TypeOK, QueueInv
  <2>2. event_cb_ = d /\ hci_tty_fd_ # NONE /\ client[d] = "dead"
    BY <1>1, <2>1 DEF IInv, OrderlyInv, CallsFit
  <2>. QED
    BY <1>1, <1>2, <2>2 DEF IInv, GuardianInv
<1>4. hci_tty_fd_ = NONE
  BY <1>3 DEF IInv, GuardianInv
<1>5. /\ rpc' = "idle" /\ linked' = {} /\ queue' = Append(queue, Request("initialize", c))
      /\ client' = [client EXCEPT ![c] = "waiting"]
  BY <1>1, <1>3 DEF ClientInitializes, Asks, hal
<1>6. \A j \in Places' : queue'[j].from = c
  BY <1>1, <1>5 DEF Places, Request
<1>7. ASSUME NEW d \in Clients, Busy(d)' PROVE d = c
  BY <1>1, <1>5, <1>6, <1>7 DEF Busy, Serving, IInv, TypeOK
<1>. QED
  BY <1>3, <1>4, <1>7

\* The places of a queue with a new last element.
LEMMA NewPlace ==
  ASSUME queue \in Seq(Requests), NEW r \in Requests, queue' = Append(queue, r)
  PROVE  \A j \in Places' : queue'[j] = r \/ \E i \in Places : queue'[j] = queue[i]
<1>1. /\ Len(queue') = Len(queue) + 1 /\ queue'[Len(queue) + 1] = r
      /\ \A i \in Places : queue'[i] = queue[i]
      /\ Len(queue) \in Nat
  BY AppendPlaces, LenProperties
<1>2. \A j \in Places' : j \in Places \/ j = Len(queue) + 1
  BY <1>1 DEF Places
<1>. QED
  BY <1>1, <1>2

\* As long as clients are orderly, every step leaves the HAL with one user.
LEMMA OneUserStep ==
  ASSUME IInv, orderly, orderly', [Next]_vars
  PROVE  OneUser'
<1>. USE DEF hal, watcher, callback
<1>0. OneUser
  BY DEF IInv, OrderlyInv
<1>1. ASSUME NEW c \in Clients, ClientInitializes(c) PROVE OneUser'
  BY <1>1, AloneIsUser DEF OneUser
<1>2. ASSUME NEW c \in Clients, ClientSends(c) PROVE OneUser'
  <2>1. /\ queue' = Append(queue, Request("send", c)) /\ Request("send", c) \in Requests
        /\ Request("send", c).from = c /\ queue \in Seq(Requests)
    BY <1>2 DEF ClientSends, Asks, Request, Requests, IInv, TypeOK
  <2>2. \A j \in Places' :
            queue'[j].from = c \/ \E i \in Places : queue'[j] = queue[i]
    BY <2>1, NewPlace
  <2>3. UNCHANGED <<rpc, call, linked>> /\ client[c] = "ready"
    BY <1>2 DEF ClientSends, Asks
  <2>4. \A d \in Clients : client'[d] = IF d = c THEN "waiting" ELSE client[d]
    BY <1>2 DEF ClientSends, Asks, IInv, TypeOK
  <2>. QED
    BY <2>2, <2>3, <2>4, <1>0, FewerBusy DEF Busy, Serving
<1>3. ASSUME NEW c \in Clients, ClientCloses(c) PROVE OneUser'
  <2>1. /\ queue' = Append(queue, Request("close", c)) /\ Request("close", c) \in Requests
        /\ Request("close", c).from = c /\ queue \in Seq(Requests)
    BY <1>3 DEF ClientCloses, Asks, Request, Requests, IInv, TypeOK
  <2>2. \A j \in Places' :
            queue'[j].from = c \/ \E i \in Places : queue'[j] = queue[i]
    BY <2>1, NewPlace
  <2>3. UNCHANGED <<rpc, call, linked>> /\ client[c] = "ready"
    BY <1>3 DEF ClientCloses, Asks
  <2>4. \A d \in Clients : client'[d] = IF d = c THEN "waiting" ELSE client[d]
    BY <1>3 DEF ClientCloses, Asks, IInv, TypeOK
  <2>. QED
    BY <2>2, <2>3, <2>4, <1>0, FewerBusy DEF Busy, Serving
<1>4. ASSUME NEW c \in Clients, ClientDies(c) PROVE OneUser'
  <2>1. Request("serviceDied", c) \in Requests
    BY DEF Request, Requests
  <2>2. \A j \in Places' :
            (queue'[j].from = c /\ c \in linked) \/ \E i \in Places : queue'[j] = queue[i]
    BY <1>4, <2>1, NewPlace DEF ClientDies, IInv, TypeOK, Request, Places
  <2>3. UNCHANGED <<rpc, call, linked>>
    BY <1>4 DEF ClientDies
  <2>4. \A d \in Clients : client'[d] = IF d = c THEN "dead" ELSE client[d]
    BY <1>4 DEF ClientDies, IInv, TypeOK
  <2>. QED
    BY <2>2, <2>3, <2>4, <1>0, FewerBusy DEF Busy, Serving
<1>5. CASE TakeCall
  <2>1. 1 \in Places /\ call' = queue[1] /\ UNCHANGED <<client, linked>>
    BY <1>5, TakeCallPlaces DEF TakeCall, IInv, TypeOK
  <2>2. \A j \in Places' : j + 1 \in Places /\ queue'[j] = queue[j + 1]
    BY <1>5, TakeCallPlaces, LenProperties DEF IInv, TypeOK, Places
  <2>. QED
    BY <2>1, <2>2, <1>0, FewerBusy DEF Busy, Serving
<1>6. CASE OpenFails
  <2>1. /\ call.from \in Clients /\ rpc # "idle" /\ rpc' = "idle"
        /\ UNCHANGED <<queue, call, linked>>
    BY <1>6, RequestFields DEF OpenFails, Reply, IInv, CallInv
  <2>2. \A d \in Clients : client'[d] \in {"waiting", "ready"} =>
            client[d] \in {"waiting", "ready"}
    BY <1>6, <2>1 DEF OpenFails, Reply, IInv, TypeOK
  <2>. QED
    BY <2>1, <2>2, <1>0, FewerBusy DEF Busy, Serving, Places
<1>7. CASE OpenSucceeds
  <2>1. /\ call.from \in Clients /\ Request("serviceDied", call.from) \in Requests
        /\ rpc = "open" /\ linked' = linked \cup {call.from} /\ UNCHANGED <<client, call>>
    BY <1>7, RequestFields DEF OpenSucceeds, LinkToDeath, IInv, CallInv, Request, Requests
  <2>2. \A j \in Places' :
            queue'[j].from = call.from \/ \E i \in Places : queue'[j] = queue[i]
    BY <1>7, <2>1, NewPlace DEF OpenSucceeds, LinkToDeath, IInv, TypeOK, Request, Places
  <2>. QED
    BY <2>1, <2>2, <1>0, FewerBusy DEF Busy, Serving
<1>8. CASE WatchTty
  BY <1>8 DEF WatchTty, Survives, W!Register, OneUser, Busy, Serving, Places, IInv,
     OrderlyInv
<1>9. CASE WatchShim
  BY <1>9 DEF WatchShim, Survives, W!Register, OneUser, Busy, Serving, Places, IInv,
     OrderlyInv
<1>10. CASE InitializationComplete
  <2>1. /\ call.from \in Clients /\ rpc # "idle" /\ rpc' = "idle"
        /\ UNCHANGED <<queue, call, linked>>
    BY <1>10, RequestFields DEF InitializationComplete, Reply, IInv, CallInv
  <2>2. \A d \in Clients : client'[d] \in {"waiting", "ready"} =>
            client[d] \in {"waiting", "ready"}
    BY <1>10, <2>1 DEF InitializationComplete, Reply, IInv, TypeOK
  <2>. QED
    BY <2>1, <2>2, <1>0, FewerBusy DEF Busy, Serving, Places
<1>11. CASE SendPacket
  <2>1. /\ call.from \in Clients /\ rpc # "idle" /\ rpc' = "idle"
        /\ UNCHANGED <<queue, call, linked>>
    BY <1>11, RequestFields DEF SendPacket, Reply, IInv, CallInv
  <2>2. \A d \in Clients : client'[d] \in {"waiting", "ready"} =>
            client[d] \in {"waiting", "ready"}
    BY <1>11, <2>1 DEF SendPacket, Reply, IInv, TypeOK
  <2>. QED
    BY <2>1, <2>2, <1>0, FewerBusy DEF Busy, Serving, Places
<1>12. CASE SendCrashes
  BY <1>12 DEF SendCrashes, Crashes, OneUser, Busy, Serving, Places, IInv,
     OrderlyInv
<1>13. CASE CloseStopsWatcher
  BY <1>13 DEF CloseStopsWatcher, AskToStop, Survives, W!BeginStop, OneUser, Busy,
     Serving, Places, IInv, OrderlyInv
<1>14. CASE CloseWithoutTty
  BY <1>14 DEF CloseWithoutTty, Survives, OneUser, Busy, Serving, Places, IInv,
     OrderlyInv
<1>15. CASE CloseJoins
  BY <1>15 DEF CloseJoins, StopReturns, Survives, W!FinishStop, OneUser, Busy,
     Serving, Places, IInv, OrderlyInv
<1>16. CASE CloseUnlinks
  <2>1. /\ \A j \in Places' : \E i \in Places : queue'[j] = queue[i]
        /\ rpc = "unlink" /\ linked' \subseteq linked /\ UNCHANGED <<client, call>>
    BY <1>16, UnlinkStep DEF CloseUnlinks, IInv
  <2>. QED
    BY <2>1, <1>0, FewerBusy DEF Busy, Serving
<1>17. CASE CloseCrashes
  BY <1>17 DEF CloseCrashes, Crashes, OneUser, Busy, Serving, Places, IInv,
     OrderlyInv
<1>18. CASE CloseDeletes
  <2>1. /\ call.from \in Clients /\ rpc # "idle" /\ rpc' = "idle"
        /\ UNCHANGED <<queue, call, linked>>
    BY <1>18, RequestFields DEF CloseDeletes, Reply, IInv, CallInv
  <2>2. \A d \in Clients : client'[d] \in {"waiting", "ready"} =>
            client[d] \in {"waiting", "ready"}
    BY <1>18, <2>1 DEF CloseDeletes, Reply, IInv, TypeOK
  <2>. QED
    BY <2>1, <2>2, <1>0, FewerBusy DEF Busy, Serving, Places
<1>19. ASSUME NEW n \in Sessions, TtyCallbackBegins(n) PROVE OneUser'
  BY <1>19 DEF TtyCallbackBegins, Survives, W!BeginCallback, OneUser, Busy, Serving,
     Places, IInv, OrderlyInv
<1>20. ASSUME NEW n \in Sessions, TtyCallbackForwards(n) PROVE OneUser'
  BY <1>20 DEF TtyCallbackForwards, Survives, W!DataArrives, OneUser, Busy, Serving,
     Places, IInv, OrderlyInv
<1>21. ASSUME NEW n \in Sessions, TtyCallbackReturns(n) PROVE OneUser'
  BY <1>21 DEF TtyCallbackReturns, Survives, W!EndCallback, OneUser, Busy, Serving,
     Places, IInv, OrderlyInv
<1>22. ASSUME NEW n \in Sessions, ShimCallbackBegins(n) PROVE OneUser'
  BY <1>22 DEF ShimCallbackBegins, Survives, W!BeginCallback, OneUser, Busy,
     Serving, Places, IInv, OrderlyInv
<1>23. ASSUME NEW n \in Sessions, ShimCallbackCrashes(n) PROVE OneUser'
  BY <1>23 DEF ShimCallbackCrashes, Crashes, W!BeginCallback, OneUser, Busy,
     Serving, Places, IInv, OrderlyInv
<1>24. ASSUME NEW n \in Sessions, ShimCallbackReturns(n) PROVE OneUser'
  BY <1>24 DEF ShimCallbackReturns, Survives, W!EndCallback, OneUser, Busy, Serving,
     Places, IInv, OrderlyInv
<1>25. ASSUME NEW n \in Sessions, DataArrives(n) PROVE OneUser'
  BY <1>25 DEF DataArrives, Survives, W!DataArrives, OneUser, Busy, Serving, Places,
     IInv, OrderlyInv
<1>26. CASE UNCHANGED vars
  BY <1>26 DEF vars, OneUser, Busy, Serving, Places, IInv, OrderlyInv
<1>. QED
  BY <1>1, <1>2, <1>3, <1>4, <1>5, <1>6, <1>7, <1>8, <1>9, <1>10, <1>11, <1>12,
     <1>13, <1>14, <1>15, <1>16, <1>17, <1>18, <1>19, <1>20, <1>21, <1>22, <1>23,
     <1>24, <1>25, <1>26 DEF Next, RpcStep, CallbackStep, ClientStep

\* With one user, the call served and those in the queue are of the same client.
LEMMA SameUser ==
  ASSUME IInv, orderly, rpc # "idle"
  PROVE  /\ call.from \in Clients
         /\ \A i \in Places : queue[i].from = call.from /\ queue[i].kind = "serviceDied"
         /\ \A c \in Clients : client[c] # "ready"
         /\ \A c \in linked : c = call.from
<1>1. call.from \in Clients /\ Busy(call.from)
  BY RequestFields DEF IInv, CallInv, Busy, Serving
<1>2. \A c \in Clients : Busy(c) => c = call.from
  BY <1>1 DEF IInv, OrderlyInv, OneUser
<1>3. \A i \in Places : queue[i].from \in Clients /\ Busy(queue[i].from)
  BY PlacesAreRequests DEF IInv, Busy
<1>4. client[call.from] # "ready"
  BY DEF IInv, QueueInv, ServedInv
<1>5. \A i \in Places : queue[i].from = call.from /\ queue[i].kind = "serviceDied"
  BY <1>2, <1>3 DEF IInv, QueueInv, Follows
<1>6. \A c \in Clients : client[c] # "ready"
  BY <1>2, <1>4 DEF Busy
<1>7. \A c \in linked : c = call.from
  BY <1>2 DEF Busy, IInv, TypeOK
<1>. QED
  BY <1>1, <1>5, <1>6, <1>7

\* As long as clients are orderly, every step keeps the calls in agreement with the session.
LEMMA CallsFitStep ==
  ASSUME IInv, orderly, orderly', [Next]_vars
  PROVE  CallsFit'
<1>. USE DEF hal, watcher, callback
<1>1. ASSUME NEW c \in Clients, ClientInitializes(c) PROVE CallsFit'
  <2>1. /\ hci_tty_fd_ = NONE /\ linked = {} /\ rpc = "idle" /\ client[c] = "new"
        /\ UNCHANGED <<hci_tty_fd_, linked, rpc>>
        /\ client' = [client EXCEPT ![c] = "waiting"]
    BY <1>1, AloneIsUser DEF ClientInitializes, Asks, Alone
  <2>2. /\ queue' = Append(queue, Request("initialize", c)) /\ queue = <<>>
        /\ Request("initialize", c).kind = "initialize"
    BY <1>1 DEF ClientInitializes, Asks, Alone, Request
  <2>3. \A j \in Places' : queue'[j].kind = "initialize"
    BY <2>2 DEF Places
  <2>4. \A d \in Clients : client'[d] # "ready"
    BY <2>1, <1>1 DEF ClientInitializes, Alone, IInv, TypeOK
  <2>. QED
    BY <2>1, <2>3, <2>4 DEF CallsFit, Opening, Closing
<1>2. ASSUME NEW c \in Clients, ClientSends(c) PROVE CallsFit'
  <2>1. /\ queue' = Append(queue, Request("send", c)) /\ Request("send", c) \in Requests
        /\ Request("send", c).kind = "send" /\ queue \in Seq(Requests)
        /\ client[c] = "ready" /\ UNCHANGED <<rpc, call, linked, hci_tty_fd_, event_cb_>>
    BY <1>2 DEF ClientSends, Asks, Request, Requests, IInv, TypeOK
  <2>2. \A j \in Places' :
            queue'[j].kind = "send" \/ \E i \in Places : queue'[j] = queue[i]
    BY <2>1, NewPlace
  <2>3. \A d \in Clients : client'[d] = IF d = c THEN "waiting" ELSE client[d]
    BY <1>2 DEF ClientSends, Asks, IInv, TypeOK
  <2>4. CallsFit /\ hci_tty_fd_ # NONE /\ linked \subseteq Clients
    BY <2>1 DEF IInv, TypeOK, OrderlyInv, CallsFit
  <2>. QED
    BY <2>1, <2>2, <2>3, <2>4 DEF CallsFit
<1>3. ASSUME NEW c \in Clients, ClientCloses(c) PROVE CallsFit'
  <2>1. /\ queue' = Append(queue, Request("close", c)) /\ Request("close", c) \in Requests
        /\ Request("close", c).kind = "close" /\ queue \in Seq(Requests)
        /\ client[c] = "ready" /\ UNCHANGED <<rpc, call, linked, hci_tty_fd_, event_cb_>>
    BY <1>3 DEF ClientCloses, Asks, Request, Requests, IInv, TypeOK
  <2>2. \A j \in Places' :
            queue'[j].kind = "close" \/ \E i \in Places : queue'[j] = queue[i]
    BY <2>1, NewPlace
  <2>3. \A d \in Clients : client'[d] = IF d = c THEN "waiting" ELSE client[d]
    BY <1>3 DEF ClientCloses, Asks, IInv, TypeOK
  <2>4. CallsFit /\ hci_tty_fd_ # NONE /\ linked \subseteq Clients
    BY <2>1 DEF IInv, TypeOK, OrderlyInv, CallsFit
  <2>. QED
    BY <2>1, <2>2, <2>3, <2>4 DEF CallsFit
<1>4. ASSUME NEW c \in Clients, ClientDies(c) PROVE CallsFit'
  <2>1. /\ Request("serviceDied", c) \in Requests
        /\ Request("serviceDied", c).kind = "serviceDied"
    BY DEF Request, Requests
  <2>2. \A j \in Places' :
            queue'[j].kind = "serviceDied" \/ \E i \in Places : queue'[j] = queue[i]
    BY <1>4, <2>1, NewPlace DEF ClientDies, IInv, TypeOK, Places
  <2>3. UNCHANGED <<rpc, call, linked, hci_tty_fd_, event_cb_>>
    BY <1>4 DEF ClientDies
  <2>4. \A d \in Clients : client'[d] = IF d = c THEN "dead" ELSE client[d]
    BY <1>4 DEF ClientDies, IInv, TypeOK
  <2>5. CallsFit /\ linked \subseteq Clients
    BY DEF IInv, TypeOK, OrderlyInv
  <2>. QED
    BY <2>2, <2>3, <2>4, <2>5 DEF CallsFit
<1>5. CASE TakeCall
  <2>1. /\ 1 \in Places /\ call' = queue[1] /\ queue[1] \in Requests
        /\ UNCHANGED <<client, linked, hci_tty_fd_, event_cb_>> /\ rpc = "idle"
    BY <1>5, TakeCallPlaces DEF TakeCall, IInv, TypeOK
  <2>2. \A j \in Places' : j + 1 \in Places /\ queue'[j] = queue[j + 1]
    BY <1>5, TakeCallPlaces, LenProperties DEF IInv, TypeOK, Places
  <2>3. CallsFit /\ PlaceInv(queue[1]) /\ GuardianInv
    BY <2>1 DEF IInv, OrderlyInv, QueueInv
  <2>4. /\ rpc' \in {"open", "send", "stop"}
        /\ rpc' = "open" => call'.kind = "initialize"
        /\ rpc' = "send" => call'.kind = "send"
        /\ rpc' = "stop" => call'.kind \in {"close", "serviceDied"}
    BY <1>5, <2>1, RequestFields DEF TakeCall
  <2>5. rpc' = "open" => hci_tty_fd_ = NONE
    BY <2>1, <2>3, <2>4 DEF CallsFit
  <2>6. rpc' \in {"send", "stop"} => hci_tty_fd_ # NONE /\ event_cb_ = call'.from
    <3>1. CASE call'.kind = "serviceDied"
      BY <2>1, <2>3, <3>1 DEF CallsFit, PlaceInv
    <3>2. CASE call'.kind \in {"send", "close"}
      <4>1. hci_tty_fd_ # NONE /\ event_cb_ \in linked
        BY <2>1, <2>3, <3>2 DEF CallsFit, GuardianInv
      <4>2. Busy(event_cb_) /\ Busy(call'.from) /\ call'.from \in Clients
        BY <2>1, <4>1, RequestFields DEF Busy
      <4>. QED
        BY <4>1, <4>2 DEF IInv, TypeOK, OrderlyInv, OneUser
    <3>. QED
      BY <2>4, <3>1, <3>2
  <2>. QED
    BY <2>1, <2>2, <2>3, <2>4, <2>5, <2>6 DEF CallsFit, Opening, Closing
<1>6. CASE OpenFails
  <2>1. CallsFit /\ rpc = "open" /\ rpc' = "idle" /\ hci_tty_fd_ = NONE /\ linked = {}
    BY <1>6, SameUser DEF OpenFails, Reply, IInv, OrderlyInv, CallsFit, QueueInv, ServedInv
  <2>2. /\ UNCHANGED <<queue, linked, event_cb_, hci_tty_fd_>>
        /\ \A c \in Clients : client'[c] # "ready"
    BY <1>6, <2>1, SameUser DEF OpenFails, Reply, IInv, TypeOK
  <2>. QED
    BY <2>1, <2>2, SameUser DEF CallsFit, Places, Opening, Closing, OpenFails
<1>7. CASE OpenSucceeds
  <2>1. /\ call.from \in Clients /\ linked' = linked \cup {call.from}
        /\ rpc = "open" /\ rpc' = "watch_tty" /\ UNCHANGED <<client, call>>
        /\ event_cb_' = call.from /\ hci_tty_fd_' # NONE
    BY <1>7, SameUser DEF OpenSucceeds, LinkToDeath, IInv, TypeOK, NONE
  <2>2. linked' = {call.from} /\ client[call.from] \in {"waiting", "dead"}
    BY <2>1, SameUser DEF IInv, QueueInv, ServedInv
  <2>3. \A j \in Places' : queue'[j].kind = "serviceDied"
    <3>1. /\ Request("serviceDied", call.from) \in Requests
          /\ Request("serviceDied", call.from).kind = "serviceDied"
      BY <2>1 DEF Request, Requests
    <3>2. \A j \in Places' :
              queue'[j].kind = "serviceDied" \/ \E i \in Places : queue'[j] = queue[i]
      BY <1>7, <3>1, NewPlace DEF OpenSucceeds, LinkToDeath, IInv, TypeOK, Places
    <3>. QED
      BY <2>1, <3>2, SameUser
  <2>. QED
    BY <2>1, <2>2, <2>3, SameUser DEF CallsFit, Opening, Closing
<1>8. CASE WatchTty
  BY <1>8 DEF WatchTty, Survives, W!Register, CallsFit, Places, IInv, OrderlyInv,
     Opening, Closing
<1>9. CASE WatchShim
  BY <1>9 DEF WatchShim, Survives, W!Register, CallsFit, Places, IInv, OrderlyInv,
     Opening, Closing
<1>10. CASE InitializationComplete
  <2>1. CallsFit /\ rpc' = "idle" /\ hci_tty_fd_ # NONE /\ event_cb_ = call.from
    BY <1>10 DEF InitializationComplete, Reply, IInv, OrderlyInv, CallsFit, Opening, Closing
  <2>2. rpc # "idle" /\ UNCHANGED <<queue, linked, event_cb_, hci_tty_fd_>>
    BY <1>10 DEF InitializationComplete
  <2>3. \A c \in Clients :
            \/ client'[c] = client[c]
            \/ client'[c] = "ready" /\ c = call.from
    BY <1>10, <2>2, SameUser DEF InitializationComplete, Reply, IInv, TypeOK
  <2>4. linked \subseteq Clients
    BY DEF IInv, TypeOK
  <2>. QED
    BY <2>1, <2>2, <2>3, <2>4, SameUser DEF CallsFit, Places, Opening, Closing
<1>11. CASE SendPacket
  <2>1. CallsFit /\ rpc' = "idle" /\ hci_tty_fd_ # NONE /\ event_cb_ = call.from
    BY <1>11 DEF SendPacket, Reply, IInv, OrderlyInv, CallsFit, Opening, Closing
  <2>2. rpc # "idle" /\ UNCHANGED <<queue, linked, event_cb_, hci_tty_fd_>>
    BY <1>11 DEF SendPacket
  <2>3. \A c \in Clients :
            \/ client'[c] = client[c]
            \/ client'[c] = "ready" /\ c = call.from
    BY <1>11, <2>2, SameUser DEF SendPacket, Reply, IInv, TypeOK
  <2>4. linked \subseteq Clients
    BY DEF IInv, TypeOK
  <2>. QED
    BY <2>1, <2>2, <2>3, <2>4, SameUser DEF CallsFit, Places, Opening, Closing
<1>12. CASE SendCrashes
  BY <1>12 DEF SendCrashes, Crashes, CallsFit, Places, IInv, OrderlyInv, Opening,
     Closing
<1>13. CASE CloseStopsWatcher
  BY <1>13 DEF CloseStopsWatcher, AskToStop, Survives, W!BeginStop, CallsFit,
     Places, IInv, OrderlyInv, Opening, Closing
<1>14. CASE CloseWithoutTty
  BY <1>14 DEF CloseWithoutTty, Survives, CallsFit, Places, IInv, OrderlyInv,
     Opening, Closing
<1>15. CASE CloseJoins
  <2>1. /\ CallsFit /\ rpc = "join" /\ rpc' = "unlink" /\ event_cb_ = call.from
        /\ UNCHANGED <<client, queue, call, event_cb_, linked>>
    BY <1>15 DEF CloseJoins, IInv, OrderlyInv, CallsFit, Closing
  <2>. QED
    BY <2>1, SameUser DEF CallsFit, Places, Opening, Closing
<1>16. CASE CloseUnlinks
  <2>1. /\ \A j \in Places' : \E i \in Places : queue'[j] = queue[i]
        /\ rpc = "unlink" /\ rpc' = "delete" /\ UNCHANGED <<client, call, event_cb_, hci_tty_fd_>>
        /\ linked' = linked \ {event_cb_}
    BY <1>16, UnlinkStep DEF CloseUnlinks, IInv
  <2>2. CallsFit /\ linked' = {}
    BY <2>1 DEF IInv, OrderlyInv, CallsFit
  <2>. QED
    BY <2>1, <2>2, SameUser DEF CallsFit, Opening, Closing
<1>17. CASE CloseCrashes
  BY <1>17 DEF CloseCrashes, Crashes, CallsFit, Places, IInv, OrderlyInv, Opening,
     Closing
<1>18. CASE CloseDeletes
  <2>1. CallsFit /\ rpc = "delete" /\ rpc' = "idle" /\ hci_tty_fd_ = NONE /\ linked = {}
    BY <1>18 DEF CloseDeletes, Reply, IInv, CallInv, OrderlyInv, CallsFit
  <2>2. /\ UNCHANGED <<queue, linked, event_cb_, hci_tty_fd_>>
        /\ \A c \in Clients : client'[c] # "ready"
    BY <1>18, <2>1, SameUser DEF CloseDeletes, Reply, IInv, TypeOK
  <2>. QED
    BY <2>1, <2>2, SameUser DEF CallsFit, Places, Opening, Closing
<1>19. ASSUME NEW n \in Sessions, TtyCallbackBegins(n) PROVE CallsFit'
  BY <1>19 DEF TtyCallbackBegins, Survives, W!BeginCallback, CallsFit, Places, IInv,
     OrderlyInv, Opening, Closing
<1>20. ASSUME NEW n \in Sessions, TtyCallbackForwards(n) PROVE CallsFit'
  BY <1>20 DEF TtyCallbackForwards, Survives, W!DataArrives, CallsFit, Places, IInv,
     OrderlyInv, Opening, Closing
<1>21. ASSUME NEW n \in Sessions, TtyCallbackReturns(n) PROVE CallsFit'
  BY <1>21 DEF TtyCallbackReturns, Survives, W!EndCallback, CallsFit, Places, IInv,
     OrderlyInv, Opening, Closing
<1>22. ASSUME NEW n \in Sessions, ShimCallbackBegins(n) PROVE CallsFit'
  BY <1>22 DEF ShimCallbackBegins, Survives, W!BeginCallback, CallsFit, Places,
     IInv, OrderlyInv, Opening, Closing
<1>23. ASSUME NEW n \in Sessions, ShimCallbackCrashes(n) PROVE CallsFit'
  BY <1>23 DEF ShimCallbackCrashes, Crashes, W!BeginCallback, CallsFit, Places,
     IInv, OrderlyInv, Opening, Closing
<1>24. ASSUME NEW n \in Sessions, ShimCallbackReturns(n) PROVE CallsFit'
  BY <1>24 DEF ShimCallbackReturns, Survives, W!EndCallback, CallsFit, Places, IInv,
     OrderlyInv, Opening, Closing
<1>25. ASSUME NEW n \in Sessions, DataArrives(n) PROVE CallsFit'
  BY <1>25 DEF DataArrives, Survives, W!DataArrives, CallsFit, Places, IInv,
     OrderlyInv, Opening, Closing
<1>26. CASE UNCHANGED vars
  BY <1>26 DEF vars, CallsFit, Places, IInv, OrderlyInv, Opening, Closing
<1>. QED
  BY <1>1, <1>2, <1>3, <1>4, <1>5, <1>6, <1>7, <1>8, <1>9, <1>10, <1>11, <1>12,
     <1>13, <1>14, <1>15, <1>16, <1>17, <1>18, <1>19, <1>20, <1>21, <1>22, <1>23,
     <1>24, <1>25, <1>26 DEF Next, RpcStep, CallbackStep, ClientStep

\* As long as clients are orderly, no step deletes the protocol object under a callback.
LEMMA ProtocolStep ==
  ASSUME IInv, orderly, orderly', [Next]_vars
  PROVE  ProtocolInv'
<1>. USE DEF hal, watcher, callback
<1>1. ASSUME NEW c \in Clients, ClientInitializes(c) PROVE ProtocolInv'
  BY <1>1 DEF ClientInitializes, Asks, Survives, ProtocolInv, IInv, OrderlyInv,
     CallInv
<1>2. ASSUME NEW c \in Clients, ClientSends(c) PROVE ProtocolInv'
  BY <1>2 DEF ClientSends, Asks, Survives, ProtocolInv, IInv, OrderlyInv, CallInv
<1>3. ASSUME NEW c \in Clients, ClientCloses(c) PROVE ProtocolInv'
  BY <1>3 DEF ClientCloses, Asks, Survives, ProtocolInv, IInv, OrderlyInv, CallInv
<1>4. ASSUME NEW c \in Clients, ClientDies(c) PROVE ProtocolInv'
  BY <1>4 DEF ClientDies, Survives, ProtocolInv, IInv, OrderlyInv, CallInv
<1>5. CASE TakeCall
  BY <1>5 DEF TakeCall, Survives, ProtocolInv, IInv, OrderlyInv, CallInv
<1>6. CASE OpenFails
  BY <1>6 DEF OpenFails, Reply, Survives, ProtocolInv, CallsFit, IInv, OrderlyInv
<1>7. CASE OpenSucceeds
  <2>1. /\ sessions + 1 \in Sessions /\ hci_' = sessions + 1 /\ hci_tty_fd_' = sessions + 1
        /\ live' = live \cup {sessions + 1} /\ sessions + 1 # NONE
        /\ UNCHANGED <<registered, using, active, fed>> /\ ~crashed'
    BY <1>7, SessionsAssumption
       DEF OpenSucceeds, Survives, IInv, TypeOK, Sessions, NONE
  <2>2. ProtocolInv /\ hci_tty_fd_ = NONE /\ rpc = "open"
    BY <1>7 DEF OpenSucceeds, IInv, OrderlyInv, CallsFit
  <2>3. hci_ = NONE /\ registered = {}
    BY <2>2 DEF ProtocolInv
  <2>4. using = NONE
    BY <2>2, <2>3 DEF ProtocolInv, IInv, TypeOK, NONE, Sessions
  <2>. QED
    BY <2>1, <2>2, <2>3, <2>4 DEF ProtocolInv
<1>8. CASE WatchTty
  <2>1. ProtocolInv /\ hci_tty_fd_ # NONE
    BY <1>8 DEF WatchTty, IInv, CallInv, OrderlyInv
  <2>2. /\ registered' = registered \cup {Tty(hci_tty_fd_)} /\ ~crashed'
        /\ UNCHANGED <<hci_tty_fd_, hci_, live, using, active, fed>>
    BY <1>8 DEF WatchTty, W!Register, Survives
  <2>. QED
    BY <2>1, <2>2 DEF ProtocolInv
<1>9. CASE WatchShim
  <2>1. ProtocolInv /\ hci_tty_fd_ # NONE
    BY <1>9 DEF WatchShim, IInv, CallInv, OrderlyInv
  <2>2. /\ registered' = registered \cup {Shim(hci_tty_fd_)} /\ ~crashed'
        /\ UNCHANGED <<hci_tty_fd_, hci_, live, using, active, fed>>
    BY <1>9 DEF WatchShim, W!Register, Survives
  <2>. QED
    BY <2>1, <2>2 DEF ProtocolInv
<1>10. CASE InitializationComplete
  BY <1>10 DEF InitializationComplete, Reply, Survives, ProtocolInv, IInv,
     OrderlyInv, CallInv
<1>11. CASE SendPacket
  BY <1>11 DEF SendPacket, Reply, Survives, ProtocolInv, IInv, OrderlyInv, CallInv
<1>12. CASE SendCrashes
  BY <1>12 DEF SendCrashes, ProtocolInv, CallsFit, IInv, OrderlyInv
<1>13. CASE CloseStopsWatcher
  BY <1>13 DEF CloseStopsWatcher, AskToStop, W!BeginStop, Survives, ProtocolInv, IInv, OrderlyInv
<1>14. CASE CloseWithoutTty
  BY <1>14 DEF CloseWithoutTty, CallsFit, IInv, OrderlyInv
<1>15. CASE CloseJoins
  <2>1. /\ active = NoFd /\ registered' = {} /\ rpc' = "unlink" /\ hci_tty_fd_' = NONE
        /\ UNCHANGED <<hci_, live, using, fed, active>> /\ ~crashed'
    BY <1>15 DEF CloseJoins, StopReturns, W!FinishStop, Survives
  <2>2. ProtocolInv /\ using = NONE
    BY <2>1, DescriptorsDiffer DEF IInv, OrderlyInv, WatcherInv
  <2>. QED
    BY <2>1, <2>2 DEF ProtocolInv
<1>16. CASE CloseUnlinks
  BY <1>16 DEF CloseUnlinks, Survives, ProtocolInv, IInv, OrderlyInv, CallInv
<1>17. CASE CloseCrashes
  <2>1. rpc = "unlink" /\ event_cb_ = NoClient /\ event_cb_ = call.from
    BY <1>17 DEF CloseCrashes, IInv, OrderlyInv, CallsFit, Closing
  <2>. QED
    BY <2>1, NamesAssumption, SameUser
<1>18. CASE CloseDeletes
  <2>1. /\ hci_' = NONE /\ rpc = "delete" /\ hci_tty_fd_ = NONE
        /\ UNCHANGED <<hci_tty_fd_, registered, using, active, fed>> /\ ~crashed'
    BY <1>18 DEF CloseDeletes, Survives, IInv, CallInv
  <2>2. ProtocolInv /\ registered = {}
    BY <2>1 DEF IInv, OrderlyInv, ProtocolInv
  <2>3. using = NONE
    BY <2>2, DescriptorsDiffer DEF IInv, WatcherInv
  <2>. QED
    BY <2>1, <2>2, <2>3 DEF ProtocolInv
<1>19. ASSUME NEW n \in Sessions, TtyCallbackBegins(n) PROVE ProtocolInv'
  <2>1. /\ active = NoFd /\ UNCHANGED <<hci_tty_fd_, hci_, live, registered, using, fed, rpc>>
        /\ ~crashed'
    BY <1>19 DEF TtyCallbackBegins, W!BeginCallback, Survives
  <2>2. ProtocolInv /\ using = NONE
    BY <2>1, DescriptorsDiffer DEF IInv, OrderlyInv, WatcherInv
  <2>. QED
    BY <2>1, <2>2 DEF ProtocolInv
<1>20. ASSUME NEW n \in Sessions, TtyCallbackForwards(n) PROVE ProtocolInv'
  BY <1>20 DEF TtyCallbackForwards, Survives, W!DataArrives, ProtocolInv, IInv,
     OrderlyInv, CallInv
<1>21. ASSUME NEW n \in Sessions, TtyCallbackReturns(n) PROVE ProtocolInv'
  <2>1. /\ active = Tty(n) /\ UNCHANGED <<hci_tty_fd_, hci_, live, registered, using, fed, rpc>>
        /\ ~crashed'
    BY <1>21 DEF TtyCallbackReturns, W!EndCallback, Survives
  <2>2. ProtocolInv /\ using = NONE
    BY <2>1, DescriptorsDiffer DEF IInv, OrderlyInv, WatcherInv
  <2>. QED
    BY <2>1, <2>2 DEF ProtocolInv
<1>22. ASSUME NEW n \in Sessions, ShimCallbackBegins(n) PROVE ProtocolInv'
  <2>1. /\ Shim(n) \in registered /\ active' = Shim(n) /\ using' = hci_
        /\ UNCHANGED <<hci_tty_fd_, hci_, live, registered, fed, rpc>> /\ ~crashed'
    BY <1>22 DEF ShimCallbackBegins, W!BeginCallback, Survives
  <2>2. ProtocolInv /\ hci_ = hci_tty_fd_ /\ Shim(n) \in {Tty(hci_), Shim(hci_)}
        /\ hci_ \in Sessions
    BY <2>1 DEF IInv, TypeOK, OrderlyInv, ProtocolInv
  <2>3. n = hci_
    BY <2>2, DescriptorsDiffer
  <2>. QED
    BY <2>1, <2>2, <2>3 DEF ProtocolInv
<1>23. ASSUME NEW n \in Sessions, ShimCallbackCrashes(n) PROVE ProtocolInv'
  <2>1. hci_ = NONE /\ Shim(n) \in registered
    BY <1>23 DEF ShimCallbackCrashes, W!BeginCallback
  <2>2. ProtocolInv
    BY DEF IInv, OrderlyInv
  <2>. QED
    BY <2>1, <2>2 DEF ProtocolInv
<1>24. ASSUME NEW n \in Sessions, ShimCallbackReturns(n) PROVE ProtocolInv'
  <2>1. /\ active = Shim(n) /\ using' = NONE /\ fed' = [fed EXCEPT ![using] = @ \cup {n}]
        /\ UNCHANGED <<hci_tty_fd_, hci_, live, registered, rpc>> /\ ~crashed /\ ~crashed'
    BY <1>24 DEF ShimCallbackReturns, W!EndCallback, Survives
  <2>2. ProtocolInv /\ using # NONE /\ using \in Sessions
    BY <2>1 DEF IInv, TypeOK, OrderlyInv, WatcherInv
  <2>3. using = n
    BY <2>1, <2>2, DescriptorsDiffer DEF ProtocolInv
  <2>4. \A m \in Sessions : fed'[m] \subseteq {m}
    BY <2>1, <2>2, <2>3 DEF ProtocolInv, IInv, TypeOK
  <2>. QED
    BY <2>1, <2>2, <2>4 DEF ProtocolInv
<1>25. ASSUME NEW n \in Sessions, DataArrives(n) PROVE ProtocolInv'
  BY <1>25 DEF DataArrives, Survives, W!DataArrives, ProtocolInv, IInv, OrderlyInv,
     CallInv
<1>26. CASE UNCHANGED vars
  BY <1>26 DEF vars, ProtocolInv, IInv, OrderlyInv, CallInv
<1>. QED
  BY <1>1, <1>2, <1>3, <1>4, <1>5, <1>6, <1>7, <1>8, <1>9, <1>10, <1>11, <1>12,
     <1>13, <1>14, <1>15, <1>16, <1>17, <1>18, <1>19, <1>20, <1>21, <1>22, <1>23,
     <1>24, <1>25, <1>26 DEF Next, RpcStep, CallbackStep, ClientStep

\* No step makes clients orderly that were not.
LEMMA StaysDisorderly == ASSUME IInv, [Next]_vars, orderly' PROVE orderly
<1>. USE DEF vars
<1>1. \A c \in Clients : ClientStep(c) => orderly
  BY DEF ClientStep, ClientInitializes, ClientSends, ClientCloses, ClientDies
<1>2. RpcStep \/ CloseJoins => orderly' = orderly
  BY DEF RpcStep, TakeCall, OpenFails, OpenSucceeds, WatchTty, WatchShim, CloseJoins,
     InitializationComplete, SendPacket, SendCrashes, CloseStopsWatcher,
     CloseWithoutTty, CloseUnlinks, CloseCrashes, CloseDeletes
<1>3. \A n \in Sessions :
          CallbackStep(n) \/ TtyCallbackBegins(n) \/ ShimCallbackBegins(n)
            \/ ShimCallbackCrashes(n) \/ DataArrives(n) => orderly' = orderly
  BY DEF CallbackStep, TtyCallbackForwards, TtyCallbackReturns, ShimCallbackReturns,
     TtyCallbackBegins, ShimCallbackBegins, ShimCallbackCrashes, DataArrives
<1>. QED
  BY <1>1, <1>2, <1>3 DEF Next

-----------------------------------------------------------------------------
\* The invariant behind the safety properties holds in every reachable state.
THEOREM InvariantHolds == Spec => []IInv
<1>1. ASSUME IInv, [Next]_vars PROVE IInv'
  <2>1. TypeOK' /\ CallInv' /\ WatcherInv' /\ QueueInv' /\ GuardianInv'
    BY <1>1, TypeStep, CallStep, WatcherStep, QueueStep, GuardianStep DEF IInv
  <2>2. ASSUME orderly' PROVE OneUser' /\ CallsFit' /\ ProtocolInv'
    BY <1>1, <2>2, StaysDisorderly, OneUserStep, CallsFitStep, ProtocolStep
  <2>. QED
    BY <2>1, <2>2 DEF IInv, OrderlyInv
<1>. QED
  BY InitInv, <1>1, PTL DEF Spec

\* A close() deletes no H4Protocol under the callback that is inside it, and nobody uses
\* hci_ or event_cb_ while it is null, as long as clients are orderly.
THEOREM AccessIsSafe == Spec => []NoBadAccess
<1>1. IInv => NoBadAccess
  BY DEF IInv, OrderlyInv, ProtocolInv, NoBadAccess
<1>. QED
  BY InvariantHolds, <1>1, PTL

\* A protocol object parses the bytes of its own tty, as long as clients are orderly.
THEOREM StreamsStayApart == Spec => []OneStreamPerParser
<1>1. IInv => OneStreamPerParser
  BY DEF IInv, OrderlyInv, ProtocolInv, OneStreamPerParser
<1>. QED
  BY InvariantHolds, <1>1, PTL

\* Whatever clients do, the death of the client of a session is reported, or a close()
\* is under way (serviceDied, linkToDeath).
THEOREM SessionsAreGuarded == Spec => []SessionHasGuardian
<1>1. IInv => SessionHasGuardian
  BY DEF IInv, GuardianInv, SessionHasGuardian
<1>. QED
  BY InvariantHolds, <1>1, PTL

=============================================================================
