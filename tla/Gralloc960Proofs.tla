-------------------------- MODULE Gralloc960Proofs --------------------------
(***************************************************************************)
(* Proofs about the allocator: Gralloc960, for any number of threads,      *)
(* handles, addresses and descriptors, on kernels with the old and the new *)
(* ION, and for every sequence of mishaps; and GrallocLayout, for every    *)
(* build, the capabilities of any libraries, every request and pictures of *)
(* any dimensions.                                                         *)
(***************************************************************************)
EXTENDS Gralloc960, GrallocLayout, TLAPS

Files ==
    {CLOSED, ION, FBDEV} \cup {Memory(h) : h \in Handles} \cup {Attributes(h) : h \in Handles}
Numbers == Descriptors \cup {-1}
Bases == Addresses \cup {NULL, FOREIGN}
Kinds == {"none", "ion", "clone", "framebuffer"}
Objects == [kind : Kinds, base : Bases, share_fd : Numbers, share_attr_fd : Numbers,
            writeOwner : BOOLEAN, slot : Slots]
Calls == [pc : {"idle", "alloc", "free"}, handle : Handles \cup {NoHandle}, mask : SUBSET Slots]
Locks == [handle : Handles \cup {NoHandle}, write : BOOLEAN]
Screens == [fd : Numbers, numBuffers : 0..NUM_FB_BUFFERS]

TypeOK ==
    /\ files \in [Descriptors -> Files]
    /\ mapping \in [Addresses -> Handles \cup {NoHandle}]
    /\ hnd \in [Handles -> Objects]
    /\ ion_client \in Numbers \cup {0} /\ devices \in Nat
    /\ gralloc_legacy_ion \in BOOLEAN /\ undercut \in BOOLEAN
    /\ fb \in Screens /\ bufferMask \in SUBSET Slots /\ lostSlots \in SUBSET Slots
    /\ currentBuffer \in Handles \cup {NoHandle} /\ interfered \in BOOLEAN
    /\ call \in [Threads -> Calls] /\ held \in [Threads -> Locks]
    /\ owed \in SUBSET Handles /\ lost \in SUBSET Descriptors /\ strays \in SUBSET Addresses

\* What is named is open on the right thing, and what is open is named or lost, for a
\* table of descriptors, the handles, the framebuffer and the client.
Owned(fs, hs, f, ic, dv, ls) ==
    /\ \A h \in Handles : hs[h].share_fd \in Descriptors => fs[hs[h].share_fd] = Memory(h)
    /\ \A h \in Handles :
          hs[h].share_attr_fd \in Descriptors => fs[hs[h].share_attr_fd] = Attributes(h)
    /\ f.fd \in Descriptors => fs[f.fd] = FBDEV
    /\ dv > 0 => ic \in Descriptors /\ fs[ic] = ION
    /\ \A d \in Descriptors \ ls :
          \/ fs[d] = CLOSED
          \/ \E h \in Handles : hs[h].share_fd = d \/ hs[h].share_attr_fd = d
          \/ f.fd = d
          \/ ic = d /\ fs[d] = ION

FdInv == ~undercut => Owned(files, hnd, fb, ion_client, devices, lost)

\* A base says where the memory of its handle is, and the other way round.
Placed(mp, hs, st) ==
    /\ \A h \in Handles : hs[h].base \in Addresses => mp[hs[h].base] = h
    /\ \A a \in Addresses \ st : mp[a] # NoHandle => hs[mp[a]].base = a

MapInv == Placed(mapping, hnd, strays)

\* A slot of the framebuffer is never mapped for its handle alone, and is exported.
KindInv ==
    \A h \in Handles :
        hnd[h].kind = "framebuffer" => hnd[h].base = NULL /\ hnd[h].share_fd \in Descriptors

Buffers(hs) == {h \in Handles : hs[h].kind = "framebuffer"}

\* The bits of the mask are the slots of the handles and of the failed exports.
SlotInv ==
    ~interfered =>
        /\ bufferMask = {hnd[h].slot : h \in Buffers(hnd)} \cup lostSlots
        /\ \A g, h \in Buffers(hnd) : hnd[g].slot = hnd[h].slot => g = h
        /\ \A h \in Buffers(hnd) : hnd[h].slot \notin lostSlots

\* At most one thread is allocating a slot, and what it has read of the mask is still
\* true unless a free has stored it meanwhile.
AllocInv ==
    /\ \A t, u \in Threads : call[t].pc = "alloc" /\ call[u].pc = "alloc" => t = u
    /\ \A t \in Threads :
          call[t].pc = "alloc" =>
              /\ call[t].mask # Slots
              /\ ~interfered => call[t].mask = bufferMask

\* A slot that a thread is freeing is freed by no other, and not on the screen.
FreeInv ==
    /\ \A t \in Threads :
          call[t].pc = "free" =>
              /\ call[t].handle \in Buffers(hnd)
              /\ currentBuffer # call[t].handle
    /\ \A t, u \in Threads :
          call[t].pc = "free" /\ call[u].pc = "free" /\ call[t].handle = call[u].handle => t = u

PostedInv == currentBuffer # NoHandle => currentBuffer \in Buffers(hnd)

\* The devices have asked the kernel.
DeviceInv == devices > 0 => gralloc_legacy_ion = LegacyIon

\* A buffer that is owed a sync will get it from the last of its writers.
OweInv ==
    \A h \in owed :
        /\ BeingWritten(h) /\ hnd[h].writeOwner = TRUE
        /\ LegacyIon /\ devices > 0 /\ ~undercut

IInv ==
    /\ TypeOK /\ FdInv /\ MapInv /\ KindInv /\ SlotInv /\ AllocInv /\ FreeInv /\ PostedInv
    /\ DeviceInv /\ OweInv
-----------------------------------------------------------------------------
(* Lemmas about the tables. *)

\* The numbers and addresses that stand for nothing.
LEMMA NothingNamed ==
    /\ -1 \notin Descriptors /\ 0 \notin Descriptors
    /\ NULL \notin Addresses /\ FOREIGN \notin Addresses /\ NULL # FOREIGN
    /\ NoHandle \notin Handles
BY DescriptorsAssumption, AddressesAssumption960, NoHandleAssumption960 DEF NULL, FOREIGN

\* What descriptors may be open on can be told apart.
LEMMA FilesDiffer ==
    /\ CLOSED # ION /\ CLOSED # FBDEV /\ ION # FBDEV
    /\ \A h : Memory(h) \notin {CLOSED, ION, FBDEV} /\ Attributes(h) \notin {CLOSED, ION, FBDEV}
    /\ \A g, h : Memory(g) # Attributes(h)
    /\ \A g, h : Memory(g) = Memory(h) => g = h
    /\ \A g, h : Attributes(g) = Attributes(h) => g = h
BY DEF CLOSED, ION, FBDEV, Memory, Attributes

LEMMA FilesAre ==
    /\ CLOSED \in Files /\ ION \in Files /\ FBDEV \in Files
    /\ \A h \in Handles : Memory(h) \in Files /\ Attributes(h) \in Files
BY DEF Files

\* An object that is not there has no descriptor and no address.
LEMMA NoObjectIs ==
    /\ NoObject \in Objects
    /\ NoObject.kind = "none" /\ NoObject.base = NULL /\ NoObject.share_fd = -1
    /\ NoObject.share_attr_fd = -1 /\ NoObject.writeOwner = FALSE
BY DEF NoObject, Objects, Kinds, Bases, Numbers, Slots, NUM_FB_BUFFERS

\* The descriptor that the kernel hands out is free.
LEMMA LowestIsFree ==
    ASSUME NEW fs, NEW d \in Lowest(fs)
    PROVE  d \in Descriptors /\ fs[d] = CLOSED
BY DEF Lowest

LEMMA OpenIs ==
    ASSUME NEW fs \in [Descriptors -> Files], NEW d \in Descriptors, NEW what \in Files
    PROVE  /\ Open(fs, d, what) \in [Descriptors -> Files]
           /\ \A e \in Descriptors : Open(fs, d, what)[e] = IF e = d THEN what ELSE fs[e]
BY DEF Open

\* The two descriptors that come with a handle.
LEMMA OpenOwnIs ==
    ASSUME NEW fs \in [Descriptors -> Files], NEW d \in Descriptors, NEW h \in Handles
    PROVE  /\ Open(fs, d, Memory(h)) \in [Descriptors -> Files]
           /\ \A e \in Descriptors :
                 Open(fs, d, Memory(h))[e] = IF e = d THEN Memory(h) ELSE fs[e]
           /\ Open(fs, d, Attributes(h)) \in [Descriptors -> Files]
           /\ \A e \in Descriptors :
                 Open(fs, d, Attributes(h))[e] = IF e = d THEN Attributes(h) ELSE fs[e]
<1>1. Memory(h) \in Files /\ Attributes(h) \in Files
  BY FilesAre
<1> QED
  BY <1>1 DEF Open

LEMMA CloseIs ==
    ASSUME NEW fs \in [Descriptors -> Files], NEW d
    PROVE  /\ Close(fs, d) \in [Descriptors -> Files]
           /\ \A e \in Descriptors : Close(fs, d)[e] = IF e = d THEN CLOSED ELSE fs[e]
BY FilesAre DEF Close

LEMMA MappedIs ==
    ASSUME mapping \in [Addresses -> Handles \cup {NoHandle}], NEW a, NEW h \in Handles
    PROVE  /\ Mapped(a, h) \in [Addresses -> Handles \cup {NoHandle}]
           /\ \A b \in Addresses : Mapped(a, h)[b] = IF b = a THEN h ELSE mapping[b]
BY DEF Mapped

LEMMA UnmappedIs ==
    ASSUME NEW mp \in [Addresses -> Handles \cup {NoHandle}], NEW a
    PROVE  /\ Unmapped(mp, a) \in [Addresses -> Handles \cup {NoHandle}]
           /\ \A b \in Addresses : Unmapped(mp, a)[b] = IF b = a THEN NoHandle ELSE mp[b]
BY DEF Unmapped
-----------------------------------------------------------------------------
(* Who owns which descriptor, operation by operation. *)

\* A new client gets a free number, and the one before is lost.
LEMMA OwnedClient ==
    ASSUME NEW fs, NEW gs, NEW hs, NEW f, NEW ic, NEW dv, NEW dw, NEW ls, NEW ms,
           NEW d \in Descriptors, fs[d] = CLOSED,
           \A e \in Descriptors : gs[e] = IF e = d THEN ION ELSE fs[e],
           ls \subseteq ms, ic \in Descriptors /\ fs[ic] = ION => ic \in ms,
           Owned(fs, hs, f, ic, dv, ls)
    PROVE  Owned(gs, hs, f, d, dw, ms)
BY FilesDiffer DEF Owned

\* Without a device the number of the client does not have to be open, and may change.
LEMMA OwnedNoClient ==
    ASSUME NEW fs, NEW hs, NEW f, NEW ic, NEW jc, NEW dv, NEW ls, NEW ms,
           ls \subseteq ms, ic \in Descriptors /\ fs[ic] = ION => ic \in ms,
           Owned(fs, hs, f, ic, dv, ls)
    PROVE  Owned(fs, hs, f, jc, 0, ms)
BY DEF Owned

\* Descriptors of the framebuffer that nobody keeps.
LEMMA OwnedLoses ==
    ASSUME NEW fs, NEW gs, NEW hs, NEW f, NEW ic, NEW dv, NEW ls, NEW ms, NEW left,
           \A e \in left : fs[e] = CLOSED,
           \A e \in Descriptors : gs[e] = IF e \in left THEN FBDEV ELSE fs[e],
           ls \cup left \subseteq ms,
           Owned(fs, hs, f, ic, dv, ls)
    PROVE  Owned(gs, hs, f, ic, dv, ms)
<1>1. \A e \in Descriptors : fs[e] # CLOSED => gs[e] = fs[e]
  OBVIOUS
<1>2. \A e \in Descriptors \ ms : gs[e] = fs[e]
  OBVIOUS
<1> QED
  BY <1>1, <1>2, FilesDiffer DEF Owned

\* The framebuffer is opened once.
LEMMA OwnedScreen ==
    ASSUME NEW fs \in [Descriptors -> Files], NEW hs, NEW ic, NEW dv, NEW ls,
           NEW r \in init_frame_buffer_locked(fs), fb \in Screens,
           Owned(fs, hs, fb, ic, dv, ls)
    PROVE  Owned(r.files, hs, r.fb, ic, dv, ls)
<1>1. CASE fb # NoFramebuffer
  BY <1>1 DEF init_frame_buffer_locked
<1>2. CASE fb = NoFramebuffer
  <2>1. PICK d \in Lowest(fs), n \in 1..NUM_FB_BUFFERS :
            r = [fb |-> [fd |-> d, numBuffers |-> n], files |-> Open(fs, d, FBDEV)]
    BY <1>2 DEF init_frame_buffer_locked
  <2>2. d \in Descriptors /\ fs[d] = CLOSED
    BY LowestIsFree
  <2>3. r.fb.fd = d /\ r.files = Open(fs, d, FBDEV)
    BY <2>1
  <2>5. \A e \in Descriptors : r.files[e] = IF e = d THEN FBDEV ELSE fs[e]
    BY <2>2, <2>3, OpenIs, FilesAre
  <2>4. fb.fd \notin Descriptors
    BY <1>2, NothingNamed DEF NoFramebuffer
  <2> QED
    BY <2>2, <2>3, <2>4, <2>5, FilesDiffer DEF Owned
<1> QED
  BY <1>1, <1>2

\* A handle gets the descriptor of its memory.
LEMMA OwnedMemory ==
    ASSUME NEW fs, NEW gs, NEW hs \in [Handles -> Objects], NEW hs2, NEW f, NEW ic, NEW dv, NEW ls,
           NEW h \in Handles, NEW d \in Descriptors, fs[d] = CLOSED,
           \A e \in Descriptors : gs[e] = IF e = d THEN Memory(h) ELSE fs[e],
           \A g \in Handles : g # h => hs2[g] = hs[g],
           hs[h].share_fd = -1, hs2[h].share_fd = d, hs2[h].share_attr_fd = hs[h].share_attr_fd,
           Owned(fs, hs, f, ic, dv, ls)
    PROVE  Owned(gs, hs2, f, ic, dv, ls)
<1>1. \A g \in Handles : hs2[g].share_attr_fd = hs[g].share_attr_fd
  OBVIOUS
<1>2. \A g \in Handles : hs[g].share_fd \in Descriptors => hs2[g].share_fd = hs[g].share_fd
  BY NothingNamed
<1>3. \A g \in Handles : hs2[g].share_fd = hs[g].share_fd \/ (g = h /\ hs2[g].share_fd = d)
  OBVIOUS
<1> QED
  BY <1>1, <1>2, <1>3, FilesDiffer DEF Owned

\* A handle gets the descriptor of its attribute page.
LEMMA OwnedAttributes ==
    ASSUME NEW fs, NEW gs, NEW hs \in [Handles -> Objects], NEW hs2, NEW f, NEW ic, NEW dv, NEW ls,
           NEW h \in Handles, NEW d \in Descriptors, fs[d] = CLOSED,
           \A e \in Descriptors : gs[e] = IF e = d THEN Attributes(h) ELSE fs[e],
           \A g \in Handles : g # h => hs2[g] = hs[g],
           hs[h].share_attr_fd = -1, hs2[h].share_attr_fd = d, hs2[h].share_fd = hs[h].share_fd,
           Owned(fs, hs, f, ic, dv, ls)
    PROVE  Owned(gs, hs2, f, ic, dv, ls)
<1>1. \A g \in Handles : hs2[g].share_fd = hs[g].share_fd
  OBVIOUS
<1>2. \A g \in Handles :
          hs[g].share_attr_fd \in Descriptors => hs2[g].share_attr_fd = hs[g].share_attr_fd
  BY NothingNamed
<1>3. \A g \in Handles :
          hs2[g].share_attr_fd = hs[g].share_attr_fd \/ (g = h /\ hs2[g].share_attr_fd = d)
  OBVIOUS
<1> QED
  BY <1>1, <1>2, <1>3, FilesDiffer DEF Owned

\* A handle loses descriptors of its own: what is closed it no longer names, and what it
\* no longer names is closed or lost.
LEMMA OwnedDrops ==
    ASSUME NEW fs, NEW gs, NEW hs \in [Handles -> Objects], NEW hs2, NEW f, NEW ic, NEW dv,
           NEW ls, NEW ms, NEW h \in Handles, NEW C,
           C \subseteq {hs[h].share_fd, hs[h].share_attr_fd},
           \A e \in Descriptors : gs[e] = IF e \in C THEN CLOSED ELSE fs[e],
           \A g \in Handles : g # h => hs2[g] = hs[g],
           hs2[h].share_fd = -1 \/ (hs2[h].share_fd = hs[h].share_fd /\ hs[h].share_fd \notin C),
           hs2[h].share_attr_fd = -1
               \/ (hs2[h].share_attr_fd = hs[h].share_attr_fd /\ hs[h].share_attr_fd \notin C),
           hs2[h].share_fd # hs[h].share_fd => hs[h].share_fd \in C \cup ms \cup {-1},
           hs2[h].share_attr_fd # hs[h].share_attr_fd => hs[h].share_attr_fd \in C \cup ms \cup {-1},
           ls \subseteq ms,
           Owned(fs, hs, f, ic, dv, ls)
    PROVE  Owned(gs, hs2, f, ic, dv, ms)
<1>0. -1 \notin Descriptors
  BY NothingNamed
<1>1. \A e \in Descriptors \cap C : fs[e] \in {Memory(h), Attributes(h)}
  BY DEF Owned
<1>2. \A g \in Handles : hs2[g].share_fd \in Descriptors =>
          hs2[g].share_fd = hs[g].share_fd /\ gs[hs[g].share_fd] = Memory(g)
  <2>1. ASSUME NEW g \in Handles, hs2[g].share_fd \in Descriptors
        PROVE  hs2[g].share_fd = hs[g].share_fd
    BY <1>0, <2>1
  <2>2. ASSUME NEW g \in Handles, hs2[g].share_fd \in Descriptors, hs[g].share_fd \in C
        PROVE  FALSE
    <3>1. fs[hs[g].share_fd] = Memory(g) /\ fs[hs[g].share_fd] \in {Memory(h), Attributes(h)}
      BY <1>1, <2>1, <2>2 DEF Owned
    <3>2. g = h
      BY <3>1, FilesDiffer
    <3> QED
      BY <1>0, <2>2, <3>2
  <2> QED
    BY <2>1, <2>2 DEF Owned
<1>3. \A g \in Handles : hs2[g].share_attr_fd \in Descriptors =>
          hs2[g].share_attr_fd = hs[g].share_attr_fd /\ gs[hs[g].share_attr_fd] = Attributes(g)
  <2>1. ASSUME NEW g \in Handles, hs2[g].share_attr_fd \in Descriptors
        PROVE  hs2[g].share_attr_fd = hs[g].share_attr_fd
    BY <1>0, <2>1
  <2>2. ASSUME NEW g \in Handles, hs2[g].share_attr_fd \in Descriptors, hs[g].share_attr_fd \in C
        PROVE  FALSE
    <3>1. /\ fs[hs[g].share_attr_fd] = Attributes(g)
          /\ fs[hs[g].share_attr_fd] \in {Memory(h), Attributes(h)}
      BY <1>1, <2>1, <2>2 DEF Owned
    <3>2. g = h
      BY <3>1, FilesDiffer
    <3> QED
      BY <1>0, <2>2, <3>2
  <2> QED
    BY <2>1, <2>2 DEF Owned
<1>4. (f.fd \in Descriptors => gs[f.fd] = FBDEV) /\ (dv > 0 => ic \in Descriptors /\ gs[ic] = ION)
  BY <1>1, FilesDiffer DEF Owned
<1>5. ASSUME NEW d \in Descriptors \ ms, gs[d] # CLOSED
      PROVE  \/ \E g \in Handles : hs2[g].share_fd = d \/ hs2[g].share_attr_fd = d
             \/ f.fd = d
             \/ ic = d /\ gs[d] = ION
  <2>1. d \notin C /\ gs[d] = fs[d] /\ d # -1
    BY <1>0, <1>5
  <2>2. CASE \E g \in Handles : hs[g].share_fd = d \/ hs[g].share_attr_fd = d
    <3>1. PICK g \in Handles : hs[g].share_fd = d \/ hs[g].share_attr_fd = d
      BY <2>2
    <3>2. hs2[g].share_fd = d \/ hs2[g].share_attr_fd = d
      BY <2>1, <3>1
    <3> QED
      BY <3>2
  <2>3. CASE f.fd = d \/ (ic = d /\ fs[d] = ION)
    BY <2>1, <2>3
  <2> QED
    BY <1>5, <2>1, <2>2, <2>3 DEF Owned
<1> QED
  BY <1>2, <1>3, <1>4, <1>5 DEF Owned

\* Whatever else changes of the handles.
LEMMA OwnedSame ==
    ASSUME NEW fs, NEW hs, NEW hs2, NEW f, NEW ic, NEW dv, NEW ls,
           \A g \in Handles : hs2[g].share_fd = hs[g].share_fd,
           \A g \in Handles : hs2[g].share_attr_fd = hs[g].share_attr_fd,
           Owned(fs, hs, f, ic, dv, ls)
    PROVE  Owned(fs, hs2, f, ic, dv, ls)
BY DEF Owned

\* What init_frame_buffer_locked leaves has the types of the framebuffer and the table.
LEMMA ScreenTyped ==
    ASSUME NEW fs \in [Descriptors -> Files], fb \in Screens,
           NEW r \in init_frame_buffer_locked(fs)
    PROVE  r.fb \in Screens /\ r.files \in [Descriptors -> Files]
<1>1. CASE fb # NoFramebuffer
  BY <1>1 DEF init_frame_buffer_locked
<1>2. CASE fb = NoFramebuffer
  <2>1. PICK d \in Lowest(fs), n \in 1..NUM_FB_BUFFERS :
            r = [fb |-> [fd |-> d, numBuffers |-> n], files |-> Open(fs, d, FBDEV)]
    BY <1>2 DEF init_frame_buffer_locked
  <2>2. d \in Descriptors
    BY LowestIsFree
  <2>3. [fd |-> d, numBuffers |-> n] \in Screens
    BY <2>2 DEF Screens, Numbers, NUM_FB_BUFFERS
  <2>4. Open(fs, d, FBDEV) \in [Descriptors -> Files]
    BY <2>2, OpenIs, FilesAre
  <2> QED
    BY <2>1, <2>3, <2>4
<1> QED
  BY <1>1, <1>2

\* Memory that was given back in the same call.
LEMMA UnmappedAgain ==
    ASSUME TypeOK, NEW h \in Handles, NEW a \in Free \cup {NULL}
    PROVE  Unmapped(Mapped(a, h), a) = mapping
<1>1. Mapped(a, h) \in [Addresses -> Handles \cup {NoHandle}]
  BY MappedIs DEF TypeOK
<1>2. /\ Unmapped(Mapped(a, h), a) \in [Addresses -> Handles \cup {NoHandle}]
      /\ \A b \in Addresses : Unmapped(Mapped(a, h), a)[b] = mapping[b]
  BY <1>1, MappedIs, UnmappedIs, NothingNamed DEF Free, TypeOK
<1> QED
  BY <1>2 DEF TypeOK

\* How a buffer that was not there is placed: at a free address, or nowhere.
LEMMA PlacedNew ==
    ASSUME TypeOK, MapInv, NEW h \in Handles, hnd[h].base = NULL, NEW a \in Free \cup {NULL},
           NEW hs2, \A g \in Handles : g # h => hs2[g] = hnd[g], hs2[h].base = a
    PROVE  Placed(Mapped(a, h), hs2, strays)
<1>0. NULL \notin Addresses /\ NoHandle \notin Handles
  BY NothingNamed
<1>1. \A b \in Addresses : Mapped(a, h)[b] = IF b = a THEN h ELSE mapping[b]
  BY MappedIs DEF TypeOK
<1>2. ASSUME NEW g \in Handles, hs2[g].base \in Addresses
      PROVE  Mapped(a, h)[hs2[g].base] = g
  <2>1. CASE g = h
    BY <1>1, <1>2, <2>1
  <2>2. CASE g # h
    <3>1. hnd[g].base \in Addresses /\ mapping[hnd[g].base] = g
      BY <1>2, <2>2 DEF MapInv, Placed
    <3>2. hnd[g].base # a
      BY <1>0, <3>1 DEF Free
    <3> QED
      BY <1>1, <2>2, <3>1, <3>2
  <2> QED
    BY <2>1, <2>2
<1>3. ASSUME NEW b \in Addresses \ strays, Mapped(a, h)[b] # NoHandle
      PROVE  hs2[Mapped(a, h)[b]].base = b
  <2>1. CASE b = a
    BY <1>1, <2>1
  <2>2. CASE b # a
    <3>1. /\ Mapped(a, h)[b] = mapping[b] /\ mapping[b] # NoHandle /\ mapping[b] \in Handles
          /\ hnd[mapping[b]].base = b
      BY <1>1, <1>3, <2>2 DEF MapInv, Placed, TypeOK
    <3>2. mapping[b] # h
      BY <1>0, <3>1
    <3> QED
      BY <3>1, <3>2
  <2> QED
    BY <2>1, <2>2
<1> QED
  BY <1>2, <1>3 DEF Placed

\* The address of a handle is given up.
LEMMA PlacedGone ==
    ASSUME TypeOK, MapInv, NEW h \in Handles,
           NEW hs2, \A g \in Handles : g # h => hs2[g] = hnd[g], hs2[h].base \notin Addresses
    PROVE  Placed(Unmapped(mapping, hnd[h].base), hs2, strays)
<1>1. \A b \in Addresses :
          Unmapped(mapping, hnd[h].base)[b] = IF b = hnd[h].base THEN NoHandle ELSE mapping[b]
  BY UnmappedIs DEF TypeOK
<1>2. ASSUME NEW g \in Handles, hs2[g].base \in Addresses
      PROVE  Unmapped(mapping, hnd[h].base)[hs2[g].base] = g
  <2>1. g # h /\ hnd[g].base \in Addresses /\ mapping[hnd[g].base] = g /\ hs2[g] = hnd[g]
    BY <1>2 DEF MapInv, Placed
  <2>2. hnd[g].base # hnd[h].base
    BY <2>1 DEF MapInv, Placed
  <2> QED
    BY <1>1, <2>1, <2>2
<1>3. ASSUME NEW b \in Addresses \ strays, Unmapped(mapping, hnd[h].base)[b] # NoHandle
      PROVE  hs2[Unmapped(mapping, hnd[h].base)[b]].base = b
  <2>1. /\ b # hnd[h].base /\ Unmapped(mapping, hnd[h].base)[b] = mapping[b]
        /\ mapping[b] \in Handles /\ hnd[mapping[b]].base = b
    BY <1>1, <1>3 DEF MapInv, Placed, TypeOK
  <2> QED
    BY <2>1
<1> QED
  BY <1>2, <1>3 DEF Placed

\* A handle that comes or goes without an address of its own.
LEMMA PlacedSame ==
    ASSUME NEW mp, NEW hs, NEW hs2, NEW st,
           \A g \in Handles : hs2[g].base = hs[g].base \/ {hs2[g].base, hs[g].base} \cap Addresses = {},
           mp \in [Addresses -> Handles \cup {NoHandle}],
           Placed(mp, hs, st)
    PROVE  Placed(mp, hs2, st)
BY DEF Placed

\* What the attribute page adds to a new buffer: a descriptor, or nothing, or the end of
\* the buffer; then the table of descriptors is as it was.
LEMMA AttrAllocateGives ==
    ASSUME TypeOK, MapInv, NEW h \in Handles, hnd[h] = NoObject,
           NEW fs \in [Descriptors -> Files], NEW d \in Lowest(fs),
           NEW r \in Objects, r.share_fd = d, r.share_attr_fd = -1, r.base \in Free \cup {NULL},
           NEW hwFb \in BOOLEAN,
           gralloc_buffer_attr_allocate(h, r, Open(fs, d, Memory(h)), hwFb)
    PROVE  /\ files' \in [Descriptors -> Files]
           /\ mapping' \in [Addresses -> Handles \cup {NoHandle}]
           /\ \/ /\ hnd' = hnd /\ ~hwFb
              \/ \E n \in Numbers : hnd' = [hnd EXCEPT ![h] = [r EXCEPT !.share_attr_fd = n]]
           /\ Placed(mapping', hnd', strays)
           /\ \A f, ic, dv, ls :
                  Owned(fs, hnd, f, ic, dv, ls) => Owned(files', hnd', f, ic, dv, ls)
<1>0. /\ d \in Descriptors /\ fs[d] = CLOSED /\ hnd \in [Handles -> Objects]
      /\ hnd[h].share_fd = -1 /\ hnd[h].share_attr_fd = -1 /\ hnd[h].base = NULL
  BY LowestIsFree, NoObjectIs DEF TypeOK
<1> DEFINE gs == Open(fs, d, Memory(h))
<1>1. gs \in [Descriptors -> Files] /\ \A e \in Descriptors : gs[e] = IF e = d THEN Memory(h) ELSE fs[e]
  BY <1>0, OpenIs, FilesAre
<1>2. gralloc_buffer_attr_allocate(h, r, gs, hwFb)
  OBVIOUS
<1> HIDE DEF gs
<1>3. Mapped(r.base, h) \in [Addresses -> Handles \cup {NoHandle}]
  BY MappedIs DEF TypeOK
<1>4. [r EXCEPT !.share_attr_fd = -1] = r
  BY DEF Objects
<1>5. ASSUME NEW n \in Numbers, hnd' = [hnd EXCEPT ![h] = [r EXCEPT !.share_attr_fd = n]],
             mapping' = Mapped(r.base, h)
      PROVE  Placed(mapping', hnd', strays)
  <2>1. hnd'[h] = [r EXCEPT !.share_attr_fd = n] /\ \A g \in Handles : g # h => hnd'[g] = hnd[g]
    BY <1>0, <1>5
  <2>2. hnd'[h].base = r.base
    BY <2>1 DEF Objects
  <2>3. Placed(Mapped(r.base, h), hnd', strays)
    BY <1>0, <2>1, <2>2, PlacedNew
  <2> QED
    BY <1>5, <2>3 DEF MapInv
<1>6. ASSUME NEW f, NEW ic, NEW dv, NEW ls, Owned(fs, hnd, f, ic, dv, ls)
      PROVE  Owned(gs, [hnd EXCEPT ![h] = r], f, ic, dv, ls)
  <2> DEFINE hs == [hnd EXCEPT ![h] = r]
  <2>1. /\ hs[h].share_fd = d /\ hs[h].share_attr_fd = hnd[h].share_attr_fd
        /\ \A g \in Handles : g # h => hs[g] = hnd[g]
    BY <1>0
  <2> HIDE DEF hs
  <2>2. Owned(gs, hs, f, ic, dv, ls)
    BY <1>0, <1>1, <1>6, <2>1, OwnedMemory
  <2> QED
    BY <2>2 DEF hs
<1>7. CASE \E x \in Lowest(gs) : /\ files' = Open(gs, x, Attributes(h))
                                 /\ hnd' = [hnd EXCEPT ![h] = [r EXCEPT !.share_attr_fd = x]]
                                 /\ mapping' = Mapped(r.base, h)
  <2>1. PICK x \in Lowest(gs) : /\ files' = Open(gs, x, Attributes(h))
                                /\ hnd' = [hnd EXCEPT ![h] = [r EXCEPT !.share_attr_fd = x]]
                                /\ mapping' = Mapped(r.base, h)
    BY <1>7
  <2>2. x \in Descriptors /\ gs[x] = CLOSED /\ x \in Numbers
    BY LowestIsFree DEF Numbers
  <2>3. /\ files' \in [Descriptors -> Files]
        /\ \A e \in Descriptors : files'[e] = IF e = x THEN Attributes(h) ELSE gs[e]
    <3>1. Attributes(h) \in Files
      BY FilesAre
    <3>2. /\ Open(gs, x, Attributes(h)) \in [Descriptors -> Files]
          /\ \A e \in Descriptors :
                Open(gs, x, Attributes(h))[e] = IF e = x THEN Attributes(h) ELSE gs[e]
      BY <1>1, <2>2, <3>1, OpenIs
    <3> QED
      BY <2>1, <3>2
  <2>4. ASSUME NEW f, NEW ic, NEW dv, NEW ls, Owned(fs, hnd, f, ic, dv, ls)
        PROVE  Owned(files', hnd', f, ic, dv, ls)
    <3> DEFINE hs == [hnd EXCEPT ![h] = r]
    <3>1. hs \in [Handles -> Objects] /\ hs[h].share_attr_fd = -1
      BY <1>0
    <3>2. /\ hnd'[h] = [r EXCEPT !.share_attr_fd = x]
          /\ \A g \in Handles : g # h => hnd'[g] = hs[g]
      BY <1>0, <2>1
    <3>3. hnd'[h].share_attr_fd = x /\ hnd'[h].share_fd = hs[h].share_fd
      BY <1>0, <3>2 DEF Objects
    <3>4. Owned(gs, hs, f, ic, dv, ls)
      BY <1>6, <2>4
    <3> HIDE DEF hs
    <3>5. \A e \in Descriptors : files'[e] = IF e = x THEN Attributes(h) ELSE gs[e]
      BY <2>3
    <3>6. \A g \in Handles : g # h => hnd'[g] = hs[g]
      BY <3>2
    <3>7. x \in Descriptors /\ gs[x] = CLOSED
      BY <2>2
    <3> QED
      BY <3>1, <3>3, <3>4, <3>5, <3>6, <3>7, OwnedAttributes
  <2> QED
    BY <1>3, <1>5, <2>1, <2>2, <2>3, <2>4
<1>8. CASE hwFb /\ files' = gs /\ hnd' = [hnd EXCEPT ![h] = r] /\ mapping' = Mapped(r.base, h)
  <2>1. -1 \in Numbers
    BY DEF Numbers
  <2> QED
    BY <1>1, <1>3, <1>4, <1>5, <1>6, <1>8, <2>1
<1>9. CASE ~hwFb /\ alloc_backend_alloc_free(r, gs, Mapped(r.base, h)) /\ UNCHANGED hnd
  <2>1. files' = Close(gs, d) /\ mapping' = mapping
    BY <1>9, UnmappedAgain DEF alloc_backend_alloc_free
  <2>2. files' = fs
    BY <1>0, <1>1, <2>1, CloseIs
  <2>3. Placed(mapping', hnd', strays)
    BY <1>9, <2>1 DEF MapInv
  <2> QED
    BY <1>9, <2>1, <2>2, <2>3 DEF TypeOK
<1> QED
  BY <1>2, <1>7, <1>8, <1>9 DEF gralloc_buffer_attr_allocate

\* A new buffer of ION takes two descriptors and an address, or leaves all as it was.
LEMMA BackendAllocGives ==
    ASSUME TypeOK, MapInv, NEW h \in Handles, hnd[h] = NoObject,
           NEW fs \in [Descriptors -> Files], NEW hwFb \in BOOLEAN,
           alloc_backend_alloc(h, fs, hwFb)
    PROVE  /\ files' \in [Descriptors -> Files]
           /\ mapping' \in [Addresses -> Handles \cup {NoHandle}]
           /\ \/ hnd' = hnd
              \/ \E r \in Objects : hnd' = [hnd EXCEPT ![h] = r] /\ r.kind = "ion"
           /\ Placed(mapping', hnd', strays)
           /\ \A f, ic, dv, ls :
                  Owned(fs, hnd, f, ic, dv, ls) => Owned(files', hnd', f, ic, dv, ls)
<1>1. PICK d \in Lowest(fs), a \in Free \cup {NULL} :
          gralloc_buffer_attr_allocate(h,
              [NoObject EXCEPT !.kind = "ion", !.base = a, !.share_fd = d],
              Open(fs, d, Memory(h)), hwFb)
  BY DEF alloc_backend_alloc
<1> DEFINE r == [NoObject EXCEPT !.kind = "ion", !.base = a, !.share_fd = d]
<1>2. /\ r \in Objects /\ r.kind = "ion" /\ r.share_fd = d /\ r.share_attr_fd = -1
      /\ r.base \in Free \cup {NULL}
  <2>1. d \in Numbers /\ a \in Bases /\ "ion" \in Kinds
    BY LowestIsFree DEF Numbers, Bases, Kinds, Free
  <2> QED
    BY <2>1, NoObjectIs DEF Objects, NoObject
<1>3. gralloc_buffer_attr_allocate(h, r, Open(fs, d, Memory(h)), hwFb)
  BY <1>1
<1> HIDE DEF r
<1>4. ASSUME NEW n \in Numbers
      PROVE  [r EXCEPT !.share_attr_fd = n] \in Objects /\ [r EXCEPT !.share_attr_fd = n].kind = "ion"
  BY <1>2 DEF Objects
<1>5. /\ files' \in [Descriptors -> Files]
      /\ mapping' \in [Addresses -> Handles \cup {NoHandle}]
      /\ \/ hnd' = hnd
         \/ \E n \in Numbers : hnd' = [hnd EXCEPT ![h] = [r EXCEPT !.share_attr_fd = n]]
      /\ Placed(mapping', hnd', strays)
      /\ \A f, ic, dv, ls :
             Owned(fs, hnd, f, ic, dv, ls) => Owned(files', hnd', f, ic, dv, ls)
  BY <1>2, <1>3, AttrAllocateGives
<1> QED
  BY <1>4, <1>5
-----------------------------------------------------------------------------
(* What most operations leave alone. *)

\* Operations that keep the handles of the framebuffer, its mask, the threads' calls and
\* the buffer on the screen.
LEMMA ScreenKept ==
    ASSUME KindInv, SlotInv, AllocInv, FreeInv, PostedInv,
           Buffers(hnd') = Buffers(hnd), \A g \in Buffers(hnd) : hnd'[g] = hnd[g],
           UNCHANGED <<bufferMask, lostSlots, interfered, call, currentBuffer>>
    PROVE  KindInv' /\ SlotInv' /\ AllocInv' /\ FreeInv' /\ PostedInv'
<1>1. KindInv'
  BY DEF KindInv, Buffers
<1>2. {hnd'[h].slot : h \in Buffers(hnd')} = {hnd[h].slot : h \in Buffers(hnd)}
  OBVIOUS
<1>3. SlotInv'
  BY <1>2 DEF SlotInv
<1>4. AllocInv' /\ FreeInv' /\ PostedInv'
  BY DEF AllocInv, FreeInv, PostedInv
<1> QED
  BY <1>1, <1>3, <1>4

\* The same when no handle changes.
LEMMA ScreenUntouched ==
    ASSUME KindInv, SlotInv, AllocInv, FreeInv, PostedInv,
           UNCHANGED <<hnd, bufferMask, lostSlots, interfered, call, currentBuffer>>
    PROVE  KindInv' /\ SlotInv' /\ AllocInv' /\ FreeInv' /\ PostedInv'
<1>1. Buffers(hnd') = Buffers(hnd) /\ \A g \in Buffers(hnd) : hnd'[g] = hnd[g]
  OBVIOUS
<1> QED
  BY <1>1, ScreenKept

\* The same when one handle changes that is not of the framebuffer before or after.
LEMMA ScreenAside ==
    ASSUME TypeOK, KindInv, SlotInv, AllocInv, FreeInv, PostedInv,
           NEW h \in Handles, NEW r, hnd' = [hnd EXCEPT ![h] = r],
           hnd[h].kind # "framebuffer", r.kind # "framebuffer",
           UNCHANGED <<bufferMask, lostSlots, interfered, call, currentBuffer>>
    PROVE  KindInv' /\ SlotInv' /\ AllocInv' /\ FreeInv' /\ PostedInv'
<1>1. hnd'[h] = r /\ \A g \in Handles : g # h => hnd'[g] = hnd[g]
  BY DEF TypeOK
<1>2. Buffers(hnd') = Buffers(hnd) /\ \A g \in Buffers(hnd) : hnd'[g] = hnd[g]
  BY <1>1 DEF Buffers
<1> QED
  BY <1>2, ScreenKept

\* No new debt arises, and the handles that have one stay as they are.
LEMMA OweKept ==
    ASSUME OweInv, owed' \subseteq owed, UNCHANGED held,
           \A h \in owed' : hnd'[h].writeOwner = TRUE,
           owed' # {} => devices' > 0 /\ ~undercut'
    PROVE  OweInv'
BY DEF OweInv, BeingWritten
-----------------------------------------------------------------------------
(* Device objects. *)

\* The new client, and what opening it means for the descriptors.
LEMMA AllocDeviceOpenStep ==
    ASSUME IInv, alloc_device_open
    PROVE  IInv'
<1> USE DEF IInv
<1>0. /\ UNCHANGED <<mapping, hnd, fb, bufferMask, currentBuffer, lostSlots, interfered, call,
                     held, strays>>
  BY DEF alloc_device_open, screen
<1>1. KindInv' /\ SlotInv' /\ AllocInv' /\ FreeInv' /\ PostedInv'
  BY <1>0, ScreenUntouched
<1>2. MapInv'
  BY <1>0 DEF MapInv
<1>3. CASE alloc_backend_open_fails
  <2>1. /\ ion_client' = -1 /\ owed' = {}
        /\ lost' = IF ClientWorks THEN lost \cup {ion_client} ELSE lost
        /\ UNCHANGED <<files, gralloc_legacy_ion, devices>>
    BY <1>3 DEF alloc_backend_open_fails
  <2>2. undercut' \in BOOLEAN /\ (~undercut' => ~undercut /\ ~(devices > 0))
    BY <1>3 DEF alloc_backend_open_fails, TypeOK
  <2>3. lost' \in SUBSET Descriptors /\ ion_client' \in Numbers
    BY <2>1 DEF ClientWorks, TypeOK, Numbers
  <2>4. TypeOK'
    BY <1>0, <2>1, <2>2, <2>3 DEF TypeOK
  <2>5. FdInv'
    <3> SUFFICES ASSUME ~undercut' PROVE FdInv'
      BY DEF FdInv
    <3>1. devices' = 0 /\ Owned(files, hnd, fb, ion_client, devices, lost)
      BY <2>1, <2>2 DEF FdInv, TypeOK
    <3>2. lost \subseteq lost' /\ (ion_client \in Descriptors /\ files[ion_client] = ION => ion_client \in lost')
      BY <2>1 DEF ClientWorks
    <3>3. Owned(files, hnd, fb, ion_client', 0, lost')
      BY <3>1, <3>2, OwnedNoClient
    <3> QED
      BY <1>0, <2>1, <3>1, <3>3 DEF FdInv
  <2>6. DeviceInv' /\ OweInv'
    BY <2>1 DEF DeviceInv, OweInv
  <2> QED
    BY <1>1, <1>2, <2>4, <2>5, <2>6
<1>4. ASSUME NEW d \in Descriptors, alloc_backend_open(d), files' = Open(files, d, ION),
             devices' = devices + 1, UNCHANGED <<undercut, owed>>
      PROVE  IInv'
  <2>1. /\ d \in Lowest(files) /\ ion_client' = d /\ gralloc_legacy_ion' = LegacyIon
        /\ lost' = IF ClientWorks THEN lost \cup {ion_client} ELSE lost
    BY <1>4 DEF alloc_backend_open
  <2>2. /\ lost' \in SUBSET Descriptors /\ ion_client' \in Numbers
        /\ devices' \in Nat /\ devices' > 0 /\ gralloc_legacy_ion' \in BOOLEAN
    BY <1>4, <2>1, LegacyIonAssumption DEF ClientWorks, TypeOK, Numbers
  <2>3. /\ files' \in [Descriptors -> Files]
        /\ \A e \in Descriptors : files'[e] = IF e = d THEN ION ELSE files[e]
    <3>1. /\ Open(files, d, ION) \in [Descriptors -> Files]
          /\ \A e \in Descriptors : Open(files, d, ION)[e] = IF e = d THEN ION ELSE files[e]
      BY OpenIs, FilesAre DEF TypeOK
    <3> QED
      BY <1>4, <3>1
  <2>4. TypeOK'
    BY <1>0, <1>4, <2>2, <2>3 DEF TypeOK
  <2>5. FdInv'
    <3> SUFFICES ASSUME ~undercut PROVE Owned(files', hnd, fb, ion_client', devices', lost')
      BY <1>0, <1>4 DEF FdInv
    <3>1. Owned(files, hnd, fb, ion_client, devices, lost) /\ files[d] = CLOSED
      BY <2>1, LowestIsFree DEF FdInv
    <3>2. lost \subseteq lost' /\ (ion_client \in Descriptors /\ files[ion_client] = ION => ion_client \in lost')
      BY <2>1 DEF ClientWorks
    <3>3. Owned(files', hnd, fb, d, devices', lost')
      BY <2>3, <3>1, <3>2, OwnedClient
    <3> QED
      BY <2>1, <3>3
  <2>6. DeviceInv'
    BY <2>1 DEF DeviceInv
  <2>7. OweInv'
    BY <1>0, <1>4, <2>2 DEF OweInv, BeingWritten
  <2> QED
    BY <1>1, <1>2, <2>4, <2>5, <2>6, <2>7
<1> QED
  BY <1>3, <1>4 DEF alloc_device_open

\* The client of the one device is closed.  With another device alive nothing is said of
\* the descriptors any more.
LEMMA AllocDeviceCloseStep ==
    ASSUME IInv, AllocDeviceClose
    PROVE  IInv'
<1> USE DEF IInv
<1>0. /\ UNCHANGED <<mapping, hnd, fb, bufferMask, currentBuffer, lostSlots, interfered, call,
                     held, lost, strays, ion_client, gralloc_legacy_ion>>
      /\ devices > 0 /\ devices' = devices - 1 /\ owed' = {}
      /\ files' = Close(files, ion_client)
  BY DEF AllocDeviceClose, alloc_backend_close, screen
<1>1. KindInv' /\ SlotInv' /\ AllocInv' /\ FreeInv' /\ PostedInv'
  BY <1>0, ScreenUntouched
<1>2. undercut' \in BOOLEAN /\ (~undercut' => ~undercut /\ ~(devices > 1))
  BY DEF AllocDeviceClose, alloc_backend_close, TypeOK
<1>3. /\ files' \in [Descriptors -> Files]
      /\ \A e \in Descriptors : files'[e] = IF e = ion_client THEN CLOSED ELSE files[e]
  BY <1>0, CloseIs DEF TypeOK
<1>4. TypeOK'
  BY <1>0, <1>2, <1>3 DEF TypeOK
<1>5. FdInv'
  <2> SUFFICES ASSUME ~undercut' PROVE FdInv'
    BY DEF FdInv
  <2>1. devices = 1 /\ devices' = 0 /\ Owned(files, hnd, fb, ion_client, devices, lost)
    BY <1>0, <1>2 DEF FdInv, TypeOK
  <2>2. Owned(files', hnd, fb, ion_client, 0, lost)
    BY <1>3, <2>1, FilesDiffer DEF Owned
  <2> QED
    BY <1>0, <2>1, <2>2 DEF FdInv
<1>6. MapInv' /\ DeviceInv' /\ OweInv'
  BY <1>0 DEF MapInv, DeviceInv, OweInv, TypeOK
<1> QED
  BY <1>1, <1>4, <1>5, <1>6

\* A framebuffer device opens a client too, and the framebuffer if nobody has.
LEMMA FramebufferDeviceOpenStep ==
    ASSUME IInv, framebuffer_device_open
    PROVE  IInv'
<1> USE DEF IInv
<1>0. /\ UNCHANGED <<mapping, hnd, undercut, bufferMask, currentBuffer, lostSlots, interfered,
                     call, held, owed, strays>>
      /\ devices' = devices + 1
  BY DEF framebuffer_device_open, locking
<1>1. KindInv' /\ SlotInv' /\ AllocInv' /\ FreeInv' /\ PostedInv'
  BY <1>0, ScreenUntouched
<1>2. PICK d \in Descriptors : /\ alloc_backend_open(d)
                               /\ \E r \in init_frame_buffer_locked(Open(files, d, ION)) :
                                     fb' = r.fb /\ files' = r.files
  BY DEF framebuffer_device_open
<1> DEFINE fs == Open(files, d, ION)
<1>3. /\ fs \in [Descriptors -> Files]
      /\ \A e \in Descriptors : fs[e] = IF e = d THEN ION ELSE files[e]
  BY OpenIs, FilesAre DEF TypeOK
<1>4. PICK r \in init_frame_buffer_locked(fs) : fb' = r.fb /\ files' = r.files
  BY <1>2
<1> HIDE DEF fs
<1>5. /\ d \in Lowest(files) /\ ion_client' = d /\ gralloc_legacy_ion' = LegacyIon
      /\ lost' = IF ClientWorks THEN lost \cup {ion_client} ELSE lost
  BY <1>2 DEF alloc_backend_open
<1>6. /\ lost' \in SUBSET Descriptors /\ ion_client' \in Numbers
      /\ devices' \in Nat /\ devices' > 0 /\ gralloc_legacy_ion' \in BOOLEAN
  BY <1>0, <1>5, LegacyIonAssumption DEF ClientWorks, TypeOK, Numbers
<1>7. fb' \in Screens /\ files' \in [Descriptors -> Files]
  BY <1>3, <1>4, ScreenTyped DEF TypeOK
<1>8. TypeOK'
  BY <1>0, <1>6, <1>7 DEF TypeOK
<1>9. FdInv'
  <2> SUFFICES ASSUME ~undercut PROVE Owned(files', hnd, fb', ion_client', devices', lost')
    BY <1>0 DEF FdInv
  <2>1. Owned(files, hnd, fb, ion_client, devices, lost) /\ files[d] = CLOSED
    BY <1>5, LowestIsFree DEF FdInv
  <2>2. lost \subseteq lost' /\ (ion_client \in Descriptors /\ files[ion_client] = ION => ion_client \in lost')
    BY <1>5 DEF ClientWorks
  <2>3. Owned(fs, hnd, fb, d, devices', lost')
    BY <1>3, <2>1, <2>2, OwnedClient
  <2>4. Owned(r.files, hnd, r.fb, d, devices', lost')
    BY <1>3, <2>3, OwnedScreen DEF TypeOK
  <2> QED
    BY <1>4, <1>5, <2>4
<1>10. MapInv' /\ DeviceInv'
  BY <1>0, <1>5 DEF MapInv, DeviceInv
<1>11. OweInv'
  BY <1>0, <1>6 DEF OweInv, BeingWritten
<1> QED
  BY <1>1, <1>8, <1>9, <1>10, <1>11

\* When its framebuffer cannot be opened, its client is closed again.
LEMMA FramebufferDeviceFailsStep ==
    ASSUME IInv, FramebufferDeviceFails
    PROVE  IInv'
<1> USE DEF IInv
<1>0. /\ UNCHANGED <<mapping, hnd, devices, fb, bufferMask, currentBuffer, lostSlots, interfered,
                     call, held, strays>>
      /\ gralloc_legacy_ion' = LegacyIon /\ owed' = {}
  BY DEF FramebufferDeviceFails, screen
<1>1. KindInv' /\ SlotInv' /\ AllocInv' /\ FreeInv' /\ PostedInv'
  BY <1>0, ScreenUntouched
<1>2. undercut' \in BOOLEAN /\ (~undercut' => ~undercut /\ ~(devices > 0))
  BY DEF FramebufferDeviceFails, TypeOK
<1>3a. PICK d \in Lowest(files) :
          \E left \in InitFailures(Open(files, d, ION)) :
              /\ files' = [e \in Descriptors |-> IF e \in left THEN FBDEV ELSE files[e]]
              /\ ion_client' = d
              /\ lost' = lost \cup left \cup IF ClientWorks THEN {ion_client} ELSE {}
  BY DEF FramebufferDeviceFails
<1>3. PICK left \in InitFailures(Open(files, d, ION)) :
          /\ files' = [e \in Descriptors |-> IF e \in left THEN FBDEV ELSE files[e]]
          /\ ion_client' = d
          /\ lost' = lost \cup left \cup IF ClientWorks THEN {ion_client} ELSE {}
  BY <1>3a
<1>4. d \in Descriptors /\ files[d] = CLOSED
  BY LowestIsFree
<1>5. left \in SUBSET Descriptors /\ \A e \in left : files[e] = CLOSED
  <2>1. left = {} \/ \E x \in Lowest(Open(files, d, ION)) : left = {x}
    BY <1>3 DEF InitFailures
  <2>2. ASSUME NEW x \in Lowest(Open(files, d, ION)), left = {x}
        PROVE  x \in Descriptors /\ files[x] = CLOSED
    <3>1. x \in Descriptors /\ Open(files, d, ION)[x] = CLOSED
      BY LowestIsFree
    <3> QED
      BY <1>4, <3>1, OpenIs, FilesAre, FilesDiffer DEF TypeOK
  <2> QED
    BY <2>1, <2>2
<1>6. /\ files' \in [Descriptors -> Files]
      /\ \A e \in Descriptors : files'[e] = IF e \in left THEN FBDEV ELSE files[e]
  BY <1>3, FilesAre DEF TypeOK
<1>7. /\ lost' \in SUBSET Descriptors /\ ion_client' \in Numbers /\ gralloc_legacy_ion' \in BOOLEAN
  BY <1>0, <1>3, <1>4, <1>5, LegacyIonAssumption DEF ClientWorks, TypeOK, Numbers
<1>8. TypeOK'
  BY <1>0, <1>2, <1>6, <1>7 DEF TypeOK
<1>9. FdInv'
  <2> SUFFICES ASSUME ~undercut' PROVE FdInv'
    BY DEF FdInv
  <2>1. devices' = 0 /\ Owned(files, hnd, fb, ion_client, devices, lost)
    BY <1>0, <1>2 DEF FdInv, TypeOK
  <2>2. /\ lost \subseteq lost'
        /\ ion_client \in Descriptors /\ files[ion_client] = ION => ion_client \in lost'
        /\ lost' \cup left \subseteq lost'
    BY <1>3 DEF ClientWorks
  <2>3. Owned(files, hnd, fb, d, 0, lost')
    BY <2>1, <2>2, OwnedNoClient
  <2>4. Owned(files', hnd, fb, d, 0, lost')
    BY <1>5, <1>6, <2>2, <2>3, OwnedLoses
  <2> QED
    BY <1>0, <1>3, <2>1, <2>4 DEF FdInv
<1>10. MapInv' /\ DeviceInv' /\ OweInv'
  BY <1>0 DEF MapInv, DeviceInv, OweInv
<1> QED
  BY <1>1, <1>8, <1>9, <1>10
-----------------------------------------------------------------------------
(* Buffers. *)

\* A handle that was free becomes a buffer of ION, or not.
LEMMA NewIonBuffer ==
    ASSUME IInv, NEW h \in Handles, hnd[h] = NoObject,
           \/ hnd' = hnd
           \/ \E r \in Objects : hnd' = [hnd EXCEPT ![h] = r] /\ r.kind = "ion",
           UNCHANGED <<bufferMask, lostSlots, interfered, call, currentBuffer, held, owed,
                       devices, undercut>>
    PROVE  /\ hnd' \in [Handles -> Objects]
           /\ KindInv' /\ SlotInv' /\ AllocInv' /\ FreeInv' /\ PostedInv' /\ OweInv'
<1> USE DEF IInv
<1>1. CASE hnd' = hnd
  <2>1. KindInv' /\ SlotInv' /\ AllocInv' /\ FreeInv' /\ PostedInv'
    BY <1>1, ScreenUntouched
  <2>2. OweInv'
    BY <1>1 DEF OweInv, BeingWritten
  <2> QED
    BY <1>1, <2>1, <2>2 DEF TypeOK
<1>2. ASSUME NEW r \in Objects, hnd' = [hnd EXCEPT ![h] = r], r.kind = "ion"
      PROVE  /\ hnd' \in [Handles -> Objects]
             /\ KindInv' /\ SlotInv' /\ AllocInv' /\ FreeInv' /\ PostedInv' /\ OweInv'
  <2>1. hnd[h].kind # "framebuffer" /\ r.kind # "framebuffer" /\ hnd[h].writeOwner = FALSE
    BY <1>2, NoObjectIs
  <2>2. KindInv' /\ SlotInv' /\ AllocInv' /\ FreeInv' /\ PostedInv'
    BY <1>2, <2>1, ScreenAside
  <2>3. \A g \in owed : g # h /\ g \in Handles
    BY <2>1 DEF OweInv, TypeOK
  <2>4. /\ hnd' \in [Handles -> Objects]
        /\ \A g \in Handles : g # h => hnd'[g] = hnd[g]
    BY <1>2 DEF TypeOK
  <2>5. OweInv'
    BY <2>3, <2>4 DEF OweInv, BeingWritten
  <2> QED
    BY <2>2, <2>4, <2>5
<1> QED
  BY <1>1, <1>2

LEMMA AllocDeviceAllocStep ==
    ASSUME IInv, NEW t \in Threads, NEW h \in Handles, alloc_device_alloc(t, h)
    PROVE  IInv'
<1> USE DEF IInv
<1>0. /\ hnd[h] = NoObject /\ alloc_backend_alloc(h, files, FALSE)
      /\ UNCHANGED <<ion_client, gralloc_legacy_ion, devices, undercut, fb, bufferMask,
                     currentBuffer, lostSlots, interfered, call, held, owed, lost, strays>>
  BY DEF alloc_device_alloc, module, screen, locking
<1>1. /\ files' \in [Descriptors -> Files]
      /\ mapping' \in [Addresses -> Handles \cup {NoHandle}]
      /\ \/ hnd' = hnd
         \/ \E r \in Objects : hnd' = [hnd EXCEPT ![h] = r] /\ r.kind = "ion"
      /\ Placed(mapping', hnd', strays)
      /\ \A f, ic, dv, ls :
             Owned(files, hnd, f, ic, dv, ls) => Owned(files', hnd', f, ic, dv, ls)
  BY <1>0, BackendAllocGives DEF TypeOK
<1>2. /\ hnd' \in [Handles -> Objects]
      /\ KindInv' /\ SlotInv' /\ AllocInv' /\ FreeInv' /\ PostedInv' /\ OweInv'
  BY <1>0, <1>1, NewIonBuffer
<1>3. TypeOK'
  BY <1>0, <1>1, <1>2 DEF TypeOK
<1>4. FdInv' /\ MapInv' /\ DeviceInv'
  BY <1>0, <1>1 DEF FdInv, MapInv, DeviceInv
<1> QED
  BY <1>2, <1>3, <1>4

\* What deleting a handle does to the rest.
LEMMA ForgetGives ==
    ASSUME IInv, NEW h \in Handles, Forget(h), hnd[h].kind # "framebuffer",
           UNCHANGED <<bufferMask, lostSlots, interfered, call, currentBuffer, devices, undercut>>
    PROVE  /\ hnd' \in [Handles -> Objects] /\ hnd'[h] = NoObject
           /\ \A g \in Handles : g # h => hnd'[g] = hnd[g]
           /\ owed' \in SUBSET Handles /\ UNCHANGED held
           /\ KindInv' /\ SlotInv' /\ AllocInv' /\ FreeInv' /\ PostedInv' /\ OweInv'
<1> USE DEF IInv
<1>1. hnd' = [hnd EXCEPT ![h] = NoObject] /\ owed' = owed \ {h} /\ UNCHANGED held
  BY DEF Forget
<1>2. /\ hnd' \in [Handles -> Objects] /\ hnd'[h] = NoObject
      /\ \A g \in Handles : g # h => hnd'[g] = hnd[g]
  BY <1>1, NoObjectIs DEF TypeOK
<1>3. KindInv' /\ SlotInv' /\ AllocInv' /\ FreeInv' /\ PostedInv'
  BY <1>1, NoObjectIs, ScreenAside
<1>4. OweInv'
  BY <1>1, <1>2 DEF OweInv, BeingWritten, TypeOK
<1> QED
  BY <1>1, <1>2, <1>3, <1>4 DEF TypeOK

LEMMA AllocDeviceFreeStep ==
    ASSUME IInv, NEW t \in Threads, NEW h \in Handles, alloc_device_free(t, h)
    PROVE  IInv'
<1> USE DEF IInv
<1>0. /\ hnd[h].kind = "ion" /\ Forget(h)
      /\ files' = Close(Close(files, hnd[h].share_attr_fd), hnd[h].share_fd)
      /\ mapping' = Unmapped(mapping, hnd[h].base)
      /\ UNCHANGED <<ion_client, gralloc_legacy_ion, devices, undercut, fb, bufferMask,
                     currentBuffer, lostSlots, interfered, call, lost, strays>>
  BY DEF alloc_device_free, alloc_backend_alloc_free, module, screen
<1>1. /\ hnd' \in [Handles -> Objects] /\ hnd'[h] = NoObject
      /\ \A g \in Handles : g # h => hnd'[g] = hnd[g]
      /\ owed' \in SUBSET Handles /\ UNCHANGED held
      /\ KindInv' /\ SlotInv' /\ AllocInv' /\ FreeInv' /\ PostedInv' /\ OweInv'
  BY <1>0, ForgetGives
<1>2. /\ files' \in [Descriptors -> Files]
      /\ \A e \in Descriptors :
            files'[e] = IF e \in {hnd[h].share_fd, hnd[h].share_attr_fd} THEN CLOSED ELSE files[e]
  BY <1>0, CloseIs DEF TypeOK
<1>3. mapping' \in [Addresses -> Handles \cup {NoHandle}]
  BY <1>0, UnmappedIs DEF TypeOK
<1>4. TypeOK'
  BY <1>0, <1>1, <1>2, <1>3 DEF TypeOK
<1>5. FdInv'
  <2> SUFFICES ASSUME ~undercut PROVE Owned(files', hnd', fb, ion_client, devices, lost)
    BY <1>0 DEF FdInv
  <2>1. Owned(files, hnd, fb, ion_client, devices, lost) /\ hnd \in [Handles -> Objects]
    BY DEF FdInv, TypeOK
  <2>2. hnd'[h].share_fd = -1 /\ hnd'[h].share_attr_fd = -1
    BY <1>1, NoObjectIs
  <2> DEFINE C == {hnd[h].share_fd, hnd[h].share_attr_fd}
  <2>3. /\ C \subseteq {hnd[h].share_fd, hnd[h].share_attr_fd}
        /\ hnd[h].share_fd \in C /\ hnd[h].share_attr_fd \in C
        /\ \A e \in Descriptors : files'[e] = IF e \in C THEN CLOSED ELSE files[e]
    BY <1>2
  <2> HIDE DEF C
  <2> QED
    BY <1>1, <2>1, <2>2, <2>3, OwnedDrops
<1>6. MapInv'
  <2>1. hnd'[h].base \notin Addresses
    BY <1>1, NoObjectIs, NothingNamed
  <2> QED
    BY <1>0, <1>1, <2>1, PlacedGone DEF MapInv
<1>7. DeviceInv'
  BY <1>0 DEF DeviceInv
<1> QED
  BY <1>1, <1>4, <1>5, <1>6, <1>7

\* The two descriptors of a handle that arrives.
LEMMA ImportStep ==
    ASSUME IInv, NEW h \in Handles, Import(h)
    PROVE  IInv'
<1> USE DEF IInv
<1>0. /\ hnd[h] = NoObject
      /\ UNCHANGED <<mapping, ion_client, gralloc_legacy_ion, devices, undercut, fb, bufferMask,
                     currentBuffer, lostSlots, interfered, call, held, owed, lost, strays>>
  BY DEF Import, module, screen, locking
<1>1. PICK d \in Descriptors, e \in Descriptors :
          /\ d \in Lowest(files) /\ e \in Lowest(Open(files, d, Memory(h)))
          /\ files' = Open(Open(files, d, Memory(h)), e, Attributes(h))
          /\ hnd' = [hnd EXCEPT ![h] = [NoObject EXCEPT !.kind = "clone", !.base = FOREIGN,
                                           !.share_fd = d, !.share_attr_fd = e]]
  BY DEF Import
<1>a. d \in Descriptors /\ e \in Descriptors
  BY <1>1
<1> DEFINE gs == Open(files, d, Memory(h))
<1> DEFINE r == [NoObject EXCEPT !.kind = "clone", !.base = FOREIGN, !.share_fd = d,
                                 !.share_attr_fd = e]
<1> DEFINE hs == [hnd EXCEPT ![h] = [NoObject EXCEPT !.share_fd = d]]
<1>2. /\ gs \in [Descriptors -> Files]
      /\ \A x \in Descriptors : gs[x] = IF x = d THEN Memory(h) ELSE files[x]
  <2>1. files \in [Descriptors -> Files]
    BY DEF TypeOK
  <2> QED
    BY <2>1, OpenOwnIs
<1>3. files[d] = CLOSED /\ gs[e] = CLOSED
  BY <1>1, LowestIsFree
<1>4. /\ r \in Objects /\ r.kind = "clone" /\ r.base = FOREIGN /\ r.share_fd = d
      /\ r.share_attr_fd = e
  <2>1. "clone" \in Kinds /\ FOREIGN \in Bases /\ d \in Numbers /\ e \in Numbers
    BY DEF Kinds, Bases, Numbers
  <2> QED
    BY <2>1, NoObjectIs DEF Objects, NoObject
<1>5. hnd' = [hnd EXCEPT ![h] = r] /\ files' = Open(gs, e, Attributes(h))
  BY <1>1
<1>6. /\ hs \in [Handles -> Objects] /\ hs[h].share_fd = d /\ hs[h].share_attr_fd = -1
      /\ \A g \in Handles : g # h => hs[g] = hnd[g]
  <2>1. [NoObject EXCEPT !.share_fd = d] \in Objects
    BY NoObjectIs DEF Objects, Numbers
  <2> QED
    BY <2>1 DEF NoObject, TypeOK
<1> HIDE DEF gs, r, hs
<1>7. /\ files' \in [Descriptors -> Files]
      /\ \A x \in Descriptors : files'[x] = IF x = e THEN Attributes(h) ELSE gs[x]
  <2>2. /\ Open(gs, e, Attributes(h)) \in [Descriptors -> Files]
        /\ \A x \in Descriptors :
              Open(gs, e, Attributes(h))[x] = IF x = e THEN Attributes(h) ELSE gs[x]
    BY <1>a, <1>2, OpenOwnIs
  <2> QED
    BY <1>5, <2>2
<1>8. /\ hnd' \in [Handles -> Objects] /\ hnd'[h] = r
      /\ \A g \in Handles : g # h => hnd'[g] = hnd[g] /\ hnd'[g] = hs[g]
  BY <1>4, <1>5, <1>6 DEF TypeOK
<1>9. hnd[h].kind # "framebuffer" /\ hnd[h].share_fd = -1 /\ hnd[h].share_attr_fd = -1
      /\ hnd[h].base = NULL /\ hnd[h].writeOwner = FALSE
  BY <1>0, NoObjectIs
<1>10. KindInv' /\ SlotInv' /\ AllocInv' /\ FreeInv' /\ PostedInv'
  BY <1>0, <1>4, <1>5, <1>9, ScreenAside
<1>11. TypeOK'
  BY <1>0, <1>7, <1>8 DEF TypeOK
<1>12. FdInv'
  <2> SUFFICES ASSUME ~undercut PROVE Owned(files', hnd', fb, ion_client, devices, lost)
    BY <1>0 DEF FdInv
  <2>1. Owned(files, hnd, fb, ion_client, devices, lost) /\ hnd \in [Handles -> Objects]
    BY DEF FdInv, TypeOK
  <2>2. Owned(gs, hs, fb, ion_client, devices, lost)
    BY <1>2, <1>3, <1>6, <1>9, <2>1, OwnedMemory
  <2>3. hnd'[h].share_attr_fd = e /\ hnd'[h].share_fd = hs[h].share_fd
    BY <1>4, <1>6, <1>8
  <2>4. \A g \in Handles : g # h => hnd'[g] = hs[g]
    BY <1>8
  <2>5. \A x \in Descriptors : files'[x] = IF x = e THEN Attributes(h) ELSE gs[x]
    BY <1>7
  <2> QED
    BY <1>3, <1>6, <2>2, <2>3, <2>4, <2>5, OwnedAttributes
<1>13. MapInv'
  <2>1. \A g \in Handles :
            hnd'[g].base = hnd[g].base \/ {hnd'[g].base, hnd[g].base} \cap Addresses = {}
    BY <1>4, <1>8, <1>9, NothingNamed
  <2>2. Placed(mapping, hnd', strays)
    BY <2>1, PlacedSame DEF MapInv, TypeOK
  <2> QED
    BY <1>0, <2>2 DEF MapInv
<1>14. OweInv'
  BY <1>0, <1>8, <1>9 DEF OweInv, BeingWritten, TypeOK
<1>15. DeviceInv'
  BY <1>0 DEF DeviceInv
<1> QED
  BY <1>10, <1>11, <1>12, <1>13, <1>14, <1>15

LEMMA DeleteCloneStep ==
    ASSUME IInv, NEW h \in Handles, DeleteClone(h)
    PROVE  IInv'
<1> USE DEF IInv
<1>0. /\ hnd[h].kind = "clone" /\ hnd[h].base \notin Addresses /\ Forget(h)
      /\ files' = Close(Close(files, hnd[h].share_fd), hnd[h].share_attr_fd)
      /\ UNCHANGED <<mapping, ion_client, gralloc_legacy_ion, devices, undercut, fb, bufferMask,
                     currentBuffer, lostSlots, interfered, call, lost, strays>>
  BY DEF DeleteClone, module, screen
<1>1. /\ hnd' \in [Handles -> Objects] /\ hnd'[h] = NoObject
      /\ \A g \in Handles : g # h => hnd'[g] = hnd[g]
      /\ owed' \in SUBSET Handles /\ UNCHANGED held
      /\ KindInv' /\ SlotInv' /\ AllocInv' /\ FreeInv' /\ PostedInv' /\ OweInv'
  BY <1>0, ForgetGives
<1>2. /\ files' \in [Descriptors -> Files]
      /\ \A e \in Descriptors :
            files'[e] = IF e \in {hnd[h].share_fd, hnd[h].share_attr_fd} THEN CLOSED ELSE files[e]
  BY <1>0, CloseIs DEF TypeOK
<1>4. TypeOK'
  BY <1>0, <1>1, <1>2 DEF TypeOK
<1>5. FdInv'
  <2> SUFFICES ASSUME ~undercut PROVE Owned(files', hnd', fb, ion_client, devices, lost)
    BY <1>0 DEF FdInv
  <2>1. Owned(files, hnd, fb, ion_client, devices, lost) /\ hnd \in [Handles -> Objects]
    BY DEF FdInv, TypeOK
  <2>2. hnd'[h].share_fd = -1 /\ hnd'[h].share_attr_fd = -1
    BY <1>1, NoObjectIs
  <2> DEFINE C == {hnd[h].share_fd, hnd[h].share_attr_fd}
  <2>3. /\ C \subseteq {hnd[h].share_fd, hnd[h].share_attr_fd}
        /\ hnd[h].share_fd \in C /\ hnd[h].share_attr_fd \in C
        /\ \A e \in Descriptors : files'[e] = IF e \in C THEN CLOSED ELSE files[e]
    BY <1>2
  <2> HIDE DEF C
  <2> QED
    BY <1>1, <2>1, <2>2, <2>3, OwnedDrops
<1>6. MapInv'
  <2>1. \A g \in Handles :
            hnd'[g].base = hnd[g].base \/ {hnd'[g].base, hnd[g].base} \cap Addresses = {}
    BY <1>0, <1>1, NoObjectIs, NothingNamed
  <2>2. Placed(mapping, hnd', strays)
    BY <2>1, PlacedSame DEF MapInv, TypeOK
  <2> QED
    BY <1>0, <2>2 DEF MapInv
<1>7. DeviceInv'
  BY <1>0 DEF DeviceInv
<1> QED
  BY <1>1, <1>4, <1>5, <1>6, <1>7

\* No descriptor of a client is 0 or less.
LEMMA NotAClient ==
    ASSUME ion_client <= 0
    PROVE  ion_client \notin Descriptors
<1> SUFFICES ASSUME ion_client \in Descriptors PROVE FALSE
  OBVIOUS
<1>1. ion_client \in Nat \ {0}
  BY DescriptorsAssumption
<1> QED
  BY <1>1

\* Registering places the buffer anew; the address that it had, if it had one, is lost.
LEMMA RegisterStep ==
    ASSUME IInv, NEW t \in Threads, NEW h \in Handles, gralloc_backend_register(t, h)
    PROVE  IInv'
<1> USE DEF IInv
<1>0. /\ hnd[h].kind \in {"ion", "clone"}
      /\ strays' = strays \cup ({hnd[h].base} \cap Addresses)
      /\ UNCHANGED <<gralloc_legacy_ion, devices, undercut, fb, bufferMask, currentBuffer,
                     lostSlots, interfered, call, held, owed, lost>>
  BY DEF gralloc_backend_register, UsesIon, screen, locking
<1>1. PICK a \in Free : mapping' = Mapped(a, h) /\ hnd' = [hnd EXCEPT ![h].base = a]
  BY DEF gralloc_backend_register
<1>2. a \in Addresses /\ mapping[a] = NoHandle
  BY DEF Free
<1>3. /\ mapping' \in [Addresses -> Handles \cup {NoHandle}]
      /\ \A b \in Addresses : mapping'[b] = IF b = a THEN h ELSE mapping[b]
  BY <1>1, MappedIs DEF TypeOK
<1>4. hnd' = [hnd EXCEPT ![h] = [hnd[h] EXCEPT !.base = a]]
  BY <1>1
<1>5. /\ [hnd[h] EXCEPT !.base = a] \in Objects
      /\ [hnd[h] EXCEPT !.base = a].kind = hnd[h].kind
  BY <1>2 DEF TypeOK, Objects, Bases
<1>6. /\ hnd' \in [Handles -> Objects] /\ hnd'[h].base = a
      /\ \A g \in Handles : g # h => hnd'[g] = hnd[g]
      /\ \A g \in Handles : /\ hnd'[g].share_fd = hnd[g].share_fd
                            /\ hnd'[g].share_attr_fd = hnd[g].share_attr_fd
                            /\ hnd'[g].writeOwner = hnd[g].writeOwner
  BY <1>4, <1>5 DEF TypeOK, Objects
<1>7. KindInv' /\ SlotInv' /\ AllocInv' /\ FreeInv' /\ PostedInv'
  BY <1>0, <1>4, <1>5, ScreenAside
<1>8. /\ files' \in [Descriptors -> Files] /\ ion_client' \in Numbers \cup {0}
      /\ ~undercut => Owned(files', hnd, fb, ion_client', devices, lost)
  <2>1. CASE UNCHANGED <<files, ion_client>>
    BY <2>1 DEF TypeOK, FdInv
  <2>2. ASSUME ion_client <= 0, NEW d \in Lowest(files), ion_client' = d, files' = Open(files, d, ION)
        PROVE  /\ files' \in [Descriptors -> Files] /\ ion_client' \in Numbers
               /\ ~undercut => Owned(files', hnd, fb, ion_client', devices, lost)
    <3>1. d \in Descriptors /\ files[d] = CLOSED
      BY LowestIsFree
    <3>4. ion_client \notin Descriptors
      BY <2>2, NotAClient
    <3>2. /\ Open(files, d, ION) \in [Descriptors -> Files]
          /\ \A e \in Descriptors : Open(files, d, ION)[e] = IF e = d THEN ION ELSE files[e]
      BY <3>1, OpenIs, FilesAre DEF TypeOK
    <3>3. ASSUME ~undercut PROVE Owned(files', hnd, fb, d, devices, lost)
      <4>1. Owned(files, hnd, fb, ion_client, devices, lost)
        BY <3>3 DEF FdInv
      <4> QED
        BY <2>2, <3>1, <3>2, <3>4, <4>1, OwnedClient
    <3> QED
      BY <2>2, <3>1, <3>2, <3>3 DEF Numbers
  <2> QED
    BY <2>1, <2>2 DEF gralloc_backend_register
<1>9. strays' \in SUBSET Addresses
  BY <1>0 DEF TypeOK
<1>10. TypeOK'
  BY <1>0, <1>3, <1>6, <1>8, <1>9 DEF TypeOK
<1>11. FdInv'
  BY <1>0, <1>6, <1>8, OwnedSame DEF FdInv
<1>12. MapInv'
  <2>1. ASSUME NEW g \in Handles, hnd'[g].base \in Addresses
        PROVE  mapping'[hnd'[g].base] = g
    <3>1. CASE g = h
      BY <1>2, <1>3, <1>6, <3>1
    <3>2. CASE g # h
      <4>1. hnd[g].base \in Addresses /\ mapping[hnd[g].base] = g /\ hnd[g].base # a
        BY <1>2, <1>6, <2>1, <3>2, NothingNamed DEF MapInv, Placed
      <4> QED
        BY <1>3, <1>6, <3>2, <4>1
    <3> QED
      BY <3>1, <3>2
  <2>2. ASSUME NEW b \in Addresses \ strays', mapping'[b] # NoHandle
        PROVE  hnd'[mapping'[b]].base = b
    <3>1. CASE b = a
      BY <1>3, <1>6, <3>1
    <3>2. CASE b # a
      <4>1. /\ mapping'[b] = mapping[b] /\ mapping[b] \in Handles /\ hnd[mapping[b]].base = b
            /\ b # hnd[h].base
        BY <1>0, <1>3, <2>2, <3>2 DEF MapInv, Placed, TypeOK
      <4> QED
        BY <1>6, <4>1
    <3> QED
      BY <3>1, <3>2
  <2> QED
    BY <2>1, <2>2 DEF MapInv, Placed
<1>13. OweInv'
  BY <1>0, <1>6 DEF OweInv, BeingWritten, TypeOK
<1>14. DeviceInv'
  BY <1>0 DEF DeviceInv
<1> QED
  BY <1>7, <1>10, <1>11, <1>12, <1>13, <1>14

\* A registration that fails may leave a client behind, which is named.
LEMMA RegisterFailsStep ==
    ASSUME IInv, NEW t \in Threads, NEW h \in Handles, RegisterFails(t, h)
    PROVE  IInv'
<1> USE DEF IInv
<1>0. /\ ion_client <= 0
      /\ UNCHANGED <<mapping, hnd, gralloc_legacy_ion, devices, undercut, fb, bufferMask,
                     currentBuffer, lostSlots, interfered, call, held, owed, lost, strays>>
  BY DEF RegisterFails, screen, locking
<1>1. ion_client \notin Descriptors
  BY <1>0, NotAClient
<1>2. KindInv' /\ SlotInv' /\ AllocInv' /\ FreeInv' /\ PostedInv'
  BY <1>0, ScreenUntouched
<1>3. /\ files' \in [Descriptors -> Files] /\ ion_client' \in Numbers
      /\ ~undercut => Owned(files', hnd, fb, ion_client', devices, lost)
  <2>1. CASE ion_client' = -1 /\ UNCHANGED files
    <3>1. ASSUME ~undercut PROVE Owned(files', hnd, fb, ion_client', devices, lost)
      <4>1. Owned(files, hnd, fb, ion_client, devices, lost)
        BY <3>1 DEF FdInv
      <4>2. devices = 0
        BY <1>1, <4>1 DEF Owned, TypeOK
      <4> QED
        BY <1>1, <2>1, <4>1, <4>2, OwnedNoClient
    <3> QED
      BY <2>1, <3>1 DEF TypeOK, Numbers
  <2>2. ASSUME NEW d \in Lowest(files), ion_client' = d, files' = Open(files, d, ION)
        PROVE  /\ files' \in [Descriptors -> Files] /\ ion_client' \in Numbers
               /\ ~undercut => Owned(files', hnd, fb, ion_client', devices, lost)
    <3>1. d \in Descriptors /\ files[d] = CLOSED
      BY LowestIsFree
    <3>2. /\ Open(files, d, ION) \in [Descriptors -> Files]
          /\ \A e \in Descriptors : Open(files, d, ION)[e] = IF e = d THEN ION ELSE files[e]
      BY <3>1, OpenIs, FilesAre DEF TypeOK
    <3>3. ASSUME ~undercut PROVE Owned(files', hnd, fb, d, devices, lost)
      <4>1. Owned(files, hnd, fb, ion_client, devices, lost)
        BY <3>3 DEF FdInv
      <4> QED
        BY <1>1, <2>2, <3>1, <3>2, <4>1, OwnedClient
    <3> QED
      BY <2>2, <3>1, <3>2, <3>3 DEF Numbers
  <2> QED
    BY <2>1, <2>2 DEF RegisterFails
<1>4. TypeOK'
  BY <1>0, <1>3 DEF TypeOK
<1>5. FdInv' /\ MapInv' /\ DeviceInv'
  BY <1>0, <1>3 DEF FdInv, MapInv, DeviceInv
<1>6. OweInv'
  BY <1>0 DEF OweInv, BeingWritten
<1> QED
  BY <1>2, <1>4, <1>5, <1>6

\* Unregistering unmaps the memory and closes the attribute page, which no longer has a
\* name then.
LEMMA UnregisterStep ==
    ASSUME IInv, NEW t \in Threads, NEW h \in Handles, gralloc_unregister_buffer(t, h)
    PROVE  IInv'
<1> USE DEF IInv
<1>0. /\ hnd[h].kind \in {"ion", "clone"}
      /\ mapping' = Unmapped(mapping, hnd[h].base)
      /\ files' = Close(files, hnd[h].share_attr_fd)
      /\ owed' = owed \ {h}
      /\ UNCHANGED <<ion_client, gralloc_legacy_ion, devices, undercut, fb, bufferMask,
                     currentBuffer, lostSlots, interfered, call, held, lost, strays>>
  BY DEF gralloc_unregister_buffer, UsesIon, module, screen
<1> DEFINE r == [gralloc_buffer_attr_free(h) EXCEPT !.base = NULL, !.writeOwner = FALSE]
<1>1. hnd' = [hnd EXCEPT ![h] = r]
  BY DEF gralloc_unregister_buffer
<1>2. /\ r \in Objects /\ r.kind = hnd[h].kind /\ r.base = NULL /\ r.share_attr_fd = -1
      /\ r.share_fd = hnd[h].share_fd
  BY DEF gralloc_buffer_attr_free, TypeOK, Objects, Bases, Numbers
<1> HIDE DEF r
<1>3. /\ hnd' \in [Handles -> Objects] /\ hnd'[h] = r
      /\ \A g \in Handles : g # h => hnd'[g] = hnd[g]
  BY <1>1, <1>2 DEF TypeOK
<1>4. KindInv' /\ SlotInv' /\ AllocInv' /\ FreeInv' /\ PostedInv'
  BY <1>0, <1>1, <1>2, ScreenAside
<1>5. /\ files' \in [Descriptors -> Files]
      /\ \A e \in Descriptors : files'[e] = IF e = hnd[h].share_attr_fd THEN CLOSED ELSE files[e]
  BY <1>0, CloseIs DEF TypeOK
<1>6. mapping' \in [Addresses -> Handles \cup {NoHandle}]
  BY <1>0, UnmappedIs DEF TypeOK
<1>7. TypeOK'
  BY <1>0, <1>3, <1>5, <1>6 DEF TypeOK
<1>8. FdInv'
  <2> SUFFICES ASSUME ~undercut PROVE Owned(files', hnd', fb, ion_client, devices, lost)
    BY <1>0 DEF FdInv
  <2>1. Owned(files, hnd, fb, ion_client, devices, lost) /\ hnd \in [Handles -> Objects]
    BY DEF FdInv, TypeOK
  <2>2. CASE hnd[h].share_attr_fd \in Descriptors
    <3>1. hnd[h].share_fd # hnd[h].share_attr_fd
      BY <2>1, <2>2, FilesDiffer DEF Owned
    <3> DEFINE C == {hnd[h].share_attr_fd}
    <3>2. /\ C \subseteq {hnd[h].share_fd, hnd[h].share_attr_fd}
          /\ hnd[h].share_fd \notin C /\ hnd[h].share_attr_fd \in C
          /\ \A e \in Descriptors : files'[e] = IF e \in C THEN CLOSED ELSE files[e]
      BY <1>5, <3>1
    <3> HIDE DEF C
    <3>3. hnd'[h].share_fd = hnd[h].share_fd /\ hnd'[h].share_attr_fd = -1
      BY <1>2, <1>3
    <3> QED
      BY <1>3, <2>1, <3>2, <3>3, OwnedDrops
  <2>3. CASE hnd[h].share_attr_fd \notin Descriptors
    <3>1. files' = files
      BY <1>5, <2>3 DEF TypeOK
    <3>2. \A g \in Handles : hnd'[g].share_fd = hnd[g].share_fd
      BY <1>2, <1>3
    <3>3. \A g \in Handles : hnd'[g].share_attr_fd = hnd[g].share_attr_fd
      BY <1>2, <1>3, <2>1, <2>3 DEF Objects, Numbers
    <3> QED
      BY <2>1, <3>1, <3>2, <3>3, OwnedSame
  <2> QED
    BY <2>2, <2>3
<1>9. MapInv'
  <2>1. hnd'[h].base \notin Addresses
    BY <1>2, <1>3, NothingNamed
  <2> QED
    BY <1>0, <1>3, <2>1, PlacedGone DEF MapInv
<1>10. OweInv'
  BY <1>0, <1>3 DEF OweInv, BeingWritten, TypeOK
<1>11. DeviceInv'
  BY <1>0 DEF DeviceInv
<1> QED
  BY <1>4, <1>7, <1>8, <1>9, <1>10, <1>11
-----------------------------------------------------------------------------
(* Locks. *)

\* The usage of a lock is remembered in the handle, and a debt is taken on only by a
\* writer on a kernel that needs syncing, with a device there.
LEMMA LockStep ==
    ASSUME IInv, NEW t \in Threads, NEW h \in Handles, NEW write \in BOOLEAN,
           gralloc_lock(t, h, write)
    PROVE  IInv'
<1> USE DEF IInv
<1>0. /\ hnd[h].kind \in {"ion", "clone"} /\ held[t] = NoLock
      /\ hnd' = [hnd EXCEPT ![h].writeOwner = write]
      /\ held' = [held EXCEPT ![t] = [handle |-> h, write |-> write]]
      /\ UNCHANGED <<files, mapping, ion_client, gralloc_legacy_ion, devices, undercut, fb,
                     bufferMask, currentBuffer, lostSlots, interfered, call, lost, strays>>
  BY DEF gralloc_lock, UsesIon, module, screen
<1>1. owed' = IF ~write THEN owed \ {h}
              ELSE IF LegacyIon /\ devices > 0 /\ ~undercut THEN owed \cup {h} ELSE owed
  BY DEF gralloc_lock
<1> DEFINE r == [hnd[h] EXCEPT !.writeOwner = write]
<1>2. hnd' = [hnd EXCEPT ![h] = r]
  BY <1>0
<1>3. /\ r \in Objects /\ r.kind = hnd[h].kind /\ r.base = hnd[h].base
      /\ r.share_fd = hnd[h].share_fd /\ r.share_attr_fd = hnd[h].share_attr_fd
      /\ r.writeOwner = write
  BY DEF TypeOK, Objects
<1> HIDE DEF r
<1>4. /\ hnd' \in [Handles -> Objects] /\ hnd'[h] = r
      /\ \A g \in Handles : g # h => hnd'[g] = hnd[g]
  BY <1>2, <1>3 DEF TypeOK
<1>5. KindInv' /\ SlotInv' /\ AllocInv' /\ FreeInv' /\ PostedInv'
  BY <1>0, <1>2, <1>3, ScreenAside
<1>6. /\ held' \in [Threads -> Locks] /\ held'[t] = [handle |-> h, write |-> write]
      /\ \A u \in Threads : u # t => held'[u] = held[u]
  BY <1>0 DEF TypeOK, Locks
<1>7. owed' \in SUBSET Handles
  BY <1>1 DEF TypeOK
<1>8. TypeOK'
  BY <1>0, <1>4, <1>6, <1>7 DEF TypeOK
<1>9. FdInv'
  <2>1. /\ \A g \in Handles : hnd'[g].share_fd = hnd[g].share_fd
        /\ \A g \in Handles : hnd'[g].share_attr_fd = hnd[g].share_attr_fd
    BY <1>3, <1>4
  <2>2. Owned(files, hnd, fb, ion_client, devices, lost)
            => Owned(files, hnd', fb, ion_client, devices, lost)
    BY <2>1, OwnedSame
  <2> QED
    BY <1>0, <2>2 DEF FdInv
<1>10. MapInv'
  <2>1. \A g \in Handles : hnd'[g].base = hnd[g].base
    BY <1>3, <1>4
  <2>2. Placed(mapping, hnd', strays)
    BY <2>1, PlacedSame DEF MapInv, TypeOK
  <2> QED
    BY <1>0, <2>2 DEF MapInv
<1>11. OweInv'
  <2>1. ASSUME NEW g \in owed, BeingWritten(g) PROVE BeingWritten(g)'
    <3>1. PICK u \in Threads : held[u] = [handle |-> g, write |-> TRUE]
      BY <2>1 DEF BeingWritten
    <3>2. u # t
      BY <1>0, <3>1 DEF NoLock
    <3> QED
      BY <1>6, <3>1, <3>2 DEF BeingWritten
  <2>2. ASSUME NEW g \in owed', g # h
        PROVE  /\ BeingWritten(g)' /\ hnd'[g].writeOwner = TRUE
               /\ LegacyIon /\ devices' > 0 /\ ~undercut'
    <3>1. g \in owed /\ g \in Handles
      BY <1>1, <1>7, <2>2
    <3>2. BeingWritten(g) /\ hnd[g].writeOwner = TRUE /\ LegacyIon /\ devices > 0 /\ ~undercut
      BY <3>1 DEF OweInv
    <3> QED
      BY <1>0, <1>4, <2>1, <2>2, <3>1, <3>2
  <2>3. ASSUME h \in owed'
        PROVE  /\ BeingWritten(h)' /\ hnd'[h].writeOwner = TRUE
               /\ LegacyIon /\ devices' > 0 /\ ~undercut'
    <3>1. write = TRUE
      BY <1>1, <2>3
    <3>2. LegacyIon /\ devices > 0 /\ ~undercut
      BY <1>1, <2>3, <3>1 DEF OweInv
    <3>3. BeingWritten(h)'
      BY <1>6, <3>1 DEF BeingWritten
    <3> QED
      BY <1>0, <1>3, <1>4, <3>1, <3>2, <3>3
  <2> QED
    BY <2>2, <2>3 DEF OweInv
<1>12. DeviceInv'
  BY <1>0 DEF DeviceInv
<1> QED
  BY <1>5, <1>8, <1>9, <1>10, <1>11, <1>12

\* The last writer to unlock pays the debt: its lock is the one that the handle
\* remembers, the client of the device is open, and the device has asked the kernel.
LEMMA UnlockStep ==
    ASSUME IInv, NEW t \in Threads, gralloc_unlock(t)
    PROVE  IInv'
<1> USE DEF IInv
<1> DEFINE h == held[t].handle
           writing == \E u \in Threads \ {t} : held[u] = [handle |-> h, write |-> TRUE]
           synced == hnd[h].writeOwner /\ gralloc_backend_sync(h)
<1>0. /\ held' = [held EXCEPT ![t] = NoLock]
      /\ owed' = owed \ (IF synced /\ ~writing THEN {h} ELSE {})
      /\ UNCHANGED <<files, mapping, hnd, ion_client, gralloc_legacy_ion, devices, undercut, fb,
                     bufferMask, currentBuffer, lostSlots, interfered, call, lost, strays>>
  BY DEF gralloc_unlock, module, screen
<1>1. KindInv' /\ SlotInv' /\ AllocInv' /\ FreeInv' /\ PostedInv'
  BY <1>0, ScreenUntouched
<1>2. /\ held' \in [Threads -> Locks]
      /\ \A u \in Threads : u # t => held'[u] = held[u]
  BY <1>0 DEF TypeOK, Locks, NoLock
<1>3. owed' \in SUBSET Handles
  BY <1>0 DEF TypeOK
<1>4. TypeOK'
  BY <1>0, <1>2, <1>3 DEF TypeOK
<1>5. FdInv' /\ MapInv' /\ DeviceInv'
  BY <1>0 DEF FdInv, MapInv, DeviceInv
<1>6. ASSUME NEW g \in owed' PROVE BeingWritten(g)'
  <2>1. g \in owed
    BY <1>0, <1>6
  <2>2. PICK u \in Threads : held[u] = [handle |-> g, write |-> TRUE]
    BY <2>1 DEF OweInv, BeingWritten
  <2>3. CASE u # t
    BY <1>2, <2>2, <2>3 DEF BeingWritten
  <2>4. CASE u = t
    <3>1. h = g
      BY <2>2, <2>4
    <3>2. hnd[g].writeOwner = TRUE /\ LegacyIon /\ devices > 0 /\ ~undercut
      BY <2>1 DEF OweInv
    <3>3. gralloc_legacy_ion
      BY <3>2 DEF DeviceInv
    <3>4. ClientWorks
      BY <3>2 DEF FdInv, Owned, ClientWorks
    <3>5. synced
      BY <3>1, <3>2, <3>3, <3>4 DEF gralloc_backend_sync
    <3>6. writing
      BY <1>0, <1>6, <3>1, <3>5
    <3>7. PICK w \in Threads \ {t} : held[w] = [handle |-> g, write |-> TRUE]
      BY <3>1, <3>6
    <3> QED
      BY <1>2, <3>7 DEF BeingWritten
  <2> QED
    BY <2>3, <2>4
<1>7. OweInv'
  <2>1. owed' \subseteq owed
    BY <1>0
  <2> QED
    BY <1>0, <1>6, <2>1 DEF OweInv
<1> QED
  BY <1>1, <1>4, <1>5, <1>7
-----------------------------------------------------------------------------
(* Slots of the framebuffer. *)

\* A slot that is free, if the mask says that there is one.
LEMMA FreeSlotIs ==
    ASSUME NEW mask \in SUBSET Slots, mask # Slots
    PROVE  FreeSlot(mask) \in Slots \ mask
<1>1. Slots = {0, 1}
  BY DEF Slots, NUM_FB_BUFFERS
<1>2. \E i \in Slots \ mask : \A j \in Slots \ mask : i <= j
  <2>1. CASE 0 \notin mask
    BY <1>1, <2>1
  <2>2. CASE 0 \in mask
    <3>1. Slots \ mask = {1}
      BY <1>1, <2>2
    <3> QED
      BY <3>1
  <2> QED
    BY <2>1, <2>2
<1> QED
  BY <1>2 DEF FreeSlot

\* A thread that starts to allocate a slot is the only one.
LEMMA AllocSlotStep ==
    ASSUME IInv, NEW t \in Threads, AllocSlot(t)
    PROVE  IInv'
<1> USE DEF IInv
<1>0. /\ Resting(t) /\ Unlocked /\ bufferMask # Slots
      /\ call' = [call EXCEPT ![t] = [pc |-> "alloc", handle |-> NoHandle, mask |-> bufferMask]]
      /\ UNCHANGED <<mapping, hnd, ion_client, gralloc_legacy_ion, devices, undercut, bufferMask,
                     currentBuffer, lostSlots, interfered, held, owed, lost, strays>>
  BY DEF AllocSlot, module, locking
<1>1. PICK r \in init_frame_buffer_locked(files) : fb' = r.fb /\ files' = r.files
  BY DEF AllocSlot
<1>2. fb' \in Screens /\ files' \in [Descriptors -> Files]
  BY <1>1, ScreenTyped DEF TypeOK
<1>3. /\ call' \in [Threads -> Calls]
      /\ call'[t] = [pc |-> "alloc", handle |-> NoHandle, mask |-> bufferMask]
      /\ \A u \in Threads : u # t => call'[u] = call[u]
  BY <1>0 DEF TypeOK, Calls
<1>4. TypeOK'
  BY <1>0, <1>2, <1>3 DEF TypeOK
<1>5. FdInv'
  BY <1>0, <1>1, OwnedScreen DEF FdInv, TypeOK
<1>6. MapInv' /\ DeviceInv' /\ KindInv' /\ SlotInv' /\ PostedInv'
  BY <1>0 DEF MapInv, DeviceInv, KindInv, SlotInv, PostedInv
<1>7. AllocInv'
  BY <1>0, <1>3 DEF AllocInv, Unlocked
<1>8. FreeInv'
  BY <1>0, <1>3 DEF FreeInv
<1>9. OweInv'
  BY <1>0 DEF OweInv, BeingWritten
<1> QED
  BY <1>4, <1>5, <1>6, <1>7, <1>8, <1>9

LEMMA AllocSlotFailsStep ==
    ASSUME IInv, NEW t \in Threads, AllocSlotFails(t)
    PROVE  IInv'
<1> USE DEF IInv
<1>0. UNCHANGED <<mapping, hnd, ion_client, gralloc_legacy_ion, devices, undercut, fb, bufferMask,
                  currentBuffer, lostSlots, interfered, call, held, owed, strays>>
  BY DEF AllocSlotFails, module, screen, locking
<1>1. PICK left \in InitFailures(files) :
          /\ files' = [e \in Descriptors |-> IF e \in left THEN FBDEV ELSE files[e]]
          /\ lost' = lost \cup left
  BY DEF AllocSlotFails
<1>2. left \in SUBSET Descriptors /\ \A e \in left : files[e] = CLOSED
  <2>1. left = {} \/ \E x \in Lowest(files) : left = {x}
    BY <1>1 DEF InitFailures
  <2> QED
    BY <2>1, LowestIsFree
<1>3. /\ files' \in [Descriptors -> Files]
      /\ \A e \in Descriptors : files'[e] = IF e \in left THEN FBDEV ELSE files[e]
  BY <1>1, FilesAre DEF TypeOK
<1>4. lost' \in SUBSET Descriptors
  BY <1>1, <1>2 DEF TypeOK
<1>5. TypeOK'
  BY <1>0, <1>3, <1>4 DEF TypeOK
<1>6. FdInv'
  <2> SUFFICES ASSUME ~undercut PROVE Owned(files', hnd, fb, ion_client, devices, lost')
    BY <1>0 DEF FdInv
  <2>1. Owned(files, hnd, fb, ion_client, devices, lost)
    BY DEF FdInv
  <2>2. lost \cup left \subseteq lost'
    BY <1>1
  <2> QED
    BY <1>2, <1>3, <2>1, <2>2, OwnedLoses
<1>7. KindInv' /\ SlotInv' /\ AllocInv' /\ FreeInv' /\ PostedInv'
  BY <1>0, ScreenUntouched
<1>8. MapInv' /\ DeviceInv'
  BY <1>0 DEF MapInv, DeviceInv
<1>9. OweInv'
  BY <1>0 DEF OweInv, BeingWritten
<1> QED
  BY <1>5, <1>6, <1>7, <1>8, <1>9

\* The framebuffer may be opened and a buffer allocated in one call.
LEMMA AllocSingleBufferStep ==
    ASSUME IInv, NEW t \in Threads, NEW h \in Handles, AllocSingleBuffer(t, h)
    PROVE  IInv'
<1> USE DEF IInv
<1>0. /\ hnd[h] = NoObject
      /\ UNCHANGED <<ion_client, gralloc_legacy_ion, devices, undercut, bufferMask,
                     currentBuffer, lostSlots, interfered, call, held, owed, lost, strays>>
  BY DEF AllocSingleBuffer, module, locking
<1>1. PICK r \in init_frame_buffer_locked(files) :
          /\ fb' = r.fb
          /\ \/ alloc_backend_alloc(h, r.files, TRUE)
             \/ files' = r.files /\ UNCHANGED <<hnd, mapping>>
  BY DEF AllocSingleBuffer
<1>2. fb' \in Screens /\ r.files \in [Descriptors -> Files]
  BY <1>1, ScreenTyped DEF TypeOK
<1>3. /\ files' \in [Descriptors -> Files]
      /\ mapping' \in [Addresses -> Handles \cup {NoHandle}]
      /\ \/ hnd' = hnd
         \/ \E s \in Objects : hnd' = [hnd EXCEPT ![h] = s] /\ s.kind = "ion"
      /\ Placed(mapping', hnd', strays)
      /\ \A f, ic, dv, ls :
             Owned(r.files, hnd, f, ic, dv, ls) => Owned(files', hnd', f, ic, dv, ls)
  <2>1. CASE alloc_backend_alloc(h, r.files, TRUE)
    BY <1>0, <1>2, <2>1, BackendAllocGives
  <2>2. CASE files' = r.files /\ UNCHANGED <<hnd, mapping>>
    BY <1>2, <2>2 DEF TypeOK, MapInv
  <2> QED
    BY <1>1, <2>1, <2>2
<1>4. /\ hnd' \in [Handles -> Objects]
      /\ KindInv' /\ SlotInv' /\ AllocInv' /\ FreeInv' /\ PostedInv' /\ OweInv'
  BY <1>0, <1>3, NewIonBuffer
<1>5. TypeOK'
  BY <1>0, <1>2, <1>3, <1>4 DEF TypeOK
<1>6. FdInv'
  <2> SUFFICES ASSUME ~undercut PROVE Owned(files', hnd', fb', ion_client, devices, lost)
    BY <1>0 DEF FdInv
  <2>1. Owned(files, hnd, fb, ion_client, devices, lost) /\ files \in [Descriptors -> Files]
        /\ fb \in Screens
    BY DEF FdInv, TypeOK
  <2>2. Owned(r.files, hnd, r.fb, ion_client, devices, lost)
    BY <1>1, <2>1, OwnedScreen
  <2> QED
    BY <1>1, <1>3, <2>2
<1>7. MapInv' /\ DeviceInv'
  BY <1>0, <1>3 DEF MapInv, DeviceInv
<1> QED
  BY <1>4, <1>5, <1>6, <1>7

\* The thread takes the lowest slot of the mask that it has read, for a handle or, when
\* the export fails, for nobody.  The mask has not changed unless a free interfered.
LEMMA FinishAllocStep ==
    ASSUME IInv, NEW t \in Threads, NEW h \in Handles, FinishAlloc(t, h)
    PROVE  IInv'
<1> USE DEF IInv
<1> DEFINE s == FreeSlot(call[t].mask)
<1>0. /\ call[t].pc = "alloc" /\ hnd[h] = NoObject
      /\ bufferMask' = call[t].mask \cup {s}
      /\ call' = [call EXCEPT ![t] = Idle]
      /\ UNCHANGED <<ion_client, gralloc_legacy_ion, devices, undercut, fb, currentBuffer,
                     interfered, held, owed, lost, strays>>
  BY DEF FinishAlloc, module, locking
<1>1. /\ s \in Slots \ call[t].mask /\ call[t].mask \in SUBSET Slots
      /\ ~interfered => call[t].mask = bufferMask
  <2>1. call[t].mask \in SUBSET Slots /\ call[t].mask # Slots
    BY <1>0 DEF AllocInv, TypeOK, Calls
  <2> QED
    BY <1>0, <2>1, FreeSlotIs DEF AllocInv
<1>2. \/ /\ \E d \in Lowest(files) :
               gralloc_buffer_attr_allocate(h,
                   [NoObject EXCEPT !.kind = "framebuffer", !.share_fd = d, !.slot = s],
                   Open(files, d, Memory(h)), TRUE)
         /\ lostSlots' = lostSlots
      \/ /\ alloc_backend_alloc(h, files, TRUE)
         /\ lostSlots' = lostSlots \cup {s}
      \/ /\ lostSlots' = lostSlots \cup {s}
         /\ UNCHANGED <<files, hnd, mapping>>
  BY DEF FinishAlloc
<1> HIDE DEF s
<1>3. /\ files' \in [Descriptors -> Files]
      /\ mapping' \in [Addresses -> Handles \cup {NoHandle}]
      /\ \/ \E r \in Objects : /\ hnd' = [hnd EXCEPT ![h] = r] /\ lostSlots' = lostSlots
                               /\ r.kind = "framebuffer" /\ r.slot = s /\ r.base = NULL
                               /\ r.share_fd \in Descriptors
         \/ /\ hnd' = hnd \/ \E r \in Objects : hnd' = [hnd EXCEPT ![h] = r] /\ r.kind = "ion"
            /\ lostSlots' = lostSlots \cup {s}
      /\ Placed(mapping', hnd', strays)
      /\ \A f, ic, dv, ls :
             Owned(files, hnd, f, ic, dv, ls) => Owned(files', hnd', f, ic, dv, ls)
  <2>0. files \in [Descriptors -> Files]
    BY DEF TypeOK
  <2>1. CASE \E d \in Lowest(files) :
                gralloc_buffer_attr_allocate(h,
                    [NoObject EXCEPT !.kind = "framebuffer", !.share_fd = d, !.slot = s],
                    Open(files, d, Memory(h)), TRUE) /\ lostSlots' = lostSlots
    <3>1. PICK d \in Lowest(files) :
              gralloc_buffer_attr_allocate(h,
                  [NoObject EXCEPT !.kind = "framebuffer", !.share_fd = d, !.slot = s],
                  Open(files, d, Memory(h)), TRUE) /\ lostSlots' = lostSlots
      BY <2>1
    <3> DEFINE r == [NoObject EXCEPT !.kind = "framebuffer", !.share_fd = d, !.slot = s]
    <3>2. /\ r \in Objects /\ r.kind = "framebuffer" /\ r.slot = s /\ r.base = NULL
          /\ r.share_fd = d /\ r.share_attr_fd = -1
      <4>1. d \in Numbers /\ "framebuffer" \in Kinds /\ s \in Slots
        BY <1>1, LowestIsFree DEF Numbers, Kinds
      <4> QED
        BY <4>1, NoObjectIs DEF Objects, NoObject
    <3>3. gralloc_buffer_attr_allocate(h, r, Open(files, d, Memory(h)), TRUE)
      BY <3>1
    <3> HIDE DEF r
    <3>4. r.base \in Free \cup {NULL}
      BY <3>2
    <3>5. /\ files' \in [Descriptors -> Files]
          /\ mapping' \in [Addresses -> Handles \cup {NoHandle}]
          /\ \/ hnd' = hnd /\ ~TRUE
             \/ \E n \in Numbers : hnd' = [hnd EXCEPT ![h] = [r EXCEPT !.share_attr_fd = n]]
          /\ Placed(mapping', hnd', strays)
          /\ \A f, ic, dv, ls :
                 Owned(files, hnd, f, ic, dv, ls) => Owned(files', hnd', f, ic, dv, ls)
      <4>1. d \in Lowest(files) /\ TRUE \in BOOLEAN /\ TypeOK /\ MapInv /\ hnd[h] = NoObject
        BY <1>0, <3>1
      <4> QED
        BY <2>0, <3>2, <3>3, <3>4, <4>1, AttrAllocateGives
    <3>6. ASSUME NEW n \in Numbers
          PROVE  /\ [r EXCEPT !.share_attr_fd = n] \in Objects
                 /\ [r EXCEPT !.share_attr_fd = n].kind = "framebuffer"
                 /\ [r EXCEPT !.share_attr_fd = n].slot = s
                 /\ [r EXCEPT !.share_attr_fd = n].base = NULL
                 /\ [r EXCEPT !.share_attr_fd = n].share_fd \in Descriptors
      BY <3>2, LowestIsFree DEF Objects
    <3> QED
      BY <3>1, <3>5, <3>6
  <2>2. CASE alloc_backend_alloc(h, files, TRUE) /\ lostSlots' = lostSlots \cup {s}
    BY <1>0, <2>0, <2>2, BackendAllocGives
  <2>3. CASE lostSlots' = lostSlots \cup {s} /\ UNCHANGED <<files, hnd, mapping>>
    BY <2>3 DEF TypeOK, MapInv
  <2> QED
    BY <1>2, <2>1, <2>2, <2>3
<1>4. /\ call' \in [Threads -> Calls] /\ call'[t] = Idle
      /\ \A u \in Threads : u # t => call'[u] = call[u]
  BY <1>0 DEF TypeOK, Calls, Idle
<1>5. /\ hnd' \in [Handles -> Objects]
      /\ \A g \in Handles : g # h => hnd'[g] = hnd[g]
      /\ lostSlots' \in SUBSET Slots /\ bufferMask' \in SUBSET Slots
  BY <1>0, <1>1, <1>3 DEF TypeOK
<1>6. hnd[h].kind = "none" /\ hnd[h].writeOwner = FALSE
  BY <1>0, NoObjectIs
<1>7. TypeOK'
  BY <1>0, <1>3, <1>4, <1>5 DEF TypeOK
<1>8. FdInv' /\ MapInv' /\ DeviceInv'
  BY <1>0, <1>3 DEF FdInv, MapInv, DeviceInv
<1>9. KindInv'
  BY <1>3, <1>5, <1>6 DEF KindInv, TypeOK
<1>10. SlotInv'
  <2> SUFFICES ASSUME ~interfered PROVE SlotInv'
    BY <1>0 DEF SlotInv
  <2>1. bufferMask' = bufferMask \cup {s} /\ s \notin bufferMask
    BY <1>0, <1>1
  <2>2. /\ bufferMask = {hnd[g].slot : g \in Buffers(hnd)} \cup lostSlots
        /\ \A g, k \in Buffers(hnd) : hnd[g].slot = hnd[k].slot => g = k
        /\ \A g \in Buffers(hnd) : hnd[g].slot \notin lostSlots
    BY DEF SlotInv
  <2>3. h \notin Buffers(hnd)
    BY <1>6 DEF Buffers
  <2>4. CASE \E r \in Objects : /\ hnd' = [hnd EXCEPT ![h] = r] /\ lostSlots' = lostSlots
                                /\ r.kind = "framebuffer" /\ r.slot = s /\ r.base = NULL
                                /\ r.share_fd \in Descriptors
    <3>1. hnd'[h].kind = "framebuffer" /\ hnd'[h].slot = s /\ lostSlots' = lostSlots
      BY <2>4 DEF TypeOK
    <3>2. /\ Buffers(hnd') = Buffers(hnd) \cup {h}
          /\ \A g \in Buffers(hnd) : hnd'[g] = hnd[g]
      BY <1>5, <2>3, <3>1 DEF Buffers
    <3>3. {hnd'[g].slot : g \in Buffers(hnd')} = {hnd[g].slot : g \in Buffers(hnd)} \cup {s}
      BY <3>1, <3>2
    <3>4. \A g \in Buffers(hnd) : hnd[g].slot # s
      BY <2>1, <2>2
    <3>5. \A g, k \in Buffers(hnd') : hnd'[g].slot = hnd'[k].slot => g = k
      BY <2>2, <3>1, <3>2, <3>4
    <3>6. \A g \in Buffers(hnd') : hnd'[g].slot \notin lostSlots'
      BY <2>1, <2>2, <3>1, <3>2
    <3> QED
      BY <2>1, <2>2, <3>1, <3>3, <3>5, <3>6 DEF SlotInv
  <2>5. CASE /\ hnd' = hnd \/ \E r \in Objects : hnd' = [hnd EXCEPT ![h] = r] /\ r.kind = "ion"
             /\ lostSlots' = lostSlots \cup {s}
    <3>1. hnd'[h].kind # "framebuffer"
      BY <1>6, <2>5 DEF TypeOK
    <3>2. /\ Buffers(hnd') = Buffers(hnd)
          /\ \A g \in Buffers(hnd) : hnd'[g] = hnd[g]
      BY <1>5, <2>3, <3>1 DEF Buffers
    <3>3. {hnd'[g].slot : g \in Buffers(hnd')} = {hnd[g].slot : g \in Buffers(hnd)}
      BY <3>2
    <3>4. \A g \in Buffers(hnd) : hnd[g].slot # s
      BY <2>1, <2>2
    <3>5. \A g, k \in Buffers(hnd') : hnd'[g].slot = hnd'[k].slot => g = k
      BY <2>2, <3>2
    <3>6. \A g \in Buffers(hnd') : hnd'[g].slot \notin lostSlots'
      BY <2>2, <2>5, <3>2, <3>4
    <3> QED
      BY <2>1, <2>2, <2>5, <3>3, <3>5, <3>6 DEF SlotInv
  <2> QED
    BY <1>3, <2>4, <2>5
<1>11. \A g \in Buffers(hnd) : g \in Buffers(hnd')
  BY <1>5, <1>6 DEF Buffers
<1>12. AllocInv'
  <2>1. \A u \in Threads : call'[u].pc # "alloc"
    BY <1>0, <1>4 DEF AllocInv, Idle
  <2> QED
    BY <2>1 DEF AllocInv
<1>13. FreeInv' /\ PostedInv'
  BY <1>0, <1>4, <1>11 DEF FreeInv, PostedInv, Idle
<1>14. OweInv'
  BY <1>0, <1>5, <1>6 DEF OweInv, BeingWritten, TypeOK
<1> QED
  BY <1>7, <1>8, <1>9, <1>10, <1>12, <1>13, <1>14

\* A free begins when nobody has the buffer, on the screen or in a call.
LEMMA BeginFreeStep ==
    ASSUME IInv, NEW t \in Threads, NEW h \in Handles, BeginFree(t, h)
    PROVE  IInv'
<1> USE DEF IInv
<1>0. /\ h \in Buffers(hnd) /\ currentBuffer # h
      /\ \A u \in Threads : call[u].handle # h
      /\ call' = [call EXCEPT ![t] = [pc |-> "free", handle |-> h, mask |-> bufferMask]]
      /\ UNCHANGED <<files, mapping, hnd, ion_client, gralloc_legacy_ion, devices, undercut, fb,
                     bufferMask, currentBuffer, lostSlots, interfered, held, owed, lost, strays>>
  BY DEF BeginFree, InUse, Buffers, kernel, module, screen, locking
<1>1. /\ call' \in [Threads -> Calls]
      /\ call'[t] = [pc |-> "free", handle |-> h, mask |-> bufferMask]
      /\ \A u \in Threads : u # t => call'[u] = call[u]
  BY <1>0 DEF TypeOK, Calls
<1>2. TypeOK'
  BY <1>0, <1>1 DEF TypeOK
<1>3. FdInv' /\ MapInv' /\ DeviceInv' /\ KindInv' /\ SlotInv' /\ PostedInv'
  BY <1>0 DEF FdInv, MapInv, DeviceInv, KindInv, SlotInv, PostedInv
<1>4. AllocInv'
  BY <1>0, <1>1 DEF AllocInv
<1>5. FreeInv'
  BY <1>0, <1>1 DEF FreeInv
<1>6. OweInv'
  BY <1>0 DEF OweInv, BeingWritten
<1> QED
  BY <1>2, <1>3, <1>4, <1>5, <1>6

\* The slot's bit is cleared in the mask that the thread has read, which is the mask of now
\* or is noted as an interference; nobody else was freeing the slot.
LEMMA FinishFreeStep ==
    ASSUME IInv, NEW t \in Threads, FinishFree(t)
    PROVE  IInv'
<1> USE DEF IInv
<1> DEFINE h == call[t].handle
<1>0. /\ call[t].pc = "free" /\ Forget(h)
      /\ bufferMask' = call[t].mask \ {hnd[h].slot}
      /\ files' = Close(files, hnd[h].share_attr_fd)
      /\ lost' = lost \cup {hnd[h].share_fd}
      /\ call' = [call EXCEPT ![t] = Idle]
      /\ UNCHANGED <<mapping, ion_client, gralloc_legacy_ion, devices, undercut, fb,
                     currentBuffer, lostSlots, strays>>
  BY DEF FinishFree, module
<1>1. interfered' \in BOOLEAN /\ (~interfered' => ~interfered /\ bufferMask = call[t].mask /\ Unlocked)
  BY DEF FinishFree, TypeOK
<1>2. /\ h \in Handles /\ h \in Buffers(hnd) /\ hnd[h].kind = "framebuffer" /\ currentBuffer # h
      /\ hnd[h].base = NULL /\ hnd[h].share_fd \in Descriptors
      /\ call[t].mask \in SUBSET Slots
  <2>1. h \in Buffers(hnd) /\ currentBuffer # h
    BY <1>0 DEF FreeInv
  <2>2. h \in Handles /\ hnd[h].kind = "framebuffer"
    BY <2>1 DEF Buffers
  <2>3. call[t].mask \in SUBSET Slots
    BY DEF TypeOK, Calls
  <2> QED
    BY <2>1, <2>2, <2>3 DEF KindInv
<1>3. /\ call' \in [Threads -> Calls] /\ call'[t] = Idle
      /\ \A u \in Threads : u # t => call'[u] = call[u]
  BY <1>0 DEF TypeOK, Calls, Idle
<1>4. \A u \in Threads : call[u].pc = "free" /\ u # t => call[u].handle # h
  BY <1>0 DEF FreeInv
<1> HIDE DEF h
<1>5. /\ hnd' \in [Handles -> Objects] /\ hnd'[h] = NoObject
      /\ \A g \in Handles : g # h => hnd'[g] = hnd[g]
      /\ owed' = owed \ {h} /\ owed' \in SUBSET Handles /\ UNCHANGED held
  BY <1>0, <1>2, NoObjectIs DEF Forget, TypeOK
<1>6. /\ files' \in [Descriptors -> Files]
      /\ \A e \in Descriptors :
            files'[e] = IF e \in {hnd[h].share_attr_fd} THEN CLOSED ELSE files[e]
  BY <1>0, CloseIs DEF TypeOK
<1>7. bufferMask' \in SUBSET Slots /\ lost' \in SUBSET Descriptors
  BY <1>0, <1>2 DEF TypeOK
<1>8. TypeOK'
  BY <1>0, <1>1, <1>3, <1>5, <1>6, <1>7 DEF TypeOK
<1>9. FdInv'
  <2> SUFFICES ASSUME ~undercut PROVE Owned(files', hnd', fb, ion_client, devices, lost')
    BY <1>0 DEF FdInv
  <2>1. Owned(files, hnd, fb, ion_client, devices, lost) /\ hnd \in [Handles -> Objects]
    BY DEF FdInv, TypeOK
  <2>2. hnd'[h].share_fd = -1 /\ hnd'[h].share_attr_fd = -1
    BY <1>5, NoObjectIs
  <2> DEFINE C == {hnd[h].share_attr_fd}
  <2>3. /\ C \subseteq {hnd[h].share_fd, hnd[h].share_attr_fd}
        /\ hnd[h].share_attr_fd \in C
        /\ \A e \in Descriptors : files'[e] = IF e \in C THEN CLOSED ELSE files[e]
    BY <1>6
  <2> HIDE DEF C
  <2>4. lost \subseteq lost' /\ hnd[h].share_fd \in lost'
    BY <1>0
  <2>5. \A g \in Handles : g # h => hnd'[g] = hnd[g]
    BY <1>5
  <2> QED
    BY <1>2, <2>1, <2>2, <2>3, <2>4, <2>5, OwnedDrops
<1>10. MapInv'
  <2>1. \A g \in Handles :
            hnd'[g].base = hnd[g].base \/ {hnd'[g].base, hnd[g].base} \cap Addresses = {}
    BY <1>2, <1>5, NoObjectIs, NothingNamed
  <2>2. Placed(mapping, hnd', strays)
    BY <2>1, PlacedSame DEF MapInv, TypeOK
  <2> QED
    BY <1>0, <2>2 DEF MapInv
<1>11. /\ Buffers(hnd') = Buffers(hnd) \ {h}
       /\ \A g \in Buffers(hnd') : hnd'[g] = hnd[g]
  BY <1>5, NoObjectIs DEF Buffers
<1>12. KindInv'
  BY <1>5, NoObjectIs DEF KindInv
<1>13. SlotInv'
  <2> SUFFICES ASSUME ~interfered' PROVE SlotInv'
    BY DEF SlotInv
  <2>1. ~interfered /\ bufferMask' = bufferMask \ {hnd[h].slot}
    BY <1>0, <1>1
  <2>2. /\ bufferMask = {hnd[g].slot : g \in Buffers(hnd)} \cup lostSlots
        /\ \A g, k \in Buffers(hnd) : hnd[g].slot = hnd[k].slot => g = k
        /\ \A g \in Buffers(hnd) : hnd[g].slot \notin lostSlots
    BY <2>1 DEF SlotInv
  <2>3. {hnd'[g].slot : g \in Buffers(hnd')} = {hnd[g].slot : g \in Buffers(hnd) \ {h}}
    BY <1>11
  <2>4. {hnd[g].slot : g \in Buffers(hnd) \ {h}} = {hnd[g].slot : g \in Buffers(hnd)} \ {hnd[h].slot}
    BY <1>2, <2>2
  <2>5. bufferMask' = {hnd'[g].slot : g \in Buffers(hnd')} \cup lostSlots
    BY <1>2, <2>1, <2>2, <2>3, <2>4
  <2>6. /\ \A g, k \in Buffers(hnd') : hnd'[g].slot = hnd'[k].slot => g = k
        /\ \A g \in Buffers(hnd') : hnd'[g].slot \notin lostSlots
    BY <1>11, <2>2
  <2> QED
    BY <1>0, <2>5, <2>6 DEF SlotInv
<1>14. AllocInv'
  <2>1. \A u \in Threads : call'[u].pc = "alloc" => call[u].pc = "alloc" /\ call'[u] = call[u]
    BY <1>0, <1>3 DEF Idle
  <2>2. \A u \in Threads : call'[u].pc = "alloc" => interfered'
    BY <1>1, <2>1 DEF Unlocked
  <2> QED
    BY <2>1, <2>2 DEF AllocInv
<1>15. FreeInv'
  <2>1. \A u \in Threads : call'[u].pc = "free" => u # t /\ call[u].pc = "free" /\ call'[u] = call[u]
    BY <1>3 DEF Idle
  <2>2. \A u \in Threads : call'[u].pc = "free" => call'[u].handle \in Buffers(hnd')
    BY <1>4, <1>11, <2>1 DEF FreeInv
  <2> QED
    BY <1>0, <2>1, <2>2 DEF FreeInv
<1>16. PostedInv'
  BY <1>0, <1>2, <1>11 DEF PostedInv
<1>17. DeviceInv'
  BY <1>0 DEF DeviceInv
<1>18. OweInv'
  BY <1>0, <1>5 DEF OweInv, BeingWritten, TypeOK
<1> QED
  BY <1>8, <1>9, <1>10, <1>12, <1>13, <1>14, <1>15, <1>16, <1>17, <1>18

\* A slot that is posted is not being freed.
LEMMA FbPostStep ==
    ASSUME IInv, NEW t \in Threads, NEW h \in Handles, fb_post(t, h)
    PROVE  IInv'
<1> USE DEF IInv
<1>0. /\ h \in Buffers(hnd) /\ \A u \in Threads : call[u].handle # h
      /\ currentBuffer' \in {h, NoHandle}
      /\ UNCHANGED <<files, mapping, hnd, ion_client, gralloc_legacy_ion, devices, undercut, fb,
                     bufferMask, lostSlots, interfered, call, held, owed, lost, strays>>
  BY DEF fb_post, Buffers, kernel, module, locking
<1>1. TypeOK'
  BY <1>0 DEF TypeOK
<1>2. FdInv' /\ MapInv' /\ DeviceInv' /\ KindInv' /\ SlotInv' /\ AllocInv' /\ PostedInv'
  BY <1>0 DEF FdInv, MapInv, DeviceInv, KindInv, SlotInv, AllocInv, PostedInv
<1>3. FreeInv'
  BY <1>0, NothingNamed DEF FreeInv, Buffers
<1>4. OweInv'
  BY <1>0 DEF OweInv, BeingWritten
<1> QED
  BY <1>1, <1>2, <1>3, <1>4

\* A copy to the screen is a lock for reading and an unlock.
LEMMA PostCopyStep ==
    ASSUME IInv, NEW t \in Threads, NEW h \in Handles, PostCopy(t, h)
    PROVE  IInv'
<1> USE DEF IInv
<1>0. /\ hnd[h].kind \in {"ion", "clone"}
      /\ currentBuffer' = NoHandle /\ owed' = owed \ {h}
      /\ hnd' = [hnd EXCEPT ![h].writeOwner = FALSE]
      /\ UNCHANGED <<files, mapping, ion_client, gralloc_legacy_ion, devices, undercut, fb,
                     bufferMask, lostSlots, interfered, call, held, lost, strays>>
  BY DEF PostCopy, UsesIon, kernel, module
<1>1. /\ hnd' \in [Handles -> Objects]
      /\ \A g \in Handles : g # h => hnd'[g] = hnd[g]
      /\ \A g \in Handles : /\ hnd'[g].share_fd = hnd[g].share_fd
                            /\ hnd'[g].share_attr_fd = hnd[g].share_attr_fd
                            /\ hnd'[g].base = hnd[g].base
                            /\ hnd'[g].kind = hnd[g].kind
  <2>1. [hnd[h] EXCEPT !.writeOwner = FALSE] \in Objects
    BY DEF TypeOK, Objects
  <2>2. hnd' = [hnd EXCEPT ![h] = [hnd[h] EXCEPT !.writeOwner = FALSE]]
    BY <1>0
  <2> QED
    BY <2>1, <2>2 DEF TypeOK, Objects
<1>2. Buffers(hnd') = Buffers(hnd) /\ \A g \in Buffers(hnd) : hnd'[g] = hnd[g]
  BY <1>0, <1>1 DEF Buffers
<1>3. TypeOK'
  BY <1>0, <1>1 DEF TypeOK
<1>4. KindInv'
  BY <1>1 DEF KindInv
<1>5. SlotInv'
  <2>1. {hnd'[g].slot : g \in Buffers(hnd')} = {hnd[g].slot : g \in Buffers(hnd)}
    BY <1>2
  <2>2. /\ \A g, k \in Buffers(hnd') : hnd[g].slot = hnd[k].slot <=> hnd'[g].slot = hnd'[k].slot
        /\ UNCHANGED <<bufferMask, lostSlots, interfered>>
    BY <1>0, <1>2
  <2> QED
    BY <1>2, <2>1, <2>2 DEF SlotInv
<1>6. AllocInv' /\ PostedInv' /\ DeviceInv'
  BY <1>0 DEF AllocInv, PostedInv, DeviceInv
<1>7. FreeInv'
  <2>1. NoHandle \notin Buffers(hnd)
    BY NothingNamed DEF Buffers
  <2> QED
    BY <1>0, <1>2, <2>1 DEF FreeInv
<1>8. FdInv'
  <2> SUFFICES ASSUME ~undercut PROVE Owned(files, hnd', fb, ion_client, devices, lost)
    BY <1>0 DEF FdInv
  <2>1. Owned(files, hnd, fb, ion_client, devices, lost)
    BY DEF FdInv
  <2> QED
    BY <1>1, <2>1, OwnedSame
<1>9. MapInv'
  <2>1. Placed(mapping, hnd', strays)
    BY <1>1, PlacedSame DEF MapInv, TypeOK
  <2> QED
    BY <1>0, <2>1 DEF MapInv
<1>10. OweInv'
  BY <1>0, <1>1 DEF OweInv, BeingWritten, TypeOK
<1> QED
  BY <1>3, <1>4, <1>5, <1>6, <1>7, <1>8, <1>9, <1>10
-----------------------------------------------------------------------------
(* The invariant of the module, and what follows from it. *)

LEMMA InitInvariant == Init => IInv
<1> SUFFICES ASSUME Init PROVE IInv
  OBVIOUS
<1>1. /\ \A d \in Descriptors : files[d] = CLOSED
      /\ \A a \in Addresses : mapping[a] = NoHandle
      /\ \A h \in Handles : hnd[h] = NoObject
      /\ \A t \in Threads : call[t] = Idle
  BY DEF Init
<1>2. TypeOK
  <2>1. files \in [Descriptors -> Files] /\ hnd \in [Handles -> Objects]
    BY FilesAre, NoObjectIs DEF Init
  <2>2. fb \in Screens
    BY DEF Init, NoFramebuffer, Screens, Numbers, NUM_FB_BUFFERS
  <2>3. call \in [Threads -> Calls] /\ held \in [Threads -> Locks]
    BY DEF Init, Idle, NoLock, Calls, Locks
  <2> QED
    BY <2>1, <2>2, <2>3 DEF Init, TypeOK
<1>3. FdInv
  BY <1>1, NoObjectIs, NothingNamed DEF Init, FdInv, Owned, NoFramebuffer
<1>4. MapInv
  BY <1>1, NoObjectIs, NothingNamed DEF MapInv, Placed
<1>5. Buffers(hnd) = {}
  BY <1>1, NoObjectIs DEF Buffers
<1>6. KindInv /\ SlotInv /\ PostedInv
  BY <1>1, <1>5, NoObjectIs DEF Init, KindInv, SlotInv, PostedInv
<1>7. AllocInv /\ FreeInv
  BY <1>1 DEF AllocInv, FreeInv, Idle
<1>8. DeviceInv /\ OweInv
  BY DEF Init, DeviceInv, OweInv
<1> QED
  BY <1>2, <1>3, <1>4, <1>6, <1>7, <1>8 DEF IInv

LEMMA NextInvariant == IInv /\ [Next]_vars => IInv'
<1> SUFFICES ASSUME IInv, [Next]_vars PROVE IInv'
  OBVIOUS
<1>1. CASE alloc_device_open
  BY <1>1, AllocDeviceOpenStep
<1>2. CASE AllocDeviceClose
  BY <1>2, AllocDeviceCloseStep
<1>3. CASE framebuffer_device_open
  BY <1>3, FramebufferDeviceOpenStep
<1>4. CASE FramebufferDeviceFails
  BY <1>4, FramebufferDeviceFailsStep
<1>5. ASSUME NEW h \in Handles, Import(h) \/ DeleteClone(h) PROVE IInv'
  BY <1>5, ImportStep, DeleteCloneStep
<1>6. ASSUME NEW t \in Threads,
             AllocSlot(t) \/ AllocSlotFails(t) \/ FinishFree(t) \/ gralloc_unlock(t)
      PROVE  IInv'
  BY <1>6, AllocSlotStep, AllocSlotFailsStep, FinishFreeStep, UnlockStep
<1>7. ASSUME NEW t \in Threads, NEW h \in Handles,
             \/ alloc_device_alloc(t, h) \/ alloc_device_free(t, h)
             \/ gralloc_backend_register(t, h) \/ RegisterFails(t, h)
             \/ gralloc_unregister_buffer(t, h)
      PROVE  IInv'
  BY <1>7, AllocDeviceAllocStep, AllocDeviceFreeStep, RegisterStep, RegisterFailsStep,
     UnregisterStep
<1>8. ASSUME NEW t \in Threads, NEW h \in Handles,
             \/ AllocSingleBuffer(t, h) \/ FinishAlloc(t, h) \/ BeginFree(t, h)
             \/ fb_post(t, h) \/ PostCopy(t, h)
      PROVE  IInv'
  BY <1>8, AllocSingleBufferStep, FinishAllocStep, BeginFreeStep, FbPostStep, PostCopyStep
<1>9. ASSUME NEW t \in Threads, NEW h \in Handles, NEW write \in BOOLEAN,
             gralloc_lock(t, h, write)
      PROVE  IInv'
  BY <1>9, LockStep
<1>10. CASE UNCHANGED vars
  <2>1. UNCHANGED <<files, mapping, hnd, ion_client, gralloc_legacy_ion, devices, undercut, fb,
                    bufferMask, currentBuffer, lostSlots, interfered, call, held, owed, lost,
                    strays>>
    BY <1>10 DEF vars, kernel, module, screen, locking
  <2> QED
    BY <2>1 DEF IInv, TypeOK, FdInv, MapInv, KindInv, SlotInv, AllocInv, FreeInv, PostedInv,
                DeviceInv, OweInv, BeingWritten
<1> QED
  BY <1>1, <1>2, <1>3, <1>4, <1>5, <1>6, <1>7, <1>8, <1>9, <1>10 DEF Next

\* The invariant holds whatever the threads do and whatever fails.
THEOREM InvariantHolds == Spec => []IInv
<1>1. Init => IInv
  BY InitInvariant
<1>2. IInv /\ [Next]_vars => IInv'
  BY NextInvariant
<1> QED
  BY <1>1, <1>2, PTL DEF Spec

\* Every descriptor has one owner: a handle, the framebuffer or the client of ION, as long
\* as no device was closed under another.  No close of a stale number can hit a live one.
THEOREM DescriptorsAreOwned == Spec => []DescriptorsOwned
<1>1. IInv => DescriptorsOwned
  <2> SUFFICES ASSUME IInv, ~undercut, NEW d \in Descriptors
               PROVE  /\ \A n \in Names(d) : files[d] = n
                      /\ files[d] # CLOSED => d \in lost \/ Names(d) # {}
    BY DEF DescriptorsOwned
  <2>1. Owned(files, hnd, fb, ion_client, devices, lost)
    BY DEF IInv, FdInv
  <2>2. ASSUME NEW n \in Names(d) PROVE files[d] = n
    <3>1. CASE n \in {Memory(h) : h \in {g \in Handles : hnd[g].share_fd = d}}
      BY <2>1, <3>1 DEF Owned
    <3>2. CASE n \in {Attributes(h) : h \in {g \in Handles : hnd[g].share_attr_fd = d}}
      BY <2>1, <3>2 DEF Owned
    <3>3. CASE n = FBDEV /\ fb.fd = d
      BY <2>1, <3>3 DEF Owned
    <3>4. CASE n = ION /\ ion_client = d /\ (devices > 0 \/ files[d] = ION)
      BY <2>1, <3>4 DEF Owned
    <3> QED
      BY <2>2, <3>1, <3>2, <3>3, <3>4 DEF Names
  <2>3. ASSUME files[d] # CLOSED, d \notin lost PROVE Names(d) # {}
    <3>1. \/ \E h \in Handles : hnd[h].share_fd = d \/ hnd[h].share_attr_fd = d
          \/ fb.fd = d
          \/ ion_client = d /\ files[d] = ION
      BY <2>1, <2>3 DEF Owned
    <3>2. ASSUME NEW h \in Handles, hnd[h].share_fd = d PROVE Memory(h) \in Names(d)
      BY <3>2 DEF Names
    <3>3. ASSUME NEW h \in Handles, hnd[h].share_attr_fd = d PROVE Attributes(h) \in Names(d)
      BY <3>3 DEF Names
    <3>4. fb.fd = d => FBDEV \in Names(d)
      BY DEF Names
    <3>5. ion_client = d /\ files[d] = ION => ION \in Names(d)
      BY DEF Names
    <3> QED
      BY <3>1, <3>2, <3>3, <3>4, <3>5
  <2> QED
    BY <2>2, <2>3
<1> QED
  BY <1>1, InvariantHolds, PTL

\* Memory has one owner: a handle is where its base says, the bits of the framebuffer's
\* mask are the slots that are out, and the buffer on the screen has not been freed.
THEOREM MemoryIsOwned == Spec => []MemoryOwned
<1>1. IInv => MemoryOwned
  <2> SUFFICES ASSUME IInv PROVE MemoryOwned
    OBVIOUS
  <2>1. Buffers(hnd) = {h \in Handles : hnd[h].kind = "framebuffer"}
    BY DEF Buffers
  <2>2. Placed(mapping, hnd, strays) /\ SlotInv
    BY DEF IInv, MapInv
  <2>3. currentBuffer # NoHandle => hnd[currentBuffer].kind = "framebuffer"
    BY DEF IInv, PostedInv, Buffers
  <2> QED
    BY <2>1, <2>2, <2>3 DEF MemoryOwned, Placed, SlotInv
<1> QED
  BY <1>1, InvariantHolds, PTL

\* What the CPU wrote is synced before the last writer has let go of the buffer.
THEOREM WritesGetSynced == Spec => []WritesAreSynced
<1>1. IInv => WritesAreSynced
  BY DEF IInv, OweInv, WritesAreSynced
<1> QED
  BY <1>1, InvariantHolds, PTL

-----------------------------------------------------------------------------
(* GrallocLayout: numbers. *)

Compressed == {"AFBC", "AFBC_WIDEBLK", "AFBC_PADDED", "AFBC_TILED_HEADERS_BASIC",
               "AFBC_TILED_HEADERS_WIDEBLK"}

\* A product grows with its factors.
LEMMA ProductGrows ==
    ASSUME NEW a \in Nat, NEW b \in Nat, NEW c \in Nat, NEW d \in Nat, a <= c, b <= d
    PROVE  a * b \in Nat /\ c * d \in Nat /\ a * b <= c * d
<1>1. a * b <= c * b /\ a * b \in Nat /\ c * b \in Nat /\ c * d \in Nat
  OBVIOUS
<1>2. c * b <= c * d
  OBVIOUS
<1> QED
  BY <1>1, <1>2

\* GRALLOC_ALIGN gives a number that is no less.
LEMMA AlignsUp ==
    ASSUME NEW n \in Nat, NEW a \in Nat \ {0}
    PROVE  Align(n, a) \in Nat /\ n <= Align(n, a)
<1>1. PICK x \in Nat : x = n + a - 1
  OBVIOUS
<1>2. x % a \in 0..(a - 1) /\ x \div a \in Int /\ x = a * (x \div a) + (x % a)
  BY <1>1
<1>3. PICK q \in Int : q = x \div a
  BY <1>2
<1>4. PICK r \in 0..(a - 1) : r = x % a
  BY <1>2
<1>5. x = a * q + r /\ Align(n, a) = q * a
  BY <1>1, <1>2, <1>3, <1>4 DEF Align
<1>6. q * a >= n /\ q * a \in Int
  BY <1>1, <1>4, <1>5
<1> QED
  BY <1>5, <1>6

\* The steps in which the widths and heights of compressed pictures are rounded up are
\* whole blocks of 16, so that the result has room for every block that is begun.
LEMMA WholeBlocks ==
    ASSUME NEW n \in Nat, NEW a \in {16, 32, 64, 128, 256}
    PROVE  \E x \in Nat : Align(n, a) = 16 * x /\ Ceil(n, 16) <= x /\ n <= 16 * x
                          /\ Ceil(n, 16) \in Nat
<1>1. CASE a = 16
  <2>1. PICK x \in Nat : x = (n + 16 - 1) \div 16
    OBVIOUS
  <2> QED
    BY <1>1, <2>1 DEF Align, Ceil
<1>2. CASE a = 32
  <2>1. PICK x \in Nat : x = 2 * ((n + 32 - 1) \div 32)
    OBVIOUS
  <2> QED
    BY <1>2, <2>1 DEF Align, Ceil
<1>3. CASE a = 64
  <2>1. PICK x \in Nat : x = 4 * ((n + 64 - 1) \div 64)
    OBVIOUS
  <2> QED
    BY <1>3, <2>1 DEF Align, Ceil
<1>4. CASE a = 128
  <2>1. PICK x \in Nat : x = 8 * ((n + 128 - 1) \div 128)
    OBVIOUS
  <2> QED
    BY <1>4, <2>1 DEF Align, Ceil
<1>5. CASE a = 256
  <2>1. PICK x \in Nat : x = 16 * ((n + 256 - 1) \div 256)
    OBVIOUS
  <2> QED
    BY <1>5, <2>1 DEF Align, Ceil
<1> QED
  BY <1>1, <1>2, <1>3, <1>4, <1>5

\* What AfbcAlign has for each kind.
LEMMA AlignmentsOfKinds ==
    ASSUME NEW type \in Compressed
    PROVE  /\ AfbcAlign[type].w \in {16, 32, 64, 128, 256}
           /\ AfbcAlign[type].h \in {16, 32, 64, 128, 256}
           /\ AfbcAlign[type].header \in Nat \ {0}
  BY DEF Compressed, AfbcAlign

\* The headers of a picture of whole blocks: 16 bytes for each.
LEMMA HeaderHolds ==
    ASSUME NEW type \in Compressed, NEW x \in Nat, NEW n \in Nat, NEW y \in Nat, 16 * y <= n
    PROVE  AfbcHeader(16 * x, n, type) \in Nat /\ 16 * (x * y) <= AfbcHeader(16 * x, n, type)
<1>1. (16 * x) \div 16 = x
  OBVIOUS
<1>2. PICK p \in Nat : p = x * n
  OBVIOUS
<1>3. PICK q \in Nat : q = x * y
  OBVIOUS
<1>4. 16 * q <= p
  <2>1. x * (16 * y) <= x * n
    OBVIOUS
  <2>2. x * (16 * y) = 16 * (x * y)
    OBVIOUS
  <2> QED
    BY <2>1, <2>2, <1>2, <1>3
<1>5. PICK b \in Nat : b = p \div 16 /\ q <= b
  BY <1>4
<1>6. AfbcHeader(16 * x, n, type) = Align(16 * b, AfbcAlign[type].header)
  BY <1>1, <1>2, <1>5 DEF AfbcHeader
<1>7. 16 * b \in Nat /\ 16 * q <= 16 * b
  BY <1>5
<1>8. Align(16 * b, AfbcAlign[type].header) \in Nat /\ 16 * b <= Align(16 * b, AfbcAlign[type].header)
  BY <1>7, AlignmentsOfKinds, AlignsUp
<1> QED
  BY <1>3, <1>6, <1>7, <1>8

\* The blocks of a compressed picture: their number in a row and in a column, how wide
\* and high they are together, and the bytes of their headers.
LEMMA BlocksHold ==
    ASSUME NEW type \in Compressed, NEW w \in Nat, NEW n \in Nat
    PROVE  \E x \in Nat, y \in Nat :
              /\ Align(w, AfbcAlign[type].w) = 16 * x /\ w <= 16 * x /\ Ceil(w, 16) <= x
              /\ Align(n, AfbcAlign[type].h) = 16 * y /\ n <= 16 * y /\ Ceil(n, 16) <= y
              /\ AfbcHeader(16 * x, 16 * y, type) \in Nat
              /\ 16 * Ceil(w, 16) * Ceil(n, 16) <= AfbcHeader(16 * x, 16 * y, type)
<1>a. PICK a \in {16, 32, 64, 128, 256} : a = AfbcAlign[type].w
  BY AlignmentsOfKinds
<1>b. PICK b \in {16, 32, 64, 128, 256} : b = AfbcAlign[type].h
  BY AlignmentsOfKinds
<1>1. PICK x \in Nat : Align(w, a) = 16 * x /\ Ceil(w, 16) <= x /\ w <= 16 * x
                       /\ Ceil(w, 16) \in Nat
  BY WholeBlocks
<1>2. PICK y \in Nat : Align(n, b) = 16 * y /\ Ceil(n, 16) <= y /\ n <= 16 * y
                       /\ Ceil(n, 16) \in Nat
  BY WholeBlocks
<1>3. 16 * y \in Nat /\ 16 * y <= 16 * y
  OBVIOUS
<1>4. AfbcHeader(16 * x, 16 * y, type) \in Nat /\ 16 * (x * y) <= AfbcHeader(16 * x, 16 * y, type)
  BY <1>3, HeaderHolds
<1>5. PICK u \in Nat : u = Ceil(w, 16)
  BY <1>1
<1>6. PICK v \in Nat : v = Ceil(n, 16)
  BY <1>2
<1>7. u * v <= x * y /\ u * v \in Nat /\ x * y \in Nat
  BY <1>1, <1>2, <1>5, <1>6, ProductGrows
<1>8. 16 * u * v = 16 * (u * v)
  OBVIOUS
<1>9. 16 * u * v <= AfbcHeader(16 * x, 16 * y, type)
  BY <1>4, <1>7, <1>8
<1> QED
  BY <1>a, <1>b, <1>1, <1>2, <1>4, <1>5, <1>6, <1>9

-----------------------------------------------------------------------------
(* GrallocLayout: how many bytes a picture has. *)

\* Halves and quarters, rounded up.
LEMMA Ceilings ==
    ASSUME NEW n \in Nat
    PROVE  /\ Ceil(n, 1) = n
           /\ Ceil(n, 2) \in Nat /\ n <= 2 * Ceil(n, 2) /\ 2 * Ceil(n, 2) <= n + 1
           /\ Ceil(n, 4) \in Nat /\ n <= 4 * Ceil(n, 4)
           /\ Ceil(n, 16) \in Nat /\ n <= 16 * Ceil(n, 16) /\ 16 * Ceil(n, 16) <= n + 15
  BY DEF Ceil

Formats1x1 == {"RGBA_8888", "RGBX_8888", "BGRA_8888", "RGB_888", "RGB_565", "Y410", "RAW16", "BLOB"}
Formats2x1 == {"P210", "Y210", "YCbCr_422_I", "YUV422_8BIT", "RAW12"}
Formats2x2 == {"YCrCb_420_SP", "YV12", "NV12", "NV21", "Y0L2", "P010"}
Unit == [b \in Formats1x1 \cup Formats2x1 \cup Formats2x2 \cup {"RAW10"} |-> Clump(b)[3]]

\* The picture by the pixels that its format stores together.
LEMMA PictureIs ==
    ASSUME NEW w \in Nat, NEW n \in Nat
    PROVE  /\ \A b \in Formats1x1 : PictureBytes(b, w, n) = w * n * Unit[b] /\ Unit[b] \in 1..4
           /\ \A b \in Formats2x1 : PictureBytes(b, w, n) = Ceil(w, 2) * n * Unit[b] /\ Unit[b] \in 3..8
           /\ \A b \in Formats2x2 : PictureBytes(b, w, n) = Ceil(w, 2) * Ceil(n, 2) * Unit[b]
                                    /\ Unit[b] \in 6..12
           /\ PictureBytes("RAW10", w, n) = Ceil(w, 4) * n * 5
<1>1. Ceil(w, 1) = w /\ Ceil(n, 1) = n
  BY Ceilings
<1>2. ASSUME NEW b \in Formats1x1 PROVE PictureBytes(b, w, n) = w * n * Unit[b] /\ Unit[b] \in 1..4
  <2>1. Clump(b) = <<1, 1, Unit[b]>> /\ Unit[b] \in 1..4
    BY DEF Formats1x1, Unit, Clump, BytesPerPixel, Yuv420Planar
  <2> QED
    BY <1>1, <2>1 DEF PictureBytes
<1>3. ASSUME NEW b \in Formats2x1 PROVE PictureBytes(b, w, n) = Ceil(w, 2) * n * Unit[b] /\ Unit[b] \in 3..8
  <2>1. Clump(b) = <<2, 1, Unit[b]>> /\ Unit[b] \in 3..8
    BY DEF Formats2x1, Unit, Clump, BytesPerPixel, Yuv420Planar
  <2> QED
    BY <1>1, <2>1 DEF PictureBytes
<1>4. ASSUME NEW b \in Formats2x2 PROVE PictureBytes(b, w, n) = Ceil(w, 2) * Ceil(n, 2) * Unit[b] /\ Unit[b] \in 6..12
  <2>1. Clump(b) = <<2, 2, Unit[b]>> /\ Unit[b] \in 6..12
    BY DEF Formats2x2, Unit, Clump, BytesPerPixel, Yuv420Planar
  <2> QED
    BY <2>1 DEF PictureBytes
<1>5. PictureBytes("RAW10", w, n) = Ceil(w, 4) * n * 5
  <2>1. Clump("RAW10") = <<4, 1, 5>>
    BY DEF Clump, BytesPerPixel, Yuv420Planar
  <2> QED
    BY <1>1, <2>1 DEF PictureBytes
<1> QED
  BY <1>2, <1>3, <1>4, <1>5

\* The bytes of one unit of each format.
LEMMA Units ==
    /\ \A b \in DOMAIN BytesPerPixel : b \in Formats1x1 /\ Unit[b] = BytesPerPixel[b] /\ Unit[b] >= 2
    /\ Unit["Y410"] = 4 /\ Unit["RAW16"] = 2 /\ Unit["BLOB"] = 1
    /\ Unit["P210"] = 8 /\ Unit["Y210"] = 8 /\ Unit["YCbCr_422_I"] = 4 /\ Unit["YUV422_8BIT"] = 4
    /\ Unit["RAW12"] = 3 /\ Unit["P010"] = 12 /\ Unit["Y0L2"] = 8
    /\ \A b \in Yuv420Planar : b \in Formats2x2 /\ Unit[b] = 6
  BY DEF Formats1x1, Formats2x1, Formats2x2, Unit, Clump, BytesPerPixel, Yuv420Planar

\* The pictures of the formats that have a size function of their own.
LEMMA NamedPictures ==
    ASSUME NEW w \in Nat, NEW h \in Nat
    PROVE  /\ PictureBytes("YCbCr_422_I", w, h) = Ceil(w, 2) * h * 4
           /\ PictureBytes("YUV422_8BIT", w, h) = Ceil(w, 2) * h * 4
           /\ PictureBytes("Y210", w, h) = Ceil(w, 2) * h * 8
           /\ PictureBytes("P210", w, h) = Ceil(w, 2) * h * 8
           /\ PictureBytes("RAW12", w, h) = Ceil(w, 2) * h * 3
           /\ PictureBytes("Y410", w, h) = w * h * 4
           /\ PictureBytes("RAW16", w, h) = w * h * 2
           /\ PictureBytes("BLOB", w, h) = w * h * 1
           /\ PictureBytes("Y0L2", w, h) = Ceil(w, 2) * Ceil(h, 2) * 8
           /\ PictureBytes("P010", w, h) = Ceil(w, 2) * Ceil(h, 2) * 12
<1>1. /\ {"YCbCr_422_I", "YUV422_8BIT", "Y210", "P210", "RAW12"} \subseteq Formats2x1
      /\ {"Y410", "RAW16", "BLOB"} \subseteq Formats1x1
      /\ {"Y0L2", "P010"} \subseteq Formats2x2
  BY DEF Formats1x1, Formats2x1, Formats2x2
<1>2. \A b \in {"YCbCr_422_I", "YUV422_8BIT", "Y210", "P210", "RAW12"} :
         PictureBytes(b, w, h) = Ceil(w, 2) * h * Unit[b]
  BY <1>1, PictureIs
<1>3. \A b \in {"Y410", "RAW16", "BLOB"} : PictureBytes(b, w, h) = w * h * Unit[b]
  BY <1>1, PictureIs
<1>4. \A b \in {"Y0L2", "P010"} : PictureBytes(b, w, h) = Ceil(w, 2) * Ceil(h, 2) * Unit[b]
  BY <1>1, PictureIs
<1> QED
  BY <1>2, <1>3, <1>4, Units

\* What a layout must have room for: the picture and, if it is compressed, its headers.
Headers(type, w, n) == IF type = "UNCOMPRESSED" THEN 0 ELSE 16 * Ceil(w, 16) * Ceil(n, 16)
Holds(lay, base, type, w, n) ==
    lay.size \in Nat /\ PictureBytes(base, w, n) + Headers(type, w, n) <= lay.size

AllKinds == Compressed \cup {"UNCOMPRESSED"}

\* The headers are a number, and no less for more rows.
LEMMA HeadersGrow ==
    ASSUME NEW type \in AllKinds, NEW w \in Nat, NEW m \in Nat, NEW n \in Nat, m <= n
    PROVE  /\ Headers(type, w, m) \in Nat /\ Headers(type, w, m) <= Headers(type, w, n)
           /\ type # "UNCOMPRESSED" => Headers(type, w, n) = 16 * Ceil(w, 16) * Ceil(n, 16)
<1>1. PICK p \in Nat : p = Ceil(w, 16)
  BY Ceilings
<1>2. PICK q \in Nat : q = Ceil(m, 16)
  BY Ceilings
<1>3. PICK r \in Nat : r = Ceil(n, 16)
  BY Ceilings
<1>4. q <= r
  BY <1>2, <1>3 DEF Ceil
<1>5. p * q <= p * r /\ p * q \in Nat /\ p * r \in Nat
  BY <1>4, ProductGrows
<1>6. 16 * p * q = 16 * (p * q) /\ 16 * p * r = 16 * (p * r)
  OBVIOUS
<1>7. 16 * p * q \in Nat /\ 16 * p * q <= 16 * p * r
  BY <1>5, <1>6
<1> QED
  BY <1>1, <1>2, <1>3, <1>7 DEF Headers

-----------------------------------------------------------------------------
(* GrallocLayout: each size function leaves room for its picture. *)

\* The formats of one plane with a number of bytes for each pixel.
LEMMA RgbHolds ==
    ASSUME NEW b \in DOMAIN BytesPerPixel, NEW type \in AllKinds, NEW w \in Nat, NEW h \in Nat
    PROVE  Holds(get_rgb_stride_and_size(w, h, BytesPerPixel[b], type), b, type, w, h)
<1>1. PICK c \in 1..4 : c = BytesPerPixel[b] /\ PictureBytes(b, w, h) = w * h * c
  <2>1. b \in Formats1x1 /\ Unit[b] = BytesPerPixel[b]
    BY Units
  <2>2. PictureBytes(b, w, h) = w * h * Unit[b] /\ Unit[b] \in 1..4
    BY <2>1, PictureIs
  <2> QED
    BY <2>1, <2>2
<1>2. w * h \in Nat /\ w * h * c \in Nat
  OBVIOUS
<1>3. CASE type = "UNCOMPRESSED"
  <2>1. w * c \in Nat
    OBVIOUS
  <2>2. PICK s \in Nat : s = Align(w * c, 64) /\ w * c <= s
    BY <2>1, AlignsUp
  <2>3. (w * c) * h <= s * h /\ s * h \in Nat
    BY <2>1, <2>2, ProductGrows
  <2>4. (w * c) * h = w * h * c
    OBVIOUS
  <2>5. get_rgb_stride_and_size(w, h, c, type).size = s * h
    BY <1>3, <2>2 DEF get_rgb_stride_and_size, Layout
  <2> QED
    BY <1>1, <1>2, <1>3, <2>3, <2>4, <2>5 DEF Holds, Headers
<1>4. CASE type # "UNCOMPRESSED"
  <2>1. type \in Compressed
    BY <1>4 DEF AllKinds
  <2>2. PICK x \in Nat, y \in Nat :
              /\ Align(w, AfbcAlign[type].w) = 16 * x /\ w <= 16 * x
              /\ Align(h, AfbcAlign[type].h) = 16 * y /\ h <= 16 * y
              /\ AfbcHeader(16 * x, 16 * y, type) \in Nat
              /\ 16 * Ceil(w, 16) * Ceil(h, 16) <= AfbcHeader(16 * x, 16 * y, type)
    BY <2>1, BlocksHold
  <2>3. PICK k \in Nat : k = AfbcHeader(16 * x, 16 * y, type)
    BY <2>2
  <2>4. PICK u \in Nat : u = 16 * x
    OBVIOUS
  <2>5. PICK v \in Nat : v = 16 * y
    OBVIOUS
  <2>6. w * h <= u * v /\ u * v \in Nat
    BY <2>2, <2>4, <2>5, ProductGrows
  <2>7. w * h * c <= u * v * c /\ u * v * c \in Nat
    BY <1>2, <2>6, ProductGrows
  <2>8. get_rgb_stride_and_size(w, h, c, type).size = u * v * c + k
    BY <1>4, <2>2, <2>3, <2>4, <2>5 DEF get_rgb_stride_and_size, Layout
  <2>9. Headers(type, w, h) <= k /\ Headers(type, w, h) \in Nat
    <3>1. h <= h
      OBVIOUS
    <3> QED
      BY <3>1, <1>4, <2>2, <2>3, HeadersGrow
  <2> QED
    BY <1>1, <1>2, <2>7, <2>8, <2>9 DEF Holds
<1> QED
  BY <1>1, <1>3, <1>4

\* The height that a VPU decodes into is no less than that of the picture.
LEMMA InternalHeightIs ==
    ASSUME NEW h \in Nat
    PROVE  InternalHeight(h) \in Nat /\ h <= InternalHeight(h)
           /\ InternalHeight(h) = IF build.video = 0 THEN h ELSE h + 16
  BY DEF InternalHeight

\* Compressed 4:2:0: a byte and two halves for each pixel of whole blocks.
LEMMA Afbc420Holds ==
    ASSUME NEW b \in Yuv420Planar, NEW type \in Compressed, NEW w \in Nat, NEW h \in Nat,
           get_afbc_yuv420_8bit_stride_and_size(w, h, type) # Invalid
    PROVE  Holds(get_afbc_yuv420_8bit_stride_and_size(w, h, type), b, type, w, h)
<1>1. PICK ih \in Nat : ih = InternalHeight(h) /\ h <= ih
  BY InternalHeightIs
<1>2. PICK x \in Nat, y \in Nat :
              /\ Align(w, AfbcAlign[type].w) = 16 * x /\ w <= 16 * x
              /\ Align(ih, AfbcAlign[type].h) = 16 * y /\ ih <= 16 * y
              /\ AfbcHeader(16 * x, 16 * y, type) \in Nat
              /\ 16 * Ceil(w, 16) * Ceil(ih, 16) <= AfbcHeader(16 * x, 16 * y, type)
  BY BlocksHold
<1>3. PICK k \in Nat : k = AfbcHeader(16 * x, 16 * y, type)
  BY <1>2
<1>4. PICK cw \in Nat, ch \in Nat : cw = Ceil(w, 2) /\ ch = Ceil(h, 2) /\ cw <= 8 * x /\ ch <= 8 * y
  BY <1>1, <1>2, Ceilings DEF Ceil
<1>5. PictureBytes(b, w, h) = cw * ch * 6
  BY <1>4, Units, PictureIs
<1>6. cw * ch <= (8 * x) * (8 * y) /\ cw * ch \in Nat /\ (8 * x) * (8 * y) \in Nat
  BY <1>4, ProductGrows
<1>7. Headers(type, w, h) <= k /\ Headers(type, w, h) \in Nat
  <2>1. type \in AllKinds /\ type # "UNCOMPRESSED"
    BY DEF AllKinds, Compressed
  <2>2. Headers(type, w, h) \in Nat /\ Headers(type, w, h) <= Headers(type, w, ih)
        /\ Headers(type, w, ih) = 16 * Ceil(w, 16) * Ceil(ih, 16)
    BY <1>1, <2>1, HeadersGrow
  <2>3. Headers(type, w, ih) \in Nat
    <3>1. ih <= ih
      OBVIOUS
    <3> QED
      BY <2>1, <3>1, HeadersGrow
  <2> QED
    BY <1>2, <1>3, <2>2, <2>3
<1>8. PICK s \in Nat : s = 16 * x + Align((16 * x) \div 2, 16) /\ s >= 24 * x
  <2>1. (16 * x) \div 2 = 8 * x
    OBVIOUS
  <2>2. Align(8 * x, 16) \in Nat /\ 8 * x <= Align(8 * x, 16)
    BY AlignsUp
  <2> QED
    BY <2>1, <2>2
<1>9. get_afbc_yuv420_8bit_stride_and_size(w, h, type).size = s * (16 * y) + k
  BY <1>1, <1>2, <1>3, <1>8 DEF get_afbc_yuv420_8bit_stride_and_size, Layout
<1>10. (24 * x) * (16 * y) <= s * (16 * y) /\ s * (16 * y) \in Nat
  BY <1>8, ProductGrows
<1>11. (24 * x) * (16 * y) = ((8 * x) * (8 * y)) * 6
  OBVIOUS
<1> QED
  BY <1>5, <1>6, <1>7, <1>9, <1>10, <1>11 DEF Holds

\* Planar 4:2:0: the rows are rounded up to pairs, and so is what they have of chroma.
LEMMA Yv12Holds ==
    ASSUME NEW b \in Yuv420Planar, NEW type \in AllKinds, NEW w \in Nat, NEW h \in Nat,
           NEW align \in {16, 128},
           get_yv12_stride_and_size(w, h, type, align) # Invalid
    PROVE  Holds(get_yv12_stride_and_size(w, h, type, align), b, type, w, h)
<1>1. CASE type = "UNCOMPRESSED"
  <2>1. PICK cw \in Nat, ch \in Nat : cw = Ceil(w, 2) /\ ch = Ceil(h, 2)
    BY Ceilings
  <2>2. Align(h, 2) = 2 * ch
    BY <2>1 DEF Align, Ceil
  <2>3. PICK x \in Nat : Align(w, align) = 2 * x /\ cw <= x
    <3>1. CASE align = 16
      <4>1. PICK x \in Nat : x = 8 * ((w + 16 - 1) \div 16)
        OBVIOUS
      <4> QED
        BY <3>1, <4>1, <2>1 DEF Align, Ceil
    <3>2. CASE align = 128
      <4>1. PICK x \in Nat : x = 64 * ((w + 128 - 1) \div 128)
        OBVIOUS
      <4> QED
        BY <3>2, <4>1, <2>1 DEF Align, Ceil
    <3> QED
      BY <3>1, <3>2
  <2>4. (2 * x) \div 2 = x
    OBVIOUS
  <2>5. PICK c \in Nat : c = Align(x, align) /\ x <= c
    <3>1. align \in Nat \ {0}
      OBVIOUS
    <3> QED
      BY <3>1, AlignsUp
  <2>6. get_yv12_stride_and_size(w, h, type, align).size = (2 * ch) * (2 * x + c)
    BY <1>1, <2>2, <2>3, <2>4, <2>5 DEF get_yv12_stride_and_size, Layout
  <2>7. 3 * cw <= 2 * x + c
    BY <2>3, <2>5
  <2>8. (2 * ch) * (3 * cw) <= (2 * ch) * (2 * x + c) /\ (2 * ch) * (2 * x + c) \in Nat
    BY <2>7, ProductGrows
  <2>9. (2 * ch) * (3 * cw) = cw * ch * 6
    OBVIOUS
  <2>10. PictureBytes(b, w, h) = cw * ch * 6
    BY <2>1, Units, PictureIs
  <2>11. cw * ch * 6 \in Nat
    OBVIOUS
  <2> QED
    BY <1>1, <2>6, <2>8, <2>9, <2>10, <2>11 DEF Holds, Headers
<1>2. CASE type # "UNCOMPRESSED"
  <2>1. type \in Compressed
    BY <1>2 DEF AllKinds
  <2>2. get_yv12_stride_and_size(w, h, type, align) = get_afbc_yuv420_8bit_stride_and_size(w, h, type)
    BY <1>2 DEF get_yv12_stride_and_size
  <2> QED
    BY <2>1, <2>2, Afbc420Holds
<1> QED
  BY <1>1, <1>2

\* Compressed 4:2:2 of 8 bit: two bytes for each pixel of whole blocks.
LEMMA Afbc422Holds ==
    ASSUME NEW type \in AllKinds, NEW w \in Nat, NEW h \in Nat,
           get_afbc_yuv422_8bit_stride_and_size(w, h, type) # Invalid
    PROVE  Holds(get_afbc_yuv422_8bit_stride_and_size(w, h, type), "YUV422_8BIT", type, w, h)
<1>1. type \in Compressed /\ type \notin {"UNCOMPRESSED", "AFBC_PADDED"}
  BY DEF get_afbc_yuv422_8bit_stride_and_size, AllKinds
<1>2. PICK x \in Nat, y \in Nat :
              /\ Align(w, AfbcAlign[type].w) = 16 * x /\ w <= 16 * x
              /\ Align(h, AfbcAlign[type].h) = 16 * y /\ h <= 16 * y
              /\ AfbcHeader(16 * x, 16 * y, type) \in Nat
              /\ 16 * Ceil(w, 16) * Ceil(h, 16) <= AfbcHeader(16 * x, 16 * y, type)
  BY <1>1, BlocksHold
<1>3. PICK k \in Nat : k = AfbcHeader(16 * x, 16 * y, type)
  BY <1>2
<1>4. Headers(type, w, h) \in Nat /\ Headers(type, w, h) <= k
  <2>1. h <= h
    OBVIOUS
  <2> QED
    BY <2>1, <1>1, <1>2, <1>3, HeadersGrow
<1>5. PICK cw \in Nat : cw = Ceil(w, 2) /\ cw <= 8 * x
  BY <1>2, Ceilings DEF Ceil
<1>6. cw * h <= (8 * x) * (16 * y) /\ cw * h \in Nat /\ (8 * x) * (16 * y) \in Nat
  BY <1>2, <1>5, ProductGrows
<1>7. PictureBytes("YUV422_8BIT", w, h) = cw * h * 4
  BY <1>5, NamedPictures
<1>8. get_afbc_yuv422_8bit_stride_and_size(w, h, type).size = 16 * x * (16 * y) * 2 + k
  BY <1>1, <1>2, <1>3 DEF get_afbc_yuv422_8bit_stride_and_size, Layout
<1>9. 16 * x * (16 * y) * 2 = ((8 * x) * (16 * y)) * 4
  OBVIOUS
<1> QED
  BY <1>4, <1>6, <1>7, <1>8, <1>9 DEF Holds

\* Compressed 4:2:2 of 10 bit: four bytes for each pixel of whole blocks.
LEMMA Afbc422TenHolds ==
    ASSUME NEW type \in Compressed, NEW w \in Nat, NEW h \in Nat,
           get_yuv422_10bit_afbc_stride_and_size(w, h, type) # Invalid
    PROVE  Holds(get_yuv422_10bit_afbc_stride_and_size(w, h, type), "Y210", type, w, h)
<1>1. ~(w % 4 # 0 \/ type = "AFBC_PADDED")
  BY DEF get_yuv422_10bit_afbc_stride_and_size
<1>2. PICK x \in Nat, y \in Nat :
              /\ Align(w, AfbcAlign[type].w) = 16 * x /\ w <= 16 * x
              /\ Align(h, AfbcAlign[type].h) = 16 * y /\ h <= 16 * y
              /\ AfbcHeader(16 * x, 16 * y, type) \in Nat
              /\ 16 * Ceil(w, 16) * Ceil(h, 16) <= AfbcHeader(16 * x, 16 * y, type)
  BY BlocksHold
<1>3. PICK k \in Nat : k = AfbcHeader(16 * x, 16 * y, type)
  BY <1>2
<1>4. Headers(type, w, h) \in Nat /\ Headers(type, w, h) <= k
  <2>1. h <= h /\ type \in AllKinds /\ type # "UNCOMPRESSED"
    BY DEF AllKinds, Compressed
  <2> QED
    BY <2>1, <1>2, <1>3, HeadersGrow
<1>5. PICK cw \in Nat : cw = Ceil(w, 2) /\ cw <= 8 * x
  BY <1>2, Ceilings DEF Ceil
<1>6. cw * h <= (8 * x) * (16 * y) /\ cw * h \in Nat /\ (8 * x) * (16 * y) \in Nat
  BY <1>2, <1>5, ProductGrows
<1>7. PictureBytes("Y210", w, h) = cw * h * 8
  BY <1>5, NamedPictures
<1>8. get_yuv422_10bit_afbc_stride_and_size(w, h, type).size = 16 * x * 2 * (16 * y) * 2 + k
  BY <1>1, <1>2, <1>3 DEF get_yuv422_10bit_afbc_stride_and_size, Layout
<1>9. 16 * x * 2 * (16 * y) * 2 = ((8 * x) * (16 * y)) * 8
  OBVIOUS
<1> QED
  BY <1>4, <1>6, <1>7, <1>8, <1>9 DEF Holds

\* The rows of a compressed 10 bit 4:2:0 picture that are held.
TenBitRows(h) == IF build.video = 0 THEN 2 * (h \div 2) ELSE h

\* The lines of blocks of its body, and how many of headers, that the height asks for.
LEMMA TenBitHeights ==
    ASSUME NEW h \in Nat, NEW y \in Nat, InternalHeight(h) \div 2 <= 16 * y
    PROVE  \E q \in Nat, m \in Nat, e \in Nat :
              /\ q = Ceil(TenBitRows(h), 16) /\ m = Ceil(TenBitRows(h), 2)
              /\ m + e <= 16 * y /\ e <= 1
              /\ q - e >= 0 /\ 16 * (q - e) <= InternalHeight(h)
<1>1. PICK ih \in Nat : ih = InternalHeight(h)
  BY InternalHeightIs
<1>2. PICK n \in Nat : n = TenBitRows(h)
  BY DEF TenBitRows
<1>3. PICK q \in Nat, m \in Nat : q = Ceil(n, 16) /\ m = Ceil(n, 2)
  BY Ceilings
<1>4. CASE build.video # 0
  <2>1. ih = h + 16 /\ n = h
    BY <1>1, <1>2, <1>4, InternalHeightIs DEF TenBitRows
  <2>2. m + 0 <= 16 * y /\ 16 * (q - 0) <= ih
    BY <1>1, <1>3, <2>1 DEF Ceil
  <2> QED
    BY <1>1, <1>2, <1>3, <2>2
<1>5. CASE build.video = 0
  <2>1. ih = h /\ n = 2 * (h \div 2)
    BY <1>1, <1>2, <1>5, InternalHeightIs DEF TenBitRows
  <2>2. PICK d \in Nat : d = h \div 2 /\ 2 * d <= h /\ d <= 16 * y
    BY <1>1, <2>1
  <2>3. m = d /\ q = (d + 7) \div 8
    BY <1>3, <2>1, <2>2 DEF Ceil
  <2>4. CASE d % 8 = 0
    <3>1. m + 0 <= 16 * y /\ 16 * (q - 0) <= ih
      BY <2>1, <2>2, <2>3, <2>4
    <3> QED
      BY <1>1, <1>2, <1>3, <3>1
  <2>5. CASE d % 8 # 0
    <3>1. m + 1 <= 16 * y /\ q - 1 >= 0 /\ 16 * (q - 1) <= ih
      BY <2>1, <2>2, <2>3, <2>5
    <3> QED
      BY <1>1, <1>2, <1>3, <3>1
  <2> QED
    BY <2>4, <2>5
<1> QED
  BY <1>4, <1>5

\* Compressed 4:2:0 of 10 bit: the headers are counted from a height that is not rounded
\* up to blocks; a line of them that is not counted fits in the body, which is.
LEMMA Afbc420TenHolds ==
    ASSUME NEW type \in Compressed, NEW w \in Nat, NEW h \in Nat,
           get_yuv420_10bit_afbc_stride_and_size(w, h, type) # Invalid
    PROVE  Holds(get_yuv420_10bit_afbc_stride_and_size(w, h, type), "Y0L2", type, w, TenBitRows(h))
<1>1. ~(w % 4 # 0 \/ type = "AFBC_PADDED")
  BY DEF get_yuv420_10bit_afbc_stride_and_size
<1>2. PICK ih \in Nat : ih = InternalHeight(h)
  BY InternalHeightIs
<1>3. PICK half \in Nat : half = ih \div 2
  OBVIOUS
<1>4. PICK x \in Nat, y \in Nat :
              /\ Align(w, AfbcAlign[type].w) = 16 * x /\ w <= 16 * x /\ Ceil(w, 16) <= x
              /\ Align(half, AfbcAlign[type].h) = 16 * y /\ half <= 16 * y
  BY BlocksHold
<1>5. PICK n \in Nat : n = TenBitRows(h)
  BY DEF TenBitRows
<1>6. PICK q \in Nat, m \in Nat, e \in Nat :
              /\ q = Ceil(n, 16) /\ m = Ceil(n, 2)
              /\ m + e <= 16 * y /\ e <= 1
              /\ q - e >= 0 /\ 16 * (q - e) <= ih
  BY <1>2, <1>3, <1>4, <1>5, TenBitHeights
<1>7. PICK l \in Nat : l = q - e
  BY <1>6
<1>8. PICK k \in Nat : k = AfbcHeader(16 * x, ih, type) /\ 16 * (x * l) <= k
  BY <1>6, <1>7, HeaderHolds
<1>9. get_yuv420_10bit_afbc_stride_and_size(w, h, type).size = 16 * x * 4 * (16 * y) + k
  BY <1>1, <1>2, <1>3, <1>4, <1>8 DEF get_yuv420_10bit_afbc_stride_and_size, Layout
<1>10. PICK cw \in Nat : cw = Ceil(w, 2) /\ cw <= 8 * x
  BY <1>4, Ceilings DEF Ceil
<1>11. PictureBytes("Y0L2", w, n) = cw * m * 8
  BY <1>6, <1>10, NamedPictures
<1>12. PICK p \in Nat : p = Ceil(w, 16) /\ p <= x
  BY <1>4, Ceilings
<1>13. Headers(type, w, n) = 16 * p * q
  <2>1. n <= n /\ type \in AllKinds /\ type # "UNCOMPRESSED"
    BY DEF AllKinds, Compressed
  <2> QED
    BY <2>1, <1>6, <1>12, HeadersGrow
<1>14. cw * m * 8 + 64 * (x * e) <= 16 * x * 4 * (16 * y) /\ cw * m * 8 \in Nat
  <2>1. cw * m <= (8 * x) * m /\ cw * m \in Nat /\ (8 * x) * m \in Nat
    BY <1>10, ProductGrows
  <2>2. x * (m + e) <= x * (16 * y) /\ x * (m + e) \in Nat /\ x * (16 * y) \in Nat
    BY <1>6, ProductGrows
  <2>3. x * (m + e) = x * m + x * e /\ (8 * x) * m = 8 * (x * m)
        /\ 16 * x * 4 * (16 * y) = 64 * (x * (16 * y))
    OBVIOUS
  <2>4. x * m \in Nat /\ x * e \in Nat
    OBVIOUS
  <2> QED
    BY <2>1, <2>2, <2>3, <2>4
<1>15. 16 * p * q <= 16 * (x * l) + 16 * (x * e) /\ 16 * p * q \in Nat
  <2>1. p * q <= x * q /\ p * q \in Nat /\ x * q \in Nat
    BY <1>12, ProductGrows
  <2>2. q = l + e
    BY <1>6, <1>7
  <2>3. x * q = x * l + x * e
    BY <2>2
  <2>4. 16 * p * q = 16 * (p * q)
    OBVIOUS
  <2> QED
    BY <2>1, <2>3, <2>4
<1>16. x * e \in Nat /\ 16 * x * 4 * (16 * y) \in Nat /\ x * l \in Nat
  OBVIOUS
<1>17. 16 * p * q + cw * m * 8 <= 16 * x * 4 * (16 * y) + k
  BY <1>8, <1>14, <1>15, <1>16
<1> QED
  BY <1>5, <1>9, <1>11, <1>13, <1>14, <1>15, <1>16, <1>17 DEF Holds

\* Lines of 128 bytes: what a pair of pixels takes is in the line whole.
LEMMA PackedIs ==
    ASSUME NEW bytes \in {2, 4}, NEW w \in Nat, NEW rows \in Nat, NEW h
    PROVE  \E s \in Nat : Packed(w, bytes, rows, h).size = s * rows /\ s * rows \in Nat
                          /\ 2 * bytes * Ceil(w, 2) <= s /\ w * bytes <= s
<1>1. PICK s \in Nat : s = Align(w * bytes, 128) /\ 2 * bytes * Ceil(w, 2) <= s /\ w * bytes <= s
  <2>1. CASE bytes = 2
    BY <2>1 DEF Align, Ceil
  <2>2. CASE bytes = 4
    BY <2>2 DEF Align, Ceil
  <2> QED
    BY <2>1, <2>2
<1>2. Packed(w, bytes, rows, h).size = s * rows
  BY <1>1 DEF Packed, Layout, YUV_MALI_PLANE_ALIGN
<1>3. s * rows \in Nat
  OBVIOUS
<1> QED
  BY <1>1, <1>2, <1>3

\* The uncompressed packed formats, and the two of a luma and a chroma plane.
LEMMA PackedHolds ==
    ASSUME NEW w \in Nat, NEW h \in Nat
    PROVE  /\ Holds(get_yuv422_8bit_stride_and_size(w, h), "YCbCr_422_I", "UNCOMPRESSED", w, h)
           /\ Holds(get_yuv_y210_stride_and_size(w, h), "Y210", "UNCOMPRESSED", w, h)
           /\ Holds(get_yuv_y410_stride_and_size(w, h), "Y410", "UNCOMPRESSED", w, h)
           /\ Holds(get_yuv_y0l2_stride_and_size(w, h), "Y0L2", "UNCOMPRESSED", w, h)
           /\ Holds(get_yuv_pX10_stride_and_size(w, h, 2), "P010", "UNCOMPRESSED", w, h)
           /\ Holds(get_yuv_pX10_stride_and_size(w, h, 1), "P210", "UNCOMPRESSED", w, h)
<1>1. PICK cw \in Nat, ch \in Nat : cw = Ceil(w, 2) /\ ch = Ceil(h, 2)
  BY Ceilings
<1>2. Align(h, 2) = 2 * ch /\ (2 * ch) \div 2 = ch /\ h \div 1 = h
  BY <1>1 DEF Align, Ceil
<1>3. \A n \in Nat : Headers("UNCOMPRESSED", w, n) = 0
  BY DEF Headers
<1>4. /\ PictureBytes("YCbCr_422_I", w, h) = cw * h * 4
      /\ PictureBytes("Y210", w, h) = cw * h * 8
      /\ PictureBytes("Y410", w, h) = w * h * 4
      /\ PictureBytes("Y0L2", w, h) = cw * ch * 8
      /\ PictureBytes("P010", w, h) = cw * ch * 12
      /\ PictureBytes("P210", w, h) = cw * h * 8
  BY <1>1, NamedPictures
<1>5. Holds(get_yuv422_8bit_stride_and_size(w, h), "YCbCr_422_I", "UNCOMPRESSED", w, h)
  <2>1. PICK s \in Nat : Packed(w, 2, h, h).size = s * h /\ s * h \in Nat /\ 4 * cw <= s
    BY <1>1, PackedIs
  <2>2. (4 * cw) * h <= s * h
    BY <2>1, ProductGrows
  <2>3. (4 * cw) * h = cw * h * 4 /\ cw * h * 4 \in Nat
    OBVIOUS
  <2> QED
    BY <1>3, <1>4, <2>1, <2>2, <2>3 DEF Holds, get_yuv422_8bit_stride_and_size
<1>6. Holds(get_yuv_y210_stride_and_size(w, h), "Y210", "UNCOMPRESSED", w, h)
  <2>1. PICK s \in Nat : Packed(w, 4, h, h).size = s * h /\ s * h \in Nat /\ 8 * cw <= s
    BY <1>1, PackedIs
  <2>2. (8 * cw) * h <= s * h
    BY <2>1, ProductGrows
  <2>3. (8 * cw) * h = cw * h * 8 /\ cw * h * 8 \in Nat
    OBVIOUS
  <2> QED
    BY <1>3, <1>4, <2>1, <2>2, <2>3 DEF Holds, get_yuv_y210_stride_and_size
<1>7. Holds(get_yuv_y410_stride_and_size(w, h), "Y410", "UNCOMPRESSED", w, h)
  <2>1. PICK s \in Nat : Packed(w, 4, h, h).size = s * h /\ s * h \in Nat /\ w * 4 <= s
    BY PackedIs
  <2>2. (w * 4) * h <= s * h
    BY <2>1, ProductGrows
  <2>3. (w * 4) * h = w * h * 4 /\ w * h * 4 \in Nat
    OBVIOUS
  <2> QED
    BY <1>3, <1>4, <2>1, <2>2, <2>3 DEF Holds, get_yuv_y410_stride_and_size
<1>8. Holds(get_yuv_y0l2_stride_and_size(w, h), "Y0L2", "UNCOMPRESSED", w, h)
  <2>1. PICK s \in Nat : Packed(w, 4, ch, h).size = s * ch /\ s * ch \in Nat /\ 8 * cw <= s
    BY <1>1, PackedIs
  <2>2. (8 * cw) * ch <= s * ch
    BY <2>1, ProductGrows
  <2>3. (8 * cw) * ch = cw * ch * 8 /\ cw * ch * 8 \in Nat
    OBVIOUS
  <2> QED
    BY <1>2, <1>3, <1>4, <2>1, <2>2, <2>3 DEF Holds, get_yuv_y0l2_stride_and_size
<1>9. Holds(get_yuv_pX10_stride_and_size(w, h, 2), "P010", "UNCOMPRESSED", w, h)
  <2>1. PICK n \in Nat : n = 3 * ch
    OBVIOUS
  <2>2. PICK s \in Nat : Packed(w, 2, n, h).size = s * n /\ s * n \in Nat /\ 4 * cw <= s
    BY <1>1, PackedIs
  <2>3. get_yuv_pX10_stride_and_size(w, h, 2) = Packed(w, 2, n, h)
    <3>1. 2 * ch + ch = n
      BY <2>1
    <3> QED
      BY <3>1, <1>2 DEF get_yuv_pX10_stride_and_size
  <2>4. (4 * cw) * n <= s * n
    BY <2>2, ProductGrows
  <2>5. (4 * cw) * n = cw * ch * 12 /\ cw * ch * 12 \in Nat
    BY <2>1
  <2> QED
    BY <1>3, <1>4, <2>2, <2>3, <2>4, <2>5 DEF Holds
<1>10. Holds(get_yuv_pX10_stride_and_size(w, h, 1), "P210", "UNCOMPRESSED", w, h)
  <2>1. PICK n \in Nat : n = 2 * h
    OBVIOUS
  <2>2. PICK s \in Nat : Packed(w, 2, n, h).size = s * n /\ s * n \in Nat /\ 4 * cw <= s
    BY <1>1, PackedIs
  <2>3. get_yuv_pX10_stride_and_size(w, h, 1) = Packed(w, 2, n, h)
    <3>1. h + h = n /\ 1 # 2
      BY <2>1
    <3> QED
      BY <3>1, <1>2 DEF get_yuv_pX10_stride_and_size
  <2>4. (4 * cw) * n <= s * n
    BY <2>2, ProductGrows
  <2>5. (4 * cw) * n = cw * h * 8 /\ cw * h * 8 \in Nat
    BY <2>1
  <2> QED
    BY <1>3, <1>4, <2>2, <2>3, <2>4, <2>5 DEF Holds
<1> QED
  BY <1>5, <1>6, <1>7, <1>8, <1>9, <1>10

\* The camera formats, for the dimensions their size function takes.
LEMMA CameraHolds ==
    ASSUME NEW b \in Camera, NEW w \in Nat, NEW h \in Nat, CameraAccepts(b, w, h),
           NEW lay \in get_camera_formats_stride_and_size(w, h, b)
    PROVE  Holds(lay, b, "UNCOMPRESSED", w, h)
<1>1. Headers("UNCOMPRESSED", w, h) = 0
  BY DEF Headers
<1>2. CASE b = "RAW16"
  <2>1. lay.size = Align(w, 16) * h * 2
    BY <1>2 DEF get_camera_formats_stride_and_size, Layout
  <2>2. PICK s \in Nat : s = Align(w, 16) /\ w <= s
    BY AlignsUp
  <2>3. w * h <= s * h /\ w * h \in Nat /\ s * h \in Nat
    BY <2>2, ProductGrows
  <2>4. PictureBytes("RAW16", w, h) = w * h * 2
    BY NamedPictures
  <2>5. w * h * 2 \in Nat /\ s * h * 2 \in Nat /\ w * h * 2 <= s * h * 2
    BY <2>3
  <2> QED
    BY <1>1, <1>2, <2>1, <2>2, <2>4, <2>5 DEF Holds
<1>3. CASE b = "RAW12"
  <2>1. lay.size = 3 * (w \div 2) * h
    BY <1>3 DEF get_camera_formats_stride_and_size, Layout
  <2>2. w % 4 = 0
    BY <1>3 DEF CameraAccepts
  <2>3. PICK c \in Nat : c = w \div 2 /\ c = Ceil(w, 2)
    BY <2>2 DEF Ceil
  <2>4. 3 * c * h = c * h * 3 /\ c * h * 3 \in Nat
    OBVIOUS
  <2>5. PictureBytes("RAW12", w, h) = Ceil(w, 2) * h * 3
    BY NamedPictures
  <2> QED
    BY <1>1, <1>3, <2>1, <2>3, <2>4, <2>5 DEF Holds
<1>4. CASE b = "RAW10"
  <2>1. lay.size = 5 * (w \div 4) * h
    BY <1>4 DEF get_camera_formats_stride_and_size, Layout
  <2>2. w % 4 = 0
    BY <1>4 DEF CameraAccepts
  <2>3. PICK c \in Nat : c = w \div 4 /\ c = Ceil(w, 4)
    BY <2>2 DEF Ceil
  <2>4. 5 * c * h = c * h * 5 /\ c * h * 5 \in Nat
    OBVIOUS
  <2>5. PictureBytes("RAW10", w, h) = Ceil(w, 4) * h * 5
    BY PictureIs
  <2> QED
    BY <1>1, <1>4, <2>1, <2>3, <2>4, <2>5 DEF Holds
<1>5. CASE b = "BLOB"
  <2>1. lay.size = w /\ h = 1
    BY <1>5 DEF get_camera_formats_stride_and_size, Layout, CameraAccepts
  <2>2. w * 1 * 1 = w
    OBVIOUS
  <2> QED
    BY <1>1, <1>5, <2>1, <2>2, NamedPictures DEF Holds
<1> QED
  BY <1>2, <1>3, <1>4, <1>5 DEF Camera

\* The rows of a picture that its buffer has room for.
RowsOf(base, type, h) == IF base = "Y0L2" /\ type # "UNCOMPRESSED" THEN TenBitRows(h) ELSE h

\* Whatever the switch of alloc_device_alloc chooses leaves room for the picture.
LEMMA LayoutsHold ==
    ASSUME NEW base, NEW usage, NEW type \in AllKinds, NEW w \in Nat, NEW h \in Nat,
           NEW lay \in Layouts(base, usage, type, w, h), lay.size > 0, CameraAccepts(base, w, h)
    PROVE  Holds(lay, base, type, w, RowsOf(base, type, h))
<1>1. lay # Invalid
  BY DEF Invalid, Layout
<1>2. ~(base \in Linear /\ type # "UNCOMPRESSED")
  BY <1>1 DEF Layouts
<1>3. type = "UNCOMPRESSED" \/ type \in Compressed
  BY DEF AllKinds
<1>4. CASE base \in DOMAIN BytesPerPixel
  <2>1. lay = get_rgb_stride_and_size(w, h, BytesPerPixel[base], type)
    BY <1>2, <1>4 DEF Layouts
  <2>2. RowsOf(base, type, h) = h
    BY <1>4 DEF RowsOf, BytesPerPixel
  <2> QED
    BY <1>4, <2>1, <2>2, RgbHolds
<1>5. CASE base \in Camera
  <2>1. base \notin DOMAIN BytesPerPixel /\ base \in Linear /\ base # "Y0L2"
    BY <1>5 DEF Camera, Linear, BytesPerPixel
  <2>2. lay \in get_camera_formats_stride_and_size(w, h, base)
    BY <1>2, <1>5, <2>1 DEF Layouts
  <2> QED
    BY <1>2, <1>5, <2>1, <2>2, CameraHolds DEF RowsOf
<1>6. CASE base \in Yuv420Planar
  <2>1. base \notin DOMAIN BytesPerPixel /\ base \notin Camera /\ base # "Y0L2"
    BY <1>6 DEF Camera, Yuv420Planar, BytesPerPixel
  <2>2. PICK align \in {16, 128} : align = IF SW \in usage THEN YUV_ANDROID_PLANE_ALIGN ELSE YUV_MALI_PLANE_ALIGN
    BY DEF YUV_ANDROID_PLANE_ALIGN, YUV_MALI_PLANE_ALIGN
  <2>3. lay = get_yv12_stride_and_size(w, h, type, align)
    BY <1>2, <1>6, <2>1, <2>2 DEF Layouts, Yuv420Planar
  <2> QED
    BY <1>1, <1>6, <2>1, <2>3, Yv12Holds DEF RowsOf
<1>7. CASE base \in {"YCbCr_422_I", "P010", "P210", "Y410"}
  <2>1. type = "UNCOMPRESSED"
    BY <1>2, <1>7 DEF Linear
  <2>2. base = "YCbCr_422_I" => lay = get_yuv422_8bit_stride_and_size(w, h)
    BY <2>1 DEF Layouts, Camera, Yuv420Planar, BytesPerPixel
  <2>3. base = "P010" => lay = get_yuv_pX10_stride_and_size(w, h, 2)
    BY <2>1 DEF Layouts, Camera, Yuv420Planar, BytesPerPixel
  <2>4. base = "P210" => lay = get_yuv_pX10_stride_and_size(w, h, 1)
    BY <2>1 DEF Layouts, Camera, Yuv420Planar, BytesPerPixel
  <2>5. base = "Y410" => lay = get_yuv_y410_stride_and_size(w, h)
    BY <2>1 DEF Layouts, Camera, Yuv420Planar, BytesPerPixel
  <2> QED
    BY <1>7, <2>1, <2>2, <2>3, <2>4, <2>5, PackedHolds DEF RowsOf
<1>8. CASE base = "Y0L2"
  <2>1. CASE type = "UNCOMPRESSED"
    <3>1. lay = get_yuv_y0l2_stride_and_size(w, h)
      BY <1>8, <2>1 DEF Layouts, Linear, Camera, Yuv420Planar, BytesPerPixel
    <3> QED
      BY <1>8, <2>1, <3>1, PackedHolds DEF RowsOf
  <2>2. CASE type # "UNCOMPRESSED"
    <3>1. lay = get_yuv420_10bit_afbc_stride_and_size(w, h, type)
      BY <1>8, <2>2 DEF Layouts, Linear, Camera, Yuv420Planar, BytesPerPixel
    <3> QED
      BY <1>1, <1>3, <1>8, <2>2, <3>1, Afbc420TenHolds DEF RowsOf
  <2> QED
    BY <2>1, <2>2
<1>9. CASE base = "Y210"
  <2>1. CASE type = "UNCOMPRESSED"
    <3>1. lay = get_yuv_y210_stride_and_size(w, h)
      BY <1>9, <2>1 DEF Layouts, Linear, Camera, Yuv420Planar, BytesPerPixel
    <3> QED
      BY <1>9, <2>1, <3>1, PackedHolds DEF RowsOf
  <2>2. CASE type # "UNCOMPRESSED"
    <3>1. lay = get_yuv422_10bit_afbc_stride_and_size(w, h, type)
      BY <1>9, <2>2 DEF Layouts, Linear, Camera, Yuv420Planar, BytesPerPixel
    <3> QED
      BY <1>1, <1>3, <1>9, <2>2, <3>1, Afbc422TenHolds DEF RowsOf
  <2> QED
    BY <2>1, <2>2
<1>10. CASE base = "YUV422_8BIT"
  <2>1. lay = get_afbc_yuv422_8bit_stride_and_size(w, h, type)
    BY <1>10 DEF Layouts, Linear, Camera, Yuv420Planar, BytesPerPixel
  <2> QED
    BY <1>1, <1>10, <2>1, Afbc422Holds DEF RowsOf
<1>11. CASE base \notin DOMAIN BytesPerPixel \cup Camera \cup Yuv420Planar
              \cup {"YCbCr_422_I", "P010", "P210", "Y410", "Y0L2", "Y210", "YUV422_8BIT"}
  <2>1. lay = Invalid
    BY <1>2, <1>11 DEF Layouts
  <2> QED
    BY <1>1, <2>1
<1> QED
  BY <1>4, <1>5, <1>6, <1>7, <1>8, <1>9, <1>10, <1>11

\* The sizes of the Utgard allocator.
LEMMA UtgardHolds ==
    ASSUME NEW f, NEW w \in Nat, NEW h \in Nat, UtgardLayout(f, w, h) # Invalid
    PROVE  Holds(UtgardLayout(f, w, h), f, "UNCOMPRESSED", w, h)
<1>1. Headers("UNCOMPRESSED", w, h) = 0
  BY DEF Headers
<1>2. CASE f \in {"YCrCb_420_SP", "YV12"}
  <2>1. PICK cw \in Nat, ch \in Nat : cw = Ceil(w, 2) /\ ch = Ceil(h, 2)
    BY Ceilings
  <2>2. PICK x \in Nat : Align(w, 16) = 2 * x /\ cw <= x
    <3>1. PICK x \in Nat : x = 8 * ((w + 16 - 1) \div 16)
      OBVIOUS
    <3> QED
      BY <3>1, <2>1 DEF Align, Ceil
  <2>3. PICK c \in Nat : c = Align((2 * x) \div 2, 16) /\ x <= c
    <3>1. (2 * x) \div 2 = x
      OBVIOUS
    <3> QED
      BY <3>1, AlignsUp
  <2>4. PICK r \in Nat : r = (IF f = "YV12" THEN Align(h, 2) ELSE Align(h, 16)) /\ 2 * ch <= r
    <3>1. CASE f = "YV12"
      BY <3>1, <2>1 DEF Align, Ceil
    <3>2. CASE f # "YV12"
      BY <3>2, <2>1 DEF Align, Ceil
    <3> QED
      BY <3>1, <3>2
  <2>5. UtgardLayout(f, w, h).size = r * (2 * x + c)
    BY <1>2, <2>2, <2>3, <2>4 DEF UtgardLayout, Layout
  <2>6. 3 * cw <= 2 * x + c
    BY <2>2, <2>3
  <2>7. (2 * ch) * (3 * cw) <= r * (2 * x + c) /\ r * (2 * x + c) \in Nat
    BY <2>4, <2>6, ProductGrows
  <2>8. (2 * ch) * (3 * cw) = cw * ch * 6 /\ cw * ch * 6 \in Nat
    OBVIOUS
  <2>9. PictureBytes(f, w, h) = cw * ch * 6
    <3>1. f \in Formats2x2 /\ Unit[f] = 6
      BY <1>2, Units DEF Yuv420Planar
    <3> QED
      BY <3>1, <2>1, PictureIs
  <2> QED
    BY <1>1, <2>5, <2>7, <2>8, <2>9 DEF Holds
<1>3. CASE f \in DOMAIN BytesPerPixel
  <2>1. f \notin {"YCrCb_420_SP", "YV12"}
    BY <1>3 DEF BytesPerPixel
  <2>2. UtgardLayout(f, w, h).size = get_rgb_stride_and_size(w, h, BytesPerPixel[f], "UNCOMPRESSED").size
    BY <1>3, <2>1 DEF UtgardLayout, get_rgb_stride_and_size, Layout
  <2>3. "UNCOMPRESSED" \in AllKinds
    BY DEF AllKinds
  <2> QED
    BY <1>3, <2>2, <2>3, RgbHolds DEF Holds
<1>4. CASE f \notin {"YCrCb_420_SP", "YV12"} \cup DOMAIN BytesPerPixel
  <2>1. f = "BLOB" /\ h = 1
    BY <1>4 DEF UtgardLayout
  <2>2. UtgardLayout(f, w, h).size = w
    BY <1>4, <2>1 DEF UtgardLayout, Layout
  <2>3. w * 1 * 1 = w
    OBVIOUS
  <2>4. PictureBytes("BLOB", w, h) = w
    BY <2>1, <2>3, NamedPictures
  <2> QED
    BY <1>1, <2>1, <2>2, <2>4 DEF Holds
<1> QED
  BY <1>2, <1>3, <1>4

-----------------------------------------------------------------------------
(* GrallocLayout: the invariant, and that what is allocated fits. *)

\* Every pixel of a picture that is not held whole has at least a byte in the rows that are.
LEMMA PictureHasPixels ==
    ASSUME NEW base \in Formats1x1 \cup Formats2x1 \cup Formats2x2, NEW w \in Nat, NEW n \in Nat
    PROVE  w * n \in Nat /\ PictureBytes(base, w, n) \in Nat /\ w * n <= PictureBytes(base, w, n)
<1>1. PICK cw \in Nat, ch \in Nat : cw = Ceil(w, 2) /\ ch = Ceil(n, 2) /\ w <= 2 * cw /\ n <= 2 * ch
  BY Ceilings
<1>2. w * n \in Nat
  OBVIOUS
<1>3. CASE base \in Formats1x1
  <2>1. PICK c \in 1..4 : PictureBytes(base, w, n) = w * n * c
    <3>1. PictureBytes(base, w, n) = w * n * Unit[base] /\ Unit[base] \in 1..4
      BY <1>3, PictureIs
    <3> QED
      BY <3>1
  <2>2. w * n * c \in Nat /\ w * n <= w * n * c
    BY <1>2
  <2> QED
    BY <1>2, <2>1, <2>2
<1>4. CASE base \in Formats2x1
  <2>1. PICK c \in 3..8 : PictureBytes(base, w, n) = cw * n * c
    <3>1. PictureBytes(base, w, n) = cw * n * Unit[base] /\ Unit[base] \in 3..8
      BY <1>1, <1>4, PictureIs
    <3> QED
      BY <3>1
  <2>2. w * n <= (2 * cw) * n /\ (2 * cw) * n \in Nat /\ cw * n \in Nat
    BY <1>1, ProductGrows
  <2>3. (2 * cw) * n = cw * n * 2
    OBVIOUS
  <2>4. cw * n * 2 <= cw * n * c /\ cw * n * c \in Nat
    BY <2>2, ProductGrows
  <2> QED
    BY <1>2, <2>1, <2>2, <2>3, <2>4
<1>5. CASE base \in Formats2x2
  <2>1. PICK c \in 6..12 : PictureBytes(base, w, n) = cw * ch * c
    <3>1. PictureBytes(base, w, n) = cw * ch * Unit[base] /\ Unit[base] \in 6..12
      BY <1>1, <1>5, PictureIs
    <3> QED
      BY <3>1
  <2>2. w * n <= (2 * cw) * (2 * ch) /\ (2 * cw) * (2 * ch) \in Nat /\ cw * ch \in Nat
    BY <1>1, ProductGrows
  <2>3. (2 * cw) * (2 * ch) = cw * ch * 4
    OBVIOUS
  <2>4. cw * ch * 4 <= cw * ch * c /\ cw * ch * c \in Nat
    BY <2>2, ProductGrows
  <2> QED
    BY <1>2, <2>1, <2>2, <2>3, <2>4
<1> QED
  BY <1>3, <1>4, <1>5

\* A handle that Alloc has made with the capabilities of now.
Made(req, w, h, lay) ==
    LET fmt  == mali_gralloc_select_format(caps, req.format, req.mods, req.usage)
        type == AllocType(fmt, req.usage)
    IN /\ caps # NoCaps /\ "HW_FB" \notin req.usage /\ fmt # NoFormat /\ type # "refused"
       /\ lay \in Layouts(fmt.base, req.usage, type, w, h)
       /\ lay.size > 0
       /\ buf = [size |-> lay.size, byte_stride |-> lay.byte_stride,
                 stride |-> lay.pixel_stride, width |-> w, height |-> h,
                 internalHeight |-> lay.ih, usage |-> req.usage,
                 req_format |-> req.format, internal_format |-> fmt,
                 initialised |-> init_afbc(fmt, w, h)]

FromAlloc == \E req \in Requests, d \in Dimensions : \E lay : Made(req, d[1], d[2], lay)

\* A handle that UtgardAlloc has made.
FromUtgard ==
    /\ build.hal = "utgard"
    /\ \E f \in Formats, d \in Dimensions :
          /\ UtgardLayout(f, d[1], d[2]) # Invalid
          /\ buf = [size |-> UtgardLayout(f, d[1], d[2]).size,
                    byte_stride |-> UtgardLayout(f, d[1], d[2]).byte_stride,
                    stride |-> UtgardLayout(f, d[1], d[2]).pixel_stride,
                    width |-> d[1], height |-> d[2],
                    internalHeight |-> d[2], usage |-> {}, req_format |-> f,
                    internal_format |-> [base |-> f, mods |-> {}],
                    initialised |-> 0]

\* The planes of the buffer as it is.
PlanesOf(base, y_stride, c_stride, y_size, c_size) ==
    \/ /\ base = "NV12"
       /\ view = [cb |-> y_size, cr |-> y_size + 1, step |-> 2,
                  ystride |-> y_stride, cstride |-> y_stride]
    \/ /\ base = "NV21"
       /\ view = [cb |-> y_size + 1, cr |-> y_size, step |-> 2,
                  ystride |-> y_stride, cstride |-> y_stride]
    \/ /\ base = "YV12"
       /\ view = [cb |-> y_size + c_size, cr |-> y_size, step |-> 1,
                  ystride |-> y_stride, cstride |-> c_stride]

Viewed ==
    /\ build.hal = "midgard" /\ buf # NoBuffer /\ buf.internal_format.mods = {}
    /\ PlanesOf(buf.internal_format.base, buf.byte_stride, Align(buf.byte_stride \div 2, 16),
                buf.byte_stride * AdjustedHeight,
                Align(buf.byte_stride \div 2, 16) * (AdjustedHeight \div 2))

\* A buffer is what one allocation made of one request, with capabilities that have not
\* changed since, and what a client was told of it is what lock_ycbcr made of its handle.
LayoutInv ==
    /\ buf # NoBuffer => FromAlloc \/ FromUtgard
    /\ view # NoView => Viewed

\* Nothing of an allocation depends on anything but the build and the capabilities.
LEMMA MadeStays ==
    ASSUME UNCHANGED <<build, caps, buf>>, NEW req, NEW w, NEW h, NEW lay, Made(req, w, h, lay)
    PROVE  Made(req, w, h, lay)'
<1>1. PICK fmt : fmt = mali_gralloc_select_format(caps, req.format, req.mods, req.usage)
  OBVIOUS
<1>2. PICK type : type = AllocType(fmt, req.usage)
  OBVIOUS
<1>3. InternalHeight(h)' = InternalHeight(h) /\ init_afbc(fmt, w, h)' = init_afbc(fmt, w, h)
  BY DEF InternalHeight, init_afbc
<1>4. get_afbc_yuv420_8bit_stride_and_size(w, h, type)' = get_afbc_yuv420_8bit_stride_and_size(w, h, type)
  BY <1>3 DEF get_afbc_yuv420_8bit_stride_and_size
<1>5. \A align : get_yv12_stride_and_size(w, h, type, align)' = get_yv12_stride_and_size(w, h, type, align)
  BY <1>4 DEF get_yv12_stride_and_size
<1>6. get_yuv420_10bit_afbc_stride_and_size(w, h, type)' = get_yuv420_10bit_afbc_stride_and_size(w, h, type)
  BY <1>3 DEF get_yuv420_10bit_afbc_stride_and_size
<1>7. Layouts(fmt.base, req.usage, type, w, h)' = Layouts(fmt.base, req.usage, type, w, h)
  BY <1>5, <1>6 DEF Layouts
<1>8. mali_gralloc_select_format(caps, req.format, req.mods, req.usage)' = fmt
  BY <1>1
<1> QED
  BY <1>1, <1>2, <1>3, <1>7, <1>8 DEF Made

\* The invariant holds of every state.
THEOREM LayoutsStand == LayoutSpec => []LayoutInv
<1>1. LayoutInit => LayoutInv
  BY DEF LayoutInit, LayoutInv
<1>2. LayoutInv /\ [LayoutNext]_layoutVars => LayoutInv'
  <2> SUFFICES ASSUME LayoutInv, [LayoutNext]_layoutVars PROVE LayoutInv'
    OBVIOUS
  <2>1. ASSUME UNCHANGED <<build, caps, buf>> PROVE buf' # NoBuffer => FromAlloc' \/ FromUtgard'
    <3>1. FromAlloc => FromAlloc'
      BY <2>1, MadeStays DEF FromAlloc
    <3>2. FromUtgard => FromUtgard'
      BY <2>1 DEF FromUtgard
    <3> QED
      BY <2>1, <3>1, <3>2 DEF LayoutInv
  <2>2. CASE ReadCaps
    <3>1. caps = NoCaps /\ build.hal = "midgard" /\ UNCHANGED <<buf, view>>
      BY <2>2 DEF ReadCaps
    <3>2. ~FromAlloc /\ ~FromUtgard
      BY <3>1 DEF FromAlloc, Made, FromUtgard
    <3>3. buf = NoBuffer /\ view = NoView
      BY <3>2 DEF LayoutInv, Viewed
    <3> QED
      BY <3>1, <3>3 DEF LayoutInv
  <2>3. ASSUME NEW req \in Requests, NEW d \in Dimensions, Alloc(req, d[1], d[2])
        PROVE  LayoutInv'
    <3>1. PICK fmt : fmt = mali_gralloc_select_format(caps, req.format, req.mods, req.usage)
      OBVIOUS
    <3>2. PICK type : type = AllocType(fmt, req.usage)
      OBVIOUS
    <3>3. /\ caps # NoCaps /\ buf = NoBuffer /\ "HW_FB" \notin req.usage /\ fmt # NoFormat
          /\ type # "refused" /\ UNCHANGED <<build, caps, view>>
      BY <2>3, <3>1, <3>2 DEF Alloc
    <3>4. PICK lay \in Layouts(fmt.base, req.usage, type, d[1], d[2]) :
             /\ lay.size > 0
             /\ buf' = [size |-> lay.size, byte_stride |-> lay.byte_stride,
                        stride |-> lay.pixel_stride, width |-> d[1], height |-> d[2],
                        internalHeight |-> lay.ih, usage |-> req.usage,
                        req_format |-> req.format, internal_format |-> fmt,
                        initialised |-> init_afbc(fmt, d[1], d[2])]
      BY <2>3, <3>1, <3>2 DEF Alloc
    <3>5. Made(req, d[1], d[2], lay)'
      <4>1. PICK w : w = d[1]
        OBVIOUS
      <4>2. PICK h : h = d[2]
        OBVIOUS
      <4>3. InternalHeight(h)' = InternalHeight(h) /\ init_afbc(fmt, w, h)' = init_afbc(fmt, w, h)
        BY <3>3 DEF InternalHeight, init_afbc
      <4>4. get_afbc_yuv420_8bit_stride_and_size(w, h, type)' = get_afbc_yuv420_8bit_stride_and_size(w, h, type)
        BY <4>3 DEF get_afbc_yuv420_8bit_stride_and_size
      <4>5. \A align : get_yv12_stride_and_size(w, h, type, align)' = get_yv12_stride_and_size(w, h, type, align)
        BY <4>4 DEF get_yv12_stride_and_size
      <4>6. get_yuv420_10bit_afbc_stride_and_size(w, h, type)' = get_yuv420_10bit_afbc_stride_and_size(w, h, type)
        BY <4>3 DEF get_yuv420_10bit_afbc_stride_and_size
      <4>7. Layouts(fmt.base, req.usage, type, w, h)' = Layouts(fmt.base, req.usage, type, w, h)
        BY <4>5, <4>6 DEF Layouts
      <4>8. mali_gralloc_select_format(caps, req.format, req.mods, req.usage)' = fmt
        BY <3>1, <3>3
      <4> QED
        BY <3>1, <3>2, <3>3, <3>4, <4>1, <4>2, <4>3, <4>7, <4>8 DEF Made
    <3>6. view' = NoView
      BY <3>3 DEF LayoutInv, Viewed
    <3> QED
      BY <3>5, <3>6 DEF LayoutInv, FromAlloc
  <2>4. ASSUME NEW f \in Formats, NEW d \in Dimensions, UtgardAlloc(f, d[1], d[2])
        PROVE  LayoutInv'
    <3>1. FromUtgard'
      BY <2>4 DEF UtgardAlloc, FromUtgard
    <3>2. view' = NoView
      BY <2>4 DEF UtgardAlloc, LayoutInv, Viewed
    <3> QED
      BY <3>1, <3>2 DEF LayoutInv
  <2>5. CASE LockYcbcr
    <3>1. UNCHANGED <<build, lib, caps, buf>> /\ build.hal = "midgard" /\ buf # NoBuffer
          /\ buf.internal_format.mods = {}
      BY <2>5 DEF LockYcbcr
    <3>2. Viewed'
      BY <2>5, <3>1 DEF LockYcbcr, Viewed, PlanesOf, AdjustedHeight
    <3> QED
      BY <2>1, <3>1, <3>2 DEF LayoutInv
  <2>6. CASE FreeBuffer
    BY <2>6 DEF FreeBuffer, LayoutInv
  <2>7. CASE UNCHANGED layoutVars
    <3>1. UNCHANGED <<build, lib, caps, buf, view>>
      BY <2>7 DEF layoutVars
    <3>2. Viewed => Viewed'
      BY <3>1 DEF Viewed, PlanesOf, AdjustedHeight
    <3> QED
      BY <2>1, <3>1, <3>2 DEF LayoutInv
  <2> QED
    BY <2>2, <2>3, <2>4, <2>5, <2>6, <2>7 DEF LayoutNext
<1> QED
  BY <1>1, <1>2, PTL DEF LayoutSpec

\* The kind of an allocation says whether the buffer is compressed.
LEMMA KindsOf ==
    ASSUME NEW fmt, NEW usage, AllocType(fmt, usage) # "refused"
    PROVE  /\ AllocType(fmt, usage) \in AllKinds
           /\ AllocType(fmt, usage) = "UNCOMPRESSED" <=> fmt.mods \cap AfbcModes = {}
  BY DEF AllocType, AllKinds, Compressed

\* A format that has compressed pictures stores a byte or more for each pixel.
LEMMA CompressedBases ==
    ASSUME NEW base, NEW usage, NEW type \in Compressed, NEW w \in Nat, NEW h \in Nat,
           NEW lay \in Layouts(base, usage, type, w, h), lay.size > 0
    PROVE  base \in Formats1x1 \cup Formats2x1 \cup Formats2x2
<1>1. lay # Invalid
  BY DEF Invalid, Layout
<1>2. type # "UNCOMPRESSED"
  BY DEF Compressed
<1>3. base \notin Linear
  BY <1>1, <1>2 DEF Layouts
<1>4. base \notin Camera
  BY <1>3 DEF Linear
<1>5. ASSUME base \notin Formats1x1 \cup Formats2x1 \cup Formats2x2 PROVE FALSE
  <2>1. base \notin DOMAIN BytesPerPixel /\ base \notin Yuv420Planar
    BY <1>5, Units
  <2>2. base \notin {"YCbCr_422_I", "Y0L2", "P010", "P210", "Y210", "Y410", "YUV422_8BIT"}
    BY <1>5 DEF Formats1x1, Formats2x1, Formats2x2
  <2> QED
    BY <1>1, <1>3, <1>4, <2>1, <2>2 DEF Layouts
<1> QED
  BY <1>5

\* The headers init_afbc writes take no more room than half the rows of the picture.
LEMMA HeadersWritten ==
    ASSUME NEW base \in Formats1x1 \cup Formats2x1 \cup Formats2x2,
           NEW w \in Nat, NEW h \in Nat, NEW n \in Nat, h <= 2 * n
    PROVE  ((w * h) \div 64) * 16 \in Nat /\ ((w * h) \div 64) * 16 <= PictureBytes(base, w, n)
<1>1. PICK p \in Nat : p = w * n
  OBVIOUS
<1>2. p <= PictureBytes(base, w, n) /\ PictureBytes(base, w, n) \in Nat
  BY <1>1, PictureHasPixels
<1>3. w * h <= w * (2 * n) /\ w * h \in Nat
  BY ProductGrows
<1>4. w * (2 * n) = 2 * (w * n)
  OBVIOUS
<1>5. PICK q \in Nat : q = w * h /\ q <= 2 * p
  BY <1>1, <1>3, <1>4
<1>6. (q \div 64) * 16 \in Nat /\ (q \div 64) * 16 <= p
  BY <1>5
<1> QED
  BY <1>2, <1>5, <1>6

\* The rows held of a picture: at least half of them, if any.
LEMMA RowsAre ==
    ASSUME NEW base, NEW type, NEW h \in Nat
    PROVE  /\ RowsOf(base, type, h) \in Nat
           /\ RowsOf(base, type, h) > 0 => h <= 2 * RowsOf(base, type, h)
  BY DEF RowsOf, TenBitRows

\* Every buffer holds its picture, and what the allocator writes stays inside
\* (src/gralloc960/alloc_device.cpp:181-1143, src/gralloc/alloc_device.cpp:372-469).
THEOREM PicturesDoFit == LayoutSpec => []PictureFits
<1>1. ASSUME LayoutInv PROVE PictureFits
  <2>1. SUFFICES ASSUME buf # NoBuffer,
                        CameraAccepts(buf.internal_format.base, buf.width, buf.height)
                 PROVE  /\ buf.size >= PictureBytes(buf.internal_format.base, buf.width, RowsHeld)
                              + (IF buf.internal_format.mods \cap AfbcModes = {} THEN 0
                                 ELSE 16 * Ceil(buf.width, 16) * Ceil(RowsHeld, 16))
                        /\ RowsHeld > 0 => buf.initialised <= buf.size
    BY DEF PictureFits
  <2>2. SUFFICES ASSUME NEW base, NEW type \in AllKinds, NEW w \in Nat, NEW h \in Nat, NEW lay,
                        buf.internal_format.base = base, buf.width = w, buf.height = h,
                        type = "UNCOMPRESSED" <=> buf.internal_format.mods \cap AfbcModes = {},
                        buf.size = lay.size,
                        Holds(lay, base, type, w, RowsOf(base, type, h)),
                        \/ buf.initialised = 0
                        \/ /\ buf.initialised = ((w * h) \div 64) * 16
                           /\ base \in Formats1x1 \cup Formats2x1 \cup Formats2x2
                 PROVE  /\ lay.size >= PictureBytes(base, w, RowsHeld)
                              + (IF type = "UNCOMPRESSED" THEN 0
                                 ELSE 16 * Ceil(w, 16) * Ceil(RowsHeld, 16))
                        /\ RowsHeld > 0 => buf.initialised <= lay.size
    <3>1. CASE FromAlloc
      <4>0. PICK req \in Requests, d \in Dimensions : \E lay : Made(req, d[1], d[2], lay)
        BY <3>1 DEF FromAlloc
      <4>1. PICK lay : Made(req, d[1], d[2], lay)
        BY <4>0
      <4>2. PICK w \in Nat, h \in Nat : w = d[1] /\ h = d[2]
        BY <4>0, DimensionsAssumption
      <4>3. PICK fmt : fmt = mali_gralloc_select_format(caps, req.format, req.mods, req.usage)
        OBVIOUS
      <4>4. PICK type : type = AllocType(fmt, req.usage)
        OBVIOUS
      <4>5. /\ type # "refused" /\ lay \in Layouts(fmt.base, req.usage, type, w, h) /\ lay.size > 0
            /\ buf.internal_format = fmt /\ buf.width = w /\ buf.height = h /\ buf.size = lay.size
            /\ buf.initialised = init_afbc(fmt, w, h)
        BY <4>1, <4>2, <4>3, <4>4 DEF Made
      <4>6. type \in AllKinds /\ (type = "UNCOMPRESSED" <=> fmt.mods \cap AfbcModes = {})
        BY <4>4, <4>5, KindsOf
      <4>7. CameraAccepts(fmt.base, w, h)
        BY <2>1, <4>5
      <4>8. Holds(lay, fmt.base, type, w, RowsOf(fmt.base, type, h))
        BY <4>5, <4>6, <4>7, LayoutsHold
      <4>9. \/ buf.initialised = 0
            \/ /\ buf.initialised = ((w * h) \div 64) * 16
               /\ fmt.base \in Formats1x1 \cup Formats2x1 \cup Formats2x2
        <5>1. CASE type = "UNCOMPRESSED"
          BY <4>5, <4>6, <5>1 DEF init_afbc
        <5>2. CASE type \in Compressed
          <6>1. fmt.base \in Formats1x1 \cup Formats2x1 \cup Formats2x2
            BY <4>5, <5>2, CompressedBases
          <6> QED
            BY <4>5, <6>1 DEF init_afbc
        <5> QED
          BY <4>6, <5>1, <5>2 DEF AllKinds
      <4> QED
        BY <2>2, <4>5, <4>6, <4>8, <4>9
    <3>2. CASE FromUtgard
      <4>1. PICK f \in Formats, d \in Dimensions :
               /\ UtgardLayout(f, d[1], d[2]) # Invalid
               /\ buf = [size |-> UtgardLayout(f, d[1], d[2]).size,
                         byte_stride |-> UtgardLayout(f, d[1], d[2]).byte_stride,
                         stride |-> UtgardLayout(f, d[1], d[2]).pixel_stride,
                         width |-> d[1], height |-> d[2],
                         internalHeight |-> d[2], usage |-> {}, req_format |-> f,
                         internal_format |-> [base |-> f, mods |-> {}],
                         initialised |-> 0]
        BY <3>2 DEF FromUtgard
      <4>2. PICK w \in Nat, h \in Nat : w = d[1] /\ h = d[2]
        BY <4>1, DimensionsAssumption
      <4>3. PICK lay : lay = UtgardLayout(f, w, h)
        OBVIOUS
      <4>4. lay # Invalid /\ buf.internal_format = [base |-> f, mods |-> {}] /\ buf.width = w
            /\ buf.height = h /\ buf.size = lay.size /\ buf.initialised = 0
        BY <4>1, <4>2, <4>3
      <4>5. Holds(lay, f, "UNCOMPRESSED", w, h)
        BY <4>3, <4>4, UtgardHolds
      <4>6. RowsOf(f, "UNCOMPRESSED", h) = h /\ "UNCOMPRESSED" \in AllKinds
        BY DEF RowsOf, AllKinds
      <4>7. buf.internal_format.base = f /\ buf.internal_format.mods = {}
        BY <4>4
      <4>8. Holds(lay, f, "UNCOMPRESSED", w, RowsOf(f, "UNCOMPRESSED", h))
        BY <4>5, <4>6
      <4> QED
        BY <2>2, <4>4, <4>6, <4>7, <4>8
    <3> QED
      BY <1>1, <2>1, <3>1, <3>2 DEF LayoutInv
  <2>3. PICK n \in Nat : n = RowsOf(base, type, h) /\ (n > 0 => h <= 2 * n)
    BY RowsAre
  <2>4. RowsHeld = n
    BY <2>2, <2>3 DEF RowsHeld, RowsOf, TenBitRows
  <2>5. lay.size \in Nat /\ PictureBytes(base, w, n) + Headers(type, w, n) <= lay.size
    BY <2>2, <2>3 DEF Holds
  <2>6. Headers(type, w, n) \in Nat
    BY HeadersGrow
  <2>7. CASE buf.initialised = 0
    BY <2>4, <2>5, <2>7 DEF Headers
  <2>8. CASE /\ buf.initialised = ((w * h) \div 64) * 16
             /\ base \in Formats1x1 \cup Formats2x1 \cup Formats2x2
    <3>1. PictureBytes(base, w, n) \in Nat
      BY <2>8, PictureHasPixels
    <3>2. n > 0 => buf.initialised <= PictureBytes(base, w, n) /\ buf.initialised \in Nat
      BY <2>3, <2>8, HeadersWritten
    <3>3. n > 0 => buf.initialised <= lay.size
      BY <2>5, <2>6, <3>1, <3>2
    <3>4. lay.size >= PictureBytes(base, w, n)
             + (IF type = "UNCOMPRESSED" THEN 0 ELSE 16 * Ceil(w, 16) * Ceil(n, 16))
      BY <2>5 DEF Headers
    <3> QED
      BY <2>4, <3>3, <3>4
  <2> QED
    BY <2>2, <2>7, <2>8
<1> QED
  BY <1>1, LayoutsStand, PTL

-----------------------------------------------------------------------------
(* GrallocLayout: where lock_ycbcr says the planes are. *)

\* Half a line of a planar buffer, and the alignments that either side makes of it.
LEMMA LinesOfPlanes ==
    ASSUME NEW w \in Nat, NEW align, align = 16 \/ align = 128
    PROVE  LET x == Align(w, align) \div 2
           IN /\ x \in Nat /\ Align(w, align) = 2 * x /\ w <= 2 * x /\ Ceil(w, 2) <= x
              /\ Align(x, 16) \in Nat /\ x <= Align(x, 16)
              /\ Align(x, align) \in Nat /\ Align(x, 16) <= Align(x, align)
<1>1. CASE align = 16
  <2>1. PICK x \in Nat : x = 8 * ((w + 16 - 1) \div 16)
    OBVIOUS
  <2>2. Align(x, 16) \in Nat /\ x <= Align(x, 16)
    BY AlignsUp
  <2>3. Align(w, 16) = 2 * x /\ w <= 2 * x /\ Ceil(w, 2) <= x
    BY <2>1 DEF Align, Ceil
  <2>4. (2 * x) \div 2 = x
    OBVIOUS
  <2> QED
    BY <1>1, <2>2, <2>3, <2>4
<1>2. CASE align = 128
  <2>1. PICK x \in Nat : x = 64 * ((w + 128 - 1) \div 128)
    OBVIOUS
  <2>2. Align(x, 16) \in Nat /\ x <= Align(x, 16)
    BY AlignsUp
  <2>3. Align(w, 128) = 2 * x /\ w <= 2 * x /\ Ceil(w, 2) <= x
    BY <2>1 DEF Align, Ceil
  <2>4. (2 * x) \div 2 = x
    OBVIOUS
  <2>5. Align(x, 128) \in Nat /\ Align(x, 16) <= Align(x, 128)
    BY DEF Align
  <2> QED
    BY <1>2, <2>2, <2>3, <2>4, <2>5
<1> QED
  BY <1>1, <1>2

\* The allocation has lines of 2 * x bytes of luma, and after them for each pair of rows
\* two halves of k bytes; the view takes the halves to have c bytes.
LEMMA PlanesFit ==
    ASSUME NEW w \in Nat, NEW h \in Nat, w >= 1, h >= 1, NEW x \in Nat, NEW c \in Nat, NEW k \in Nat,
           w <= 2 * x, Ceil(w, 2) <= x, x <= c, c <= k
    PROVE  LET cw   == Ceil(w, 2)
               ch   == Ceil(h, 2)
               luma == (2 * x) * (2 * ch)
               size == (2 * ch) * (2 * x + k)
           IN /\ (h - 1) * (2 * x) + w <= luma
              /\ luma + 1 + ((ch - 1) * (2 * x) + (cw - 1) * 2) < size
              /\ luma + c * ch + ((ch - 1) * c + (cw - 1) * 1) < size
              /\ luma + ((ch - 1) * c + (cw - 1) * 1) < luma + c * ch
<1>1. PICK cw \in Nat : cw = Ceil(w, 2) /\ cw >= 1 /\ cw <= x
  BY DEF Ceil
<1>2. PICK ch \in Nat : ch = Ceil(h, 2) /\ ch >= 1 /\ h <= 2 * ch
  BY DEF Ceil
<1>3. PICK m \in Nat : ch = m + 1
  BY <1>2
<1>4. PICK p \in Nat : p = x * m
  OBVIOUS
<1>5. PICK q \in Nat : q = c * m
  OBVIOUS
<1>6. PICK r \in Nat : r = k * m
  OBVIOUS
<1>7. p <= q /\ q <= r
  BY <1>4, <1>5, <1>6, ProductGrows
<1>8. x * ch = p + x /\ c * ch = q + c /\ k * ch = r + k
  BY <1>3, <1>4, <1>5, <1>6
<1>9. (2 * x) * (2 * ch) = 4 * (x * ch)
  OBVIOUS
<1>10. (2 * ch) * (2 * x + k) = 4 * (x * ch) + 2 * (k * ch)
  OBVIOUS
<1>11. (ch - 1) * (2 * x) = 2 * p /\ (ch - 1) * c = q
  BY <1>3, <1>4, <1>5
<1>12. (h - 1) * (2 * x) <= (2 * m + 1) * (2 * x)
  <2>1. h - 1 \in Nat /\ h - 1 <= 2 * m + 1
    BY <1>2, <1>3
  <2> QED
    BY <2>1, ProductGrows
<1>13. (2 * m + 1) * (2 * x) = 4 * p + 2 * x
  BY <1>4
<1>14. (h - 1) * (2 * x) \in Int
  OBVIOUS
<1>15. (h - 1) * (2 * x) + w <= 4 * (p + x)
  BY <1>12, <1>13, <1>14
<1>16. 4 * (p + x) + 1 + (2 * p + (cw - 1) * 2) < 4 * (p + x) + 2 * (r + k)
  BY <1>1, <1>7
<1>17. 4 * (p + x) + (q + c) + (q + (cw - 1) * 1) < 4 * (p + x) + 2 * (r + k)
  BY <1>1, <1>7
<1>18. 4 * (p + x) + (q + (cw - 1) * 1) < 4 * (p + x) + (q + c)
  BY <1>1
<1> QED
  BY <1>1, <1>2, <1>8, <1>9, <1>10, <1>11, <1>15, <1>16, <1>17, <1>18

\* What lock_ycbcr says of a planar buffer is true of what the allocator made
\* (src/gralloc960/gralloc_module.cpp:174-257, src/gralloc960/alloc_device.cpp:355-389).
THEOREM PlanesDoLieInside == LayoutSpec => []PlanesInsideBuffer
<1>1. ASSUME LayoutInv PROVE PlanesInsideBuffer
  <2>1. SUFFICES ASSUME view # NoView PROVE PlanesInsideBuffer
    BY DEF PlanesInsideBuffer
  <2>2. /\ build.hal = "midgard" /\ buf # NoBuffer /\ buf.internal_format.mods = {}
        /\ PlanesOf(buf.internal_format.base, buf.byte_stride, Align(buf.byte_stride \div 2, 16),
                    buf.byte_stride * AdjustedHeight,
                    Align(buf.byte_stride \div 2, 16) * (AdjustedHeight \div 2))
    BY <1>1, <2>1 DEF LayoutInv, Viewed
  <2>0. PICK req \in Requests, d \in Dimensions : \E lay : Made(req, d[1], d[2], lay)
    BY <1>1, <2>2 DEF LayoutInv, FromUtgard, FromAlloc
  <2>3. PICK lay : Made(req, d[1], d[2], lay)
    BY <2>0
  <2>4. PICK w \in Nat, h \in Nat : w = d[1] /\ h = d[2] /\ w >= 1 /\ h >= 1
    BY <2>0, DimensionsAssumption
  <2>5. PICK fmt : fmt = mali_gralloc_select_format(caps, req.format, req.mods, req.usage)
    OBVIOUS
  <2>6. /\ lay \in Layouts(fmt.base, req.usage, AllocType(fmt, req.usage), w, h) /\ lay.size > 0
        /\ buf.internal_format = fmt /\ buf.width = w /\ buf.height = h /\ buf.size = lay.size
        /\ buf.byte_stride = lay.byte_stride
    BY <2>3, <2>4, <2>5 DEF Made
  <2>7. PICK base : base = fmt.base
    OBVIOUS
  <2>8. AllocType(fmt, req.usage) = "UNCOMPRESSED"
    BY <2>2, <2>6 DEF AllocType
  <2>9. base \in {"NV12", "NV21", "YV12"}
    BY <2>2, <2>6, <2>7 DEF PlanesOf
  <2>10. PICK align \in {16, 128} : align = IF SW \in req.usage THEN YUV_ANDROID_PLANE_ALIGN ELSE YUV_MALI_PLANE_ALIGN
    BY DEF YUV_ANDROID_PLANE_ALIGN, YUV_MALI_PLANE_ALIGN
  <2>11. lay = get_yv12_stride_and_size(w, h, "UNCOMPRESSED", align)
    <3>1. lay \in Layouts(base, req.usage, "UNCOMPRESSED", w, h)
      BY <2>6, <2>7, <2>8
    <3>2. base \in Yuv420Planar /\ base \notin DOMAIN BytesPerPixel /\ base \notin Camera
      BY <2>9 DEF Yuv420Planar, BytesPerPixel, Camera
    <3> QED
      BY <2>10, <3>1, <3>2 DEF Layouts, Yuv420Planar
  <2>line. /\ Align(w, align) \div 2 \in Nat /\ Align(w, align) = 2 * (Align(w, align) \div 2)
        /\ w <= 2 * (Align(w, align) \div 2) /\ Ceil(w, 2) <= Align(w, align) \div 2
        /\ Align(Align(w, align) \div 2, 16) \in Nat
        /\ Align(w, align) \div 2 <= Align(Align(w, align) \div 2, 16)
        /\ Align(Align(w, align) \div 2, align) \in Nat
        /\ Align(Align(w, align) \div 2, 16) <= Align(Align(w, align) \div 2, align)
    <3>1. w \in Nat
      BY <2>4
    <3>2. align = 16 \/ align = 128
      BY <2>10
    <3> QED
      BY <3>1, <3>2, LinesOfPlanes
  <2>half. PICK x \in Nat : x = Align(w, align) \div 2
    BY <2>line
  <2>chroma. PICK c \in Nat : c = Align(x, 16)
    BY <2>line, <2>half
  <2>made. PICK k \in Nat : k = Align(x, align)
    BY <2>line, <2>half
  <2>12. /\ Align(w, align) = 2 * x /\ w <= 2 * x /\ Ceil(w, 2) <= x
         /\ (2 * x) \div 2 = x
         /\ c = Align(x, 16) /\ x <= c
         /\ k = Align(x, align) /\ c <= k
    BY <2>line, <2>half, <2>chroma, <2>made
  <2>13. PICK cw \in Nat, ch \in Nat : cw = Ceil(w, 2) /\ ch = Ceil(h, 2)
    <3>1. w \in Nat /\ h \in Nat
      BY <2>4
    <3>2. Ceil(w, 2) \in Nat /\ Ceil(h, 2) \in Nat
      BY <3>1, Ceilings
    <3> QED
      BY <3>2
  <2>14. Align(h, 2) = 2 * ch /\ (2 * ch) \div 2 = ch
    BY <2>13 DEF Align, Ceil
  <2>15. buf.size = (2 * ch) * (2 * x + k) /\ buf.byte_stride = 2 * x
    BY <2>6, <2>11, <2>12, <2>14 DEF get_yv12_stride_and_size, Layout
  <2>16. AdjustedHeight = 2 * ch
    BY <2>6, <2>14 DEF AdjustedHeight
  <2>17. PlanesOf(base, 2 * x, c, (2 * x) * (2 * ch), c * ch)
    BY <2>2, <2>6, <2>7, <2>12, <2>14, <2>15, <2>16
  <2>18. /\ (h - 1) * (2 * x) + w <= (2 * x) * (2 * ch)
         /\ (2 * x) * (2 * ch) + 1 + ((ch - 1) * (2 * x) + (cw - 1) * 2) < (2 * ch) * (2 * x + k)
         /\ (2 * x) * (2 * ch) + c * ch + ((ch - 1) * c + (cw - 1) * 1) < (2 * ch) * (2 * x + k)
         /\ (2 * x) * (2 * ch) + ((ch - 1) * c + (cw - 1) * 1) < (2 * x) * (2 * ch) + c * ch
    <3>1. w \in Nat /\ h \in Nat /\ w >= 1 /\ h >= 1
      BY <2>4
    <3>2. x \in Nat /\ c \in Nat /\ k \in Nat
      BY <2>half, <2>chroma, <2>made
    <3>3. w <= 2 * x /\ Ceil(w, 2) <= x /\ x <= c /\ c <= k
      BY <2>12
    <3>4. LET luma == (2 * x) * (2 * Ceil(h, 2))
              size == (2 * Ceil(h, 2)) * (2 * x + k)
          IN /\ (h - 1) * (2 * x) + w <= luma
             /\ luma + 1 + ((Ceil(h, 2) - 1) * (2 * x) + (Ceil(w, 2) - 1) * 2) < size
             /\ luma + c * Ceil(h, 2) + ((Ceil(h, 2) - 1) * c + (Ceil(w, 2) - 1) * 1) < size
             /\ luma + ((Ceil(h, 2) - 1) * c + (Ceil(w, 2) - 1) * 1) < luma + c * Ceil(h, 2)
      BY <3>1, <3>2, <3>3, PlanesFit, Zenon
    <3> QED
      BY <2>13, <3>4, Zenon
  <2>19. PICK luma \in Nat : luma = (2 * x) * (2 * ch)
    OBVIOUS
  <2>20. PICK cc \in Nat : cc = c * ch
    OBVIOUS
  <2>21. PICK size \in Int : size = (2 * ch) * (2 * x + k)
    OBVIOUS
  <2>22. PICK last2 \in Int : last2 = (ch - 1) * (2 * x) + (cw - 1) * 2
    OBVIOUS
  <2>23. PICK last1 \in Int : last1 = (ch - 1) * c + (cw - 1) * 1
    OBVIOUS
  <2>24. CASE view.step = 2
    <3>1. view \in {[cb |-> luma, cr |-> luma + 1, step |-> 2, ystride |-> 2 * x, cstride |-> 2 * x],
                    [cb |-> luma + 1, cr |-> luma, step |-> 2, ystride |-> 2 * x, cstride |-> 2 * x]}
      BY <2>17, <2>19, <2>24 DEF PlanesOf
    <3>2. view.ystride = 2 * x /\ view.cstride = 2 * x /\ {view.cb, view.cr} = {luma, luma + 1}
      BY <3>1
    <3>3. (ch - 1) * view.cstride + (cw - 1) * view.step = last2
      BY <2>22, <2>24, <3>2
    <3>4. (h - 1) * view.ystride + w <= luma /\ luma + 1 + last2 < buf.size /\ buf.size = size
      BY <2>15, <2>18, <2>19, <2>21, <2>22, <3>2
    <3>5. w <= view.ystride /\ cw * view.step <= view.cstride
      BY <2>12, <2>13, <2>24, <3>2
    <3>6. (h - 1) * (2 * x) + w \in Int
      OBVIOUS
    <3>7. \A p \in {luma, luma + 1} : (h - 1) * view.ystride + w <= p /\ p + last2 < buf.size
      BY <2>15, <2>21, <2>22, <3>2, <3>4, <3>6
    <3>8. \A p \in {view.cb, view.cr} : (h - 1) * view.ystride + w <= p /\ p + last2 < buf.size
      BY <3>2, <3>7
    <3> QED
      BY <2>6, <2>13, <2>24, <3>3, <3>5, <3>8 DEF PlanesInsideBuffer
  <2>25. CASE view.step # 2
    <3>1. view = [cb |-> luma + cc, cr |-> luma, step |-> 1, ystride |-> 2 * x, cstride |-> c]
      BY <2>17, <2>19, <2>20, <2>25 DEF PlanesOf
    <3>2. view.ystride = 2 * x /\ view.cstride = c /\ view.step = 1
          /\ view.cb = luma + cc /\ view.cr = luma
      BY <3>1
    <3>3. (ch - 1) * view.cstride + (cw - 1) * view.step = last1
      BY <2>23, <3>2
    <3>4. (h - 1) * view.ystride + w <= luma /\ luma + cc + last1 < buf.size /\ buf.size = size
          /\ luma + last1 < luma + cc
      BY <2>15, <2>18, <2>19, <2>20, <2>21, <2>23, <3>2
    <3>5. w <= view.ystride /\ cw * view.step <= view.cstride
      BY <2>12, <2>13, <3>2
    <3>6. (h - 1) * (2 * x) + w \in Int
      OBVIOUS
    <3>7. \A p \in {view.cb, view.cr} : (h - 1) * view.ystride + w <= p /\ p + last1 < buf.size
      BY <2>15, <2>19, <2>20, <2>21, <2>23, <3>2, <3>4, <3>6
    <3> QED
      BY <2>6, <2>13, <3>2, <3>3, <3>4, <3>5, <3>7 DEF PlanesInsideBuffer
  <2> QED
    BY <2>24, <2>25
<1> QED
  BY <1>1, LayoutsStand, PTL

-----------------------------------------------------------------------------
(* GrallocLayout: which blocks understand the compression. *)

\* What the flags of a usage choose: the writer and its mask, and the reader.
LEMMA Producers ==
    ASSUME NEW c, NEW format, NEW usage
    PROVE  LET p   == determine_producer(c, format, usage)
               yuv == "HW_RENDER" \in usage /\ is_android_yuv_format(format)
           IN /\ "HW_RENDER" \in usage => p.type = "GPU"
              /\ DECODER \subseteq usage /\ {"HW_RENDER", "HW_CAMERA"} \cap usage = {} => p.type = "VIDEO_DECODER"
              /\ yuv /\ "YUV_NOWRITE" \in c.gpu => p.mask = {}
  BY DEF determine_producer

LEMMA Consumers ==
    ASSUME NEW c, NEW format, NEW usage, "HW_FB" \notin usage
    PROVE  LET k == determine_consumer(c, format, usage)
           IN /\ k.type = IF "HW_VIDEO_ENCODER" \in usage THEN "VIDEO_ENCODER"
                          ELSE IF {"HW_TEXTURE", "HW_COMPOSER"} \subseteq usage /\ "OPTIONS" \in c.dpu
                          THEN "GPU_OR_DISPLAY" ELSE "GPU_EXCL"
              /\ "HW_VIDEO_ENCODER" \in usage /\ "YUV_NOREAD" \in c.vpu /\ is_android_yuv_format(format)
                   => k.mask = {}
  BY DEF determine_consumer

\* Modifiers that are chosen were in the capabilities of every block that was asked.
LEMMA BestFormat ==
    ASSUME NEW format, NEW p, NEW k, NEW c,
           k.type \in {"VIDEO_ENCODER", "GPU_OR_DISPLAY", "GPU_EXCL"},
           determine_best_format(format, p, k, c) # {}
    PROVE  LET m == determine_best_format(format, p, k, c)
           IN /\ m \subseteq p.mask
              /\ k.type = "VIDEO_ENCODER" => m \subseteq c.vpu \cap k.mask
              /\ k.type = "GPU_OR_DISPLAY" => m \subseteq c.dpu
              /\ p.type = "VIDEO_DECODER" => m \subseteq c.vpu
              /\ m \subseteq c.gpu
<1>1. PICK m : m = determine_best_format(format, p, k, c)
  OBVIOUS
<1>2. PICK table : table = [GPU_OR_DISPLAY |-> GpuToDisplay(p.mask \cap (c.gpu \cap k.mask), c.dpu \cap k.mask),
                            GPU_EXCL       |-> {"BASIC", "TILED"} \cap (c.gpu \cap k.mask),
                            VIDEO_ENCODER  |-> (IF format = "YV12" THEN {"BASIC", "TILED"} ELSE {}) \cap (c.vpu \cap k.mask)]
  OBVIOUS
<1>3. PICK other : other = [GPU_OR_DISPLAY |-> (c.gpu \cap k.mask) \cap (c.dpu \cap k.mask),
                            GPU_EXCL       |-> c.gpu \cap k.mask,
                            VIDEO_ENCODER  |-> {}]
  OBVIOUS
<1>4. PICK yv12 : yv12 = IF format = "YV12" THEN {"BASIC", "TILED"} ELSE {}
  OBVIOUS
<1>5. m = IF p.type = "GPU" /\ "OPTIONS" \in c.gpu THEN p.mask \cap c.gpu \cap table[k.type]
          ELSE IF p.type = "VIDEO_DECODER" /\ "OPTIONS" \in c.vpu
          THEN p.mask \cap c.vpu \cap yv12 \cap other[k.type] ELSE {}
  BY <1>1, <1>2, <1>3, <1>4 DEF determine_best_format
<1>6. /\ k.type = "VIDEO_ENCODER" => table[k.type] \subseteq c.vpu \cap k.mask
      /\ k.type = "GPU_EXCL" => table[k.type] \subseteq c.gpu
      /\ k.type = "GPU_OR_DISPLAY" => table[k.type] \subseteq c.gpu \cap c.dpu
  <2>1. GpuToDisplay(p.mask \cap (c.gpu \cap k.mask), c.dpu \cap k.mask) \subseteq c.gpu \cap c.dpu
    BY DEF GpuToDisplay
  <2>2. k.type = "VIDEO_ENCODER" => table[k.type] \subseteq c.vpu \cap k.mask
    <3>1. table["VIDEO_ENCODER"] = (IF format = "YV12" THEN {"BASIC", "TILED"} ELSE {}) \cap (c.vpu \cap k.mask)
      BY <1>2
    <3> QED
      BY <3>1
  <2>3. k.type = "GPU_EXCL" => table[k.type] \subseteq c.gpu
    <3>1. table["GPU_EXCL"] = {"BASIC", "TILED"} \cap (c.gpu \cap k.mask)
      BY <1>2
    <3> QED
      BY <3>1
  <2>4. k.type = "GPU_OR_DISPLAY" => table[k.type] \subseteq c.gpu \cap c.dpu
    <3>1. table["GPU_OR_DISPLAY"] = GpuToDisplay(p.mask \cap (c.gpu \cap k.mask), c.dpu \cap k.mask)
      BY <1>2
    <3> QED
      BY <2>1, <3>1
  <2> QED
    BY <2>2, <2>3, <2>4
<1>7. /\ k.type = "VIDEO_ENCODER" => other[k.type] = {}
      /\ k.type = "GPU_EXCL" => other[k.type] \subseteq c.gpu
      /\ k.type = "GPU_OR_DISPLAY" => other[k.type] \subseteq c.gpu \cap c.dpu
  BY <1>3
<1>8. CASE p.type = "GPU" /\ "OPTIONS" \in c.gpu
  BY <1>1, <1>5, <1>6, <1>8
<1>9. CASE p.type = "VIDEO_DECODER" /\ "OPTIONS" \in c.vpu
  BY <1>1, <1>5, <1>7, <1>9
<1>10. m # {}
  BY <1>1
<1> QED
  BY <1>5, <1>8, <1>9, <1>10

\* A format the client did not choose itself is compressed only when the modifiers are
\* what was chosen for the writer and the readers.
LEMMA Selected ==
    ASSUME NEW c, NEW format, NEW mods, NEW usage, "PRIVATE_3" \notin usage,
           mali_gralloc_select_format(c, format, mods, usage).mods # {},
           "HW_FB" \notin usage
    PROVE  LET p   == determine_producer(c, format, usage)
               k   == determine_consumer(c, format, usage)
               fmt == mali_gralloc_select_format(c, format, mods, usage)
           IN /\ SW \notin usage /\ ~(NO_AFBC \subseteq usage)
              /\ fmt = [base |-> format, mods |-> determine_best_format(format, p, k, c)]
<1>1. PICK p : p = determine_producer(c, format, usage)
  OBVIOUS
<1>2. PICK k : k = determine_consumer(c, format, usage)
  OBVIOUS
<1>3. PICK fmt : fmt = mali_gralloc_select_format(c, format, mods, usage)
  OBVIOUS
<1>4. PICK none : none = [p EXCEPT !.mask = {}]
  OBVIOUS
<1>5. PICK base : base = map_flex_formats(format)
  OBVIOUS
<1>6. fmt.mods # {} /\ SW \notin usage
  <2>1. SW \in usage => fmt.mods = {}
    BY <1>3 DEF mali_gralloc_select_format
  <2> QED
    BY <1>3, <2>1
<1>7. determine_best_format(base, none, k, c) = {}
  <2>1. none.mask = {} \/ "mask" \notin DOMAIN p
    BY <1>4
  <2>2. none.mask = {}
    BY <1>1, <1>4 DEF determine_producer
  <2>3. determine_consumer(c, format, usage).type \in {"VIDEO_ENCODER", "GPU_OR_DISPLAY", "GPU_EXCL"}
    BY DEF determine_consumer
  <2> QED
    BY <1>2, <2>2, <2>3, BestFormat
<1>8. fmt = IF NO_AFBC \subseteq usage /\ is_android_yuv_format(base) THEN NoFormat
            ELSE [base |-> base,
                  mods |-> determine_best_format(base,
                             IF /\ format \notin FlexFormats /\ ~(NO_AFBC \subseteq usage)
                                /\ is_afbc_allowed /\ is_afbc_supported(base) THEN p ELSE none, k, c)]
  BY <1>1, <1>2, <1>3, <1>4, <1>5, <1>6 DEF mali_gralloc_select_format
<1>9. ~(NO_AFBC \subseteq usage /\ is_android_yuv_format(base))
  BY <1>6, <1>8 DEF NoFormat
<1>10. format \notin FlexFormats /\ ~(NO_AFBC \subseteq usage) /\ is_afbc_supported(base)
  BY <1>6, <1>7, <1>8, <1>9
<1>11. base = format
  BY <1>5, <1>10 DEF map_flex_formats, FlexFormats
<1> QED
  BY <1>1, <1>2, <1>3, <1>6, <1>8, <1>9, <1>10, <1>11 DEF is_afbc_allowed

\* A compressed buffer is one that every block it is meant for understands
\* (src/gralloc960/mali_gralloc_formats.cpp:181-651).
THEOREM CompressionIsUnderstood == LayoutSpec => []CompressionUnderstood
<1>1. ASSUME LayoutInv PROVE CompressionUnderstood
  <2>1. SUFFICES ASSUME buf # NoBuffer, buf.internal_format.mods # {}, "PRIVATE_3" \notin buf.usage
                 PROVE  /\ SW \notin buf.usage /\ ~(NO_AFBC \subseteq buf.usage)
                        /\ \A b \in BlocksNamed(buf.usage) : buf.internal_format.mods \subseteq caps[b]
                        /\ buf.internal_format.base = "YV12" =>
                             /\ "HW_RENDER" \in buf.usage => "YUV_NOWRITE" \notin caps.gpu
                             /\ "HW_VIDEO_ENCODER" \in buf.usage => "YUV_NOREAD" \notin caps.vpu
    BY DEF CompressionUnderstood
  <2>0. PICK req \in Requests, d \in Dimensions : \E lay : Made(req, d[1], d[2], lay)
    <3>1. ~FromUtgard
      BY <2>1 DEF FromUtgard
    <3> QED
      BY <1>1, <2>1, <3>1 DEF LayoutInv, FromAlloc
  <2>2. PICK lay : Made(req, d[1], d[2], lay)
    BY <2>0
  <2>3. PICK fmt : fmt = mali_gralloc_select_format(caps, req.format, req.mods, req.usage)
    OBVIOUS
  <2>4. "HW_FB" \notin req.usage /\ buf.internal_format = fmt /\ buf.usage = req.usage
    BY <2>2, <2>3 DEF Made
  <2>5. PICK usage : usage = buf.usage
    OBVIOUS
  <2>6. PICK format : format = req.format
    OBVIOUS
  <2>7. PICK p : p = determine_producer(caps, format, usage)
    OBVIOUS
  <2>8. PICK k : k = determine_consumer(caps, format, usage)
    OBVIOUS
  <2>9. PICK m : m = determine_best_format(format, p, k, caps)
    OBVIOUS
  <2>10. /\ SW \notin usage /\ ~(NO_AFBC \subseteq usage)
         /\ fmt = [base |-> format, mods |-> m]
    BY <2>1, <2>3, <2>4, <2>5, <2>6, <2>7, <2>8, <2>9, Selected
  <2>11. m # {} /\ buf.internal_format.mods = m /\ buf.internal_format.base = format
    BY <2>1, <2>4, <2>10
  <2>12. /\ k.type = IF "HW_VIDEO_ENCODER" \in usage THEN "VIDEO_ENCODER"
                     ELSE IF {"HW_TEXTURE", "HW_COMPOSER"} \subseteq usage /\ "OPTIONS" \in caps.dpu
                     THEN "GPU_OR_DISPLAY" ELSE "GPU_EXCL"
         /\ "HW_VIDEO_ENCODER" \in usage /\ "YUV_NOREAD" \in caps.vpu /\ is_android_yuv_format(format)
              => k.mask = {}
    BY <2>4, <2>5, <2>8, Consumers
  <2>13. /\ "HW_RENDER" \in usage => p.type = "GPU"
         /\ DECODER \subseteq usage /\ {"HW_RENDER", "HW_CAMERA"} \cap usage = {} => p.type = "VIDEO_DECODER"
         /\ "HW_RENDER" \in usage /\ is_android_yuv_format(format) /\ "YUV_NOWRITE" \in caps.gpu => p.mask = {}
    BY <2>7, Producers
  <2>14. k.type \in {"VIDEO_ENCODER", "GPU_OR_DISPLAY", "GPU_EXCL"}
    BY <2>12
  <2>15. /\ m \subseteq p.mask
         /\ k.type = "VIDEO_ENCODER" => m \subseteq caps.vpu \cap k.mask
         /\ k.type = "GPU_OR_DISPLAY" => m \subseteq caps.dpu
         /\ p.type = "VIDEO_DECODER" => m \subseteq caps.vpu
         /\ m \subseteq caps.gpu
    BY <2>9, <2>11, <2>14, BestFormat
  <2>16. ASSUME NEW b \in BlocksNamed(usage) PROVE m \subseteq caps[b]
    <3>1. CASE b = "gpu"
      BY <2>15, <3>1
    <3>2. CASE b = "vpu" /\ (\/ "HW_VIDEO_ENCODER" \in usage
                             \/ DECODER \subseteq usage /\ {"HW_RENDER", "HW_CAMERA"} \cap usage = {})
      BY <2>12, <2>13, <2>15, <3>2
    <3>3. CASE /\ b = "dpu" /\ {"HW_TEXTURE", "HW_COMPOSER"} \subseteq usage
               /\ "HW_VIDEO_ENCODER" \notin usage /\ "OPTIONS" \in caps.dpu
      BY <2>12, <2>15, <3>3
    <3>4. \/ b = "gpu"
          \/ b = "vpu" /\ (\/ "HW_VIDEO_ENCODER" \in usage
                           \/ DECODER \subseteq usage /\ {"HW_RENDER", "HW_CAMERA"} \cap usage = {})
          \/ /\ b = "dpu" /\ {"HW_TEXTURE", "HW_COMPOSER"} \subseteq usage
             /\ "HW_VIDEO_ENCODER" \notin usage /\ "OPTIONS" \in caps.dpu
      BY <2>16 DEF BlocksNamed
    <3> QED
      BY <3>1, <3>2, <3>3, <3>4
  <2>17. ASSUME format = "YV12"
         PROVE  /\ "HW_RENDER" \in usage => "YUV_NOWRITE" \notin caps.gpu
                /\ "HW_VIDEO_ENCODER" \in usage => "YUV_NOREAD" \notin caps.vpu
    <3>1. is_android_yuv_format(format)
      BY <2>17 DEF is_android_yuv_format
    <3> QED
      BY <2>11, <2>12, <2>13, <2>15, <3>1
  <2> QED
    BY <2>5, <2>10, <2>11, <2>16, <2>17
<1> QED
  BY <1>1, LayoutsStand, PTL
=============================================================================
