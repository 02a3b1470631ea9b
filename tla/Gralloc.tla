------------------------------ MODULE Gralloc -------------------------------
(***************************************************************************)
(* The graphics allocator for Mali Utgard (src/gralloc): the handles of    *)
(* one process, which its threads allocate, register, lock, unlock,        *)
(* unregister, free and post to the framebuffer.                           *)
(*                                                                         *)
(* A handle is an ION buffer or a slot of the framebuffer. An address      *)
(* stands for a range of the address space; mapping tells whose memory is  *)
(* there. The build is that of gralloc_priv.h and Android.mk: DMA_BUF, no  *)
(* UMP, STANDARD_LINUX_SCREEN. A call that fails and changes nothing is    *)
(* left out.                                                               *)
(***************************************************************************)
EXTENDS Integers, FiniteSets

CONSTANTS
    Threads,
    Handles,        \* private_handle_t objects
    Addresses,      \* places where mmap() may put a buffer
    NoHandle

NULL == "0"             \* a base of 0
FOREIGN == "foreign"    \* a base that is an address of another process
SCREEN == "screen"      \* a base inside the mapping of the framebuffer
NUM_FB_BUFFERS == 2

ASSUME AddressesAssumption == Addresses \cap {NULL, FOREIGN, SCREEN} = {}
ASSUME NoHandleAssumption == NoHandle \notin Handles

VARIABLES
    kind,           \* the flags; "none" before new and after delete
    own,            \* its pid is the one of this process
    base,
    lockState,      \* a set of "WRITE", "MAPPED", "UNREGISTERED"
    slot,           \* its place in the framebuffer
    mapping,        \* the handle whose memory is at each address
    numBuffers,     \* slots of the framebuffer; 0 while it is NULL
    bufferMask,     \* the slots in use
    currentBuffer,  \* the handle posted last
    shown,          \* the slot on the screen
    fb_vaddr,       \* the address of the screen that fb_post copies to
    pc,             \* where each thread is; "idle" outside of the module
    arg,            \* the handle of its call
    loaded,         \* the bufferMask it has loaded
    held,           \* history: the lock each thread has been granted
    rejected,       \* history: handles whose last registration failed
    confused,       \* history: handles locked while they were locked, or unmapped
                    \* by an unlock: lockState does not tell all about them
    strays,         \* history: addresses that a registration has replaced
    abandoned,      \* history: handles left locked by a post
    interfered      \* history: a free has stored bufferMask during an allocation

handles == <<kind, own, base, lockState, slot, mapping>>
screen  == <<numBuffers, bufferMask, currentBuffer, shown, fb_vaddr>>
threads == <<pc, arg, loaded>>
history == <<held, rejected, confused, strays, abandoned, interfered>>
vars == <<handles, screen, threads, history>>

Slots == 0..NUM_FB_BUFFERS - 1
NoLock == [handle |-> NoHandle, vaddr |-> NULL]
Live == {h \in Handles : kind[h] # "none"}
UsesIon(h) == kind[h] \in {"ion", "clone"}
Posting == {"post_lock", "post_pan", "post_vsync", "copy"}

TypeOK ==
    /\ kind \in [Handles -> {"none", "ion", "clone", "framebuffer"}]
    /\ own \in [Handles -> BOOLEAN]
    /\ base \in [Handles -> Addresses \cup {NULL, FOREIGN, SCREEN}]
    /\ lockState \in [Handles -> SUBSET {"WRITE", "MAPPED", "UNREGISTERED"}]
    /\ slot \in [Handles -> Slots]
    /\ mapping \in [Addresses -> Handles \cup {NoHandle}]
    /\ numBuffers \in 0..NUM_FB_BUFFERS
    /\ bufferMask \subseteq Slots
    /\ currentBuffer \in Handles \cup {NoHandle}
    /\ shown \in Slots
    /\ fb_vaddr \in {"unset", "screen"}
    /\ pc \in [Threads -> {"idle", "lock_vaddr", "alloc_mask", "free_mask"} \cup Posting]
    /\ arg \in [Threads -> Handles \cup {NoHandle}]
    /\ loaded \in [Threads -> SUBSET Slots]
    /\ held \in [Threads -> [handle : Handles \cup {NoHandle},
                             vaddr : Addresses \cup {NULL, FOREIGN}]]
    /\ rejected \subseteq Handles
    /\ confused \subseteq Handles
    /\ strays \subseteq Addresses
    /\ abandoned \subseteq Handles
    /\ interfered \in BOOLEAN

Init ==
    /\ kind = [h \in Handles |-> "none"]
    /\ own = [h \in Handles |-> FALSE]
    /\ base = [h \in Handles |-> NULL]
    /\ lockState = [h \in Handles |-> {}]
    /\ slot = [h \in Handles |-> 0]
    /\ mapping = [a \in Addresses |-> NoHandle]
    /\ numBuffers = 0 /\ bufferMask = {} /\ currentBuffer = NoHandle
    /\ shown = 0 /\ fb_vaddr = "unset"
    /\ pc = [t \in Threads |-> "idle"]
    /\ arg = [t \in Threads |-> NoHandle]
    /\ loaded = [t \in Threads |-> {}]
    /\ held = [t \in Threads |-> NoLock]
    /\ rejected = {} /\ confused = {} /\ strays = {} /\ abandoned = {}
    /\ interfered = FALSE

-----------------------------------------------------------------------------
(* What the callers keep to: a thread ends a call before its next one, a   *)
(* handle is freed when nobody uses it and it is not on the screen, and a  *)
(* handle that was never registered here is not locked.                    *)

Holders(h) == {t \in Threads : held[t].handle = h \/ (pc[t] # "idle" /\ arg[t] = h)}
InUse(h) == Holders(h) # {} \/ currentBuffer = h
Usable(h) == UsesIon(h) /\ own[h] /\ h \notin rejected

\* Steps of a call: thread t goes to a label with handle h, or leaves.
Goto(t, label, h) ==
    /\ pc' = [pc EXCEPT ![t] = label]
    /\ arg' = [arg EXCEPT ![t] = h]
Return(t) == Goto(t, "idle", NoHandle)

\* delete: nothing is left of h. The next object at its place starts from here.
Delete(h) ==
    /\ kind' = [kind EXCEPT ![h] = "none"]
    /\ own' = [own EXCEPT ![h] = FALSE]
    /\ base' = [base EXCEPT ![h] = NULL]
    /\ lockState' = [lockState EXCEPT ![h] = {}]
    /\ slot' = [slot EXCEPT ![h] = 0]
    /\ rejected' = rejected \ {h}
    /\ confused' = confused \ {h}
    /\ abandoned' = abandoned \ {h}
    /\ UNCHANGED <<held, strays>>

-----------------------------------------------------------------------------
(* ION buffers. *)

\* mmap() finds a free range for the memory of h.
MapAt(h, a) ==
    /\ mapping[a] = NoHandle
    /\ mapping' = [mapping EXCEPT ![a] = h]
    /\ base' = [base EXCEPT ![h] = a]

gralloc_alloc_buffer(h) ==
    /\ kind[h] = "none"
    /\ \E a \in Addresses : MapAt(h, a)
    /\ kind' = [kind EXCEPT ![h] = "ion"]
    /\ own' = [own EXCEPT ![h] = TRUE]
    /\ lockState' = [lockState EXCEPT ![h] = {"MAPPED"}]
    /\ UNCHANGED <<slot, history>>

AllocBuffer(t, h) ==
    /\ pc[t] = "idle"
    /\ gralloc_alloc_buffer(h)
    /\ UNCHANGED <<screen, threads>>

\* A handle arrives from another process, with the base and the pid it has there.
Import(h) ==
    /\ kind[h] = "none"
    /\ kind' = [kind EXCEPT ![h] = "clone"]
    /\ base' = [base EXCEPT ![h] = FOREIGN]
    /\ lockState' = [lockState EXCEPT ![h] = {"MAPPED"}]
    /\ UNCHANGED <<own, slot, mapping, screen, threads, history>>

\* The pid is set before anything that may fail; what base was is not looked at.
gralloc_register_buffer(t, h) ==
    /\ pc[t] = "idle" /\ UsesIon(h)
    /\ own' = [own EXCEPT ![h] = TRUE]
    /\ \E a \in Addresses : MapAt(h, a)
    /\ lockState' = [lockState EXCEPT ![h] = @ \ {"UNREGISTERED"}]
    /\ strays' = strays \cup ({base[h]} \cap Addresses)
    /\ rejected' = rejected \ {h}
    /\ UNCHANGED <<kind, slot, screen, threads, held, confused, abandoned, interfered>>

\* ion_open() or mmap() fails.
RegisterFails(t, h) ==
    /\ pc[t] = "idle" /\ UsesIon(h)
    /\ own' = [own EXCEPT ![h] = TRUE]
    /\ rejected' = rejected \cup {h}
    /\ UNCHANGED <<kind, base, lockState, slot, mapping, screen, threads, held, confused,
                   strays, abandoned, interfered>>

\* After it lockState holds nothing but what the caller adds.
unmap_buffer(h, added) ==
    /\ mapping' = [a \in Addresses |-> IF a = base[h] THEN NoHandle ELSE mapping[a]]
    /\ base' = [base EXCEPT ![h] = NULL]
    /\ lockState' = [lockState EXCEPT ![h] = added]

\* Mutant of gralloc_unregister_buffer: it unmaps under a lock.
UnregisterAtOnce(t, h) ==
    /\ pc[t] = "idle" /\ UsesIon(h) /\ h \notin rejected /\ own[h]
    /\ \A u \in Threads : ~(pc[u] = "copy" /\ arg[u] = h)
    /\ unmap_buffer(h, {"UNREGISTERED"})
    /\ UNCHANGED <<kind, own, slot, screen, threads, history>>

gralloc_unregister_buffer(t, h) ==
    /\ pc[t] = "idle" /\ UsesIon(h) /\ h \notin rejected
    /\ \A u \in Threads : ~(pc[u] = "copy" /\ arg[u] = h)
    /\ own[h]
    /\ IF "WRITE" \in lockState[h]
       THEN /\ lockState' = [lockState EXCEPT ![h] = (@ \ {"MAPPED"}) \cup {"UNREGISTERED"}]
            /\ UNCHANGED <<base, mapping>>
       ELSE unmap_buffer(h, {"UNREGISTERED"})
    /\ UNCHANGED <<kind, own, slot, screen, threads, history>>

\* The part of gralloc_lock inside s_map_lock.
MarkLocked(h) ==
    /\ "UNREGISTERED" \notin lockState[h]
    /\ lockState' = [lockState EXCEPT ![h] = @ \cup {"WRITE"}]
    /\ confused' = IF "WRITE" \in lockState[h] THEN confused \cup {h} ELSE confused

gralloc_lock(t, h) ==
    /\ pc[t] = "idle" /\ held[t] = NoLock /\ Usable(h)
    /\ MarkLocked(h)
    /\ Goto(t, "lock_vaddr", h)
    /\ UNCHANGED <<kind, own, base, slot, mapping, screen, loaded, held, rejected,
                   strays, abandoned, interfered>>

\* The base is read when s_map_lock has been released.
LockVaddr(t) ==
    /\ pc[t] = "lock_vaddr"
    /\ held' = [held EXCEPT ![t] = [handle |-> arg[t], vaddr |-> base[arg[t]]]]
    /\ Return(t)
    /\ UNCHANGED <<handles, screen, loaded, rejected, confused, strays, abandoned,
                   interfered>>

\* Mutant of MarkUnlocked: a deferred unmapping is never done.
UnlockOnly(h) ==
    /\ lockState' = [lockState EXCEPT ![h] = @ \ {"WRITE"}]
    /\ UNCHANGED <<base, mapping, confused>>

MarkUnlocked(h) ==
    IF "UNREGISTERED" \in lockState[h]
    THEN unmap_buffer(h, {}) /\ confused' = confused \cup {h}
    ELSE /\ lockState' = [lockState EXCEPT ![h] = @ \ {"WRITE"}]
         /\ UNCHANGED <<base, mapping, confused>>

gralloc_unlock(t) ==
    /\ pc[t] = "idle" /\ held[t] # NoLock
    /\ MarkUnlocked(held[t].handle)
    /\ held' = [held EXCEPT ![t] = NoLock]
    /\ UNCHANGED <<kind, own, slot, screen, threads, rejected, strays, abandoned,
                   interfered>>

\* Mutant of FreeBuffer: no munmap().
FreeWithoutUnmap(t, h) ==
    /\ pc[t] = "idle" /\ kind[h] = "ion" /\ ~InUse(h)
    /\ Delete(h)
    /\ UNCHANGED <<mapping, screen, threads, interfered>>

\* alloc_device_free of an ION buffer.
FreeBuffer(t, h) ==
    /\ pc[t] = "idle" /\ kind[h] = "ion" /\ ~InUse(h)
    /\ mapping' = [a \in Addresses |-> IF a = base[h] THEN NoHandle ELSE mapping[a]]
    /\ Delete(h)
    /\ UNCHANGED <<screen, threads, interfered>>

\* The owner of a clone deletes it once it is unregistered, or was never registered.
DeleteClone(h) ==
    /\ kind[h] = "clone" /\ base[h] \notin Addresses /\ ~InUse(h)
    /\ Delete(h)
    /\ UNCHANGED <<mapping, screen, threads, interfered>>

-----------------------------------------------------------------------------
(* Slots of the framebuffer. The mask is loaded and stored in two steps:   *)
(* alloc_device_free does not take the lock of the module.                 *)

\* Mutant of Unlocked: gralloc_alloc_framebuffer does not take the lock.
NeverLocked == TRUE

\* The lock of the module.
Unlocked == \A t \in Threads : pc[t] # "alloc_mask"

\* The framebuffer has n slots, from now on if it was NULL.
init_frame_buffer_locked(n) ==
    /\ n = numBuffers \/ (numBuffers = 0 /\ n \in {1, NUM_FB_BUFFERS})
    /\ numBuffers' = n

framebuffer_device_open(t) ==
    /\ pc[t] = "idle" /\ Unlocked /\ numBuffers = 0
    /\ \E n \in 1..NUM_FB_BUFFERS : init_frame_buffer_locked(n)
    /\ UNCHANGED <<handles, bufferMask, currentBuffer, shown, fb_vaddr, threads, history>>

\* A framebuffer that cannot flip pages: a regular buffer is the answer.
AllocSingleBuffer(t, h) ==
    /\ pc[t] = "idle" /\ Unlocked
    /\ init_frame_buffer_locked(1)
    /\ gralloc_alloc_buffer(h)
    /\ UNCHANGED <<bufferMask, currentBuffer, shown, fb_vaddr, threads>>

gralloc_alloc_framebuffer(t) ==
    /\ pc[t] = "idle" /\ Unlocked
    /\ init_frame_buffer_locked(NUM_FB_BUFFERS)
    /\ bufferMask # Slots
    /\ loaded' = [loaded EXCEPT ![t] = bufferMask]
    /\ Goto(t, "alloc_mask", NoHandle)
    /\ UNCHANGED <<handles, bufferMask, currentBuffer, shown, fb_vaddr, history>>

\* The first free slot.
FreeSlot(mask) == CHOOSE i \in Slots \ mask : \A j \in Slots \ mask : i <= j

StoreMask(t, mask) ==
    /\ bufferMask' = mask
    /\ loaded' = [loaded EXCEPT ![t] = {}]

AllocMask(t, h) ==
    /\ pc[t] = "alloc_mask" /\ kind[h] = "none"
    /\ StoreMask(t, loaded[t] \cup {FreeSlot(loaded[t])})
    /\ slot' = [slot EXCEPT ![h] = FreeSlot(loaded[t])]
    /\ kind' = [kind EXCEPT ![h] = "framebuffer"]
    /\ own' = [own EXCEPT ![h] = TRUE]
    /\ base' = [base EXCEPT ![h] = SCREEN]
    /\ interfered' = FALSE
    /\ Return(t)
    /\ UNCHANGED <<lockState, mapping, numBuffers, currentBuffer, shown, fb_vaddr, held,
                   rejected, confused, strays, abandoned>>

\* alloc_device_free of a slot.
FreeFramebuffer(t, h) ==
    /\ pc[t] = "idle" /\ kind[h] = "framebuffer" /\ ~InUse(h)
    /\ loaded' = [loaded EXCEPT ![t] = bufferMask]
    /\ Goto(t, "free_mask", h)
    /\ UNCHANGED <<handles, screen, history>>

FreeMask(t) ==
    /\ pc[t] = "free_mask"
    /\ StoreMask(t, loaded[t] \ {slot[arg[t]]})
    /\ interfered' = (interfered \/ ~Unlocked)
    /\ Delete(arg[t])
    /\ Return(t)
    /\ UNCHANGED <<mapping, numBuffers, currentBuffer, shown, fb_vaddr>>

-----------------------------------------------------------------------------
(* fb_post. One thread at a time posts. *)

\* A handle as validate() sees it; its file descriptor is counted or it is not.
NewHandle == [share_fd |-> -1, numFds |-> 1]
validate(hnd) == hnd.numFds = IF hnd.share_fd < 0 THEN 0 ELSE 1

\* The handle of the whole framebuffer, as init_frame_buffer_locked leaves it.
framebuffer == NewHandle

CanPost(t) == pc[t] = "idle" /\ \A u \in Threads : pc[u] \notin Posting

\* Mutant of fb_post: currentBuffer is not cleared.
PostKeepsCurrent(t, h) ==
    /\ CanPost(t) /\ kind[h] = "framebuffer"
    /\ \A u \in Threads : ~(pc[u] = "free_mask" /\ arg[u] = h)
    /\ Goto(t, "post_lock", h)
    /\ UNCHANGED <<handles, screen, loaded, history>>

fb_post(t, h) ==
    /\ CanPost(t) /\ kind[h] = "framebuffer"
    /\ \A u \in Threads : ~(pc[u] = "free_mask" /\ arg[u] = h)
    /\ lockState' = IF currentBuffer = NoHandle THEN lockState
                    ELSE [lockState EXCEPT ![currentBuffer] = @ \ {"WRITE"}]
    /\ currentBuffer' = NoHandle
    /\ Goto(t, "post_lock", h)
    /\ UNCHANGED <<kind, own, base, slot, mapping, numBuffers, bufferMask, shown, fb_vaddr,
                   loaded, history>>

PostLock(t) ==
    /\ pc[t] = "post_lock"
    /\ lockState' = [lockState EXCEPT ![arg[t]] = @ \cup {"WRITE"}]
    /\ abandoned' = abandoned \ {arg[t]}
    /\ Goto(t, "post_pan", arg[t])
    /\ UNCHANGED <<kind, own, base, slot, mapping, screen, loaded, held, rejected,
                   confused, strays, interfered>>

PanDisplay(t) ==
    /\ pc[t] = "post_pan"
    /\ shown' = slot[arg[t]]
    /\ Goto(t, "post_vsync", arg[t])
    /\ UNCHANGED <<handles, numBuffers, bufferMask, currentBuffer, fb_vaddr, loaded, history>>

\* Mutant of PanDisplayFails: the buffer stays locked.
PanFailsLocked(t) ==
    /\ pc[t] = "post_pan"
    /\ Return(t)
    /\ UNCHANGED <<handles, screen, loaded, history>>

PanDisplayFails(t) ==
    /\ pc[t] = "post_pan"
    /\ lockState' = [lockState EXCEPT ![arg[t]] = @ \ {"WRITE"}]
    /\ Return(t)
    /\ UNCHANGED <<kind, own, base, slot, mapping, screen, loaded, history>>

\* The wait for the vertical sync is over, or swapInterval is 0.
WaitForVsync(t) ==
    /\ pc[t] = "post_vsync"
    /\ currentBuffer' = arg[t]
    /\ Return(t)
    /\ UNCHANGED <<handles, numBuffers, bufferMask, shown, fb_vaddr, loaded, history>>

\* An ioctl of the wait fails: the buffer stays locked, and is not the current one.
WaitForVsyncFails(t) ==
    /\ pc[t] = "post_vsync"
    /\ abandoned' = abandoned \cup {arg[t]}
    /\ Return(t)
    /\ UNCHANGED <<handles, screen, loaded, held, rejected, confused, strays, interfered>>

\* A regular buffer is locked to be copied to the framebuffer, which is locked
\* first: fb_vaddr is not set if that fails.
PostCopy(t, h) ==
    /\ CanPost(t) /\ numBuffers = 1 /\ kind[h] = "ion" /\ Usable(h)
    /\ fb_vaddr' = IF validate(framebuffer) THEN "screen" ELSE fb_vaddr
    /\ MarkLocked(h)
    /\ Goto(t, "copy", h)
    /\ UNCHANGED <<kind, own, base, slot, mapping, numBuffers, bufferMask, currentBuffer,
                   shown, loaded, held, rejected, strays, abandoned, interfered>>

\* What memcpy() does to memory when fb_vaddr is not set is not followed.
CopyToScreen(t) ==
    /\ pc[t] = "copy"
    /\ MarkUnlocked(arg[t])
    /\ fb_vaddr' = "unset"
    /\ Return(t)
    /\ UNCHANGED <<kind, own, slot, numBuffers, bufferMask, currentBuffer, shown, loaded,
                   held, rejected, strays, abandoned, interfered>>

-----------------------------------------------------------------------------
Buffers(t, h) ==
    \/ AllocBuffer(t, h)
    \/ Import(h)
    \/ gralloc_register_buffer(t, h)
    \/ RegisterFails(t, h)
    \/ gralloc_unregister_buffer(t, h)
    \/ gralloc_lock(t, h)
    \/ FreeBuffer(t, h)
    \/ DeleteClone(h)

Framebuffers(t, h) ==
    \/ AllocSingleBuffer(t, h)
    \/ AllocMask(t, h)
    \/ FreeFramebuffer(t, h)
    \/ fb_post(t, h)
    \/ PostCopy(t, h)

Steps(t) ==
    \/ LockVaddr(t)
    \/ gralloc_unlock(t)
    \/ framebuffer_device_open(t)
    \/ gralloc_alloc_framebuffer(t)
    \/ FreeMask(t)
    \/ PostLock(t)
    \/ PanDisplay(t)
    \/ PanDisplayFails(t)
    \/ WaitForVsync(t)
    \/ WaitForVsyncFails(t)
    \/ CopyToScreen(t)

Next == \E t \in Threads :
            \/ Steps(t)
            \/ \E h \in Handles : Buffers(t, h) \/ Framebuffers(t, h)

Spec == Init /\ [][Next]_vars

-----------------------------------------------------------------------------
Framebuffer(h) == kind[h] = "framebuffer"

\* The address that gralloc_lock has given to a thread is memory of the buffer until
\* the thread unlocks it, even if another thread unregisters the buffer meanwhile;
\* unless the buffer was locked twice, or unmapped by an unlock before.
LockedIsMapped ==
    \A t \in Threads :
        held[t] # NoLock =>
            \/ held[t].handle \in confused
            \/ held[t].vaddr \in Addresses /\ mapping[held[t].vaddr] = held[t].handle

\* Whatever is mapped can be unmapped: it is the base of a handle that is alive. Only a
\* registration of a buffer that is mapped already leaves memory behind.
NoMappingLost ==
    \A a \in Addresses :
        mapping[a] # NoHandle => \/ a \in strays
                                 \/ mapping[a] \in Live /\ base[mapping[a]] = a

\* The unmapping that gralloc_unregister_buffer defers is done when the last thread has
\* unlocked the buffer.
UnregisteredIsUnmapped ==
    \A h \in Live : "UNREGISTERED" \in lockState[h] /\ Holders(h) = {} => base[h] = NULL

\* No call unmaps an address that another process has put into a handle: only a
\* registration replaces it.
NoForeignUnmap ==
    [][\A h \in Handles : base[h] = FOREIGN /\ kind'[h] # "none" => base'[h] # NULL]_vars

\* bufferMask holds the slots of the framebuffers that are alive, and no two of them
\* have the same slot.
SlotsAreDistinct ==
    /\ bufferMask = {slot[h] : h \in {g \in Handles : Framebuffer(g)}}
    /\ \A g, h \in Handles :
           Framebuffer(g) /\ Framebuffer(h) /\ slot[g] = slot[h] => g = h

\* A free has stored the mask since an allocation loaded it, or anybody since a free did.
LosesUpdate ==
    \E t \in Threads :
        /\ pc'[t] = "idle"
        /\ \/ pc[t] = "alloc_mask" /\ interfered
           \/ pc[t] = "free_mask" /\ bufferMask # loaded[t]

\* An allocation or a free of a framebuffer leaves the slots distinct, unless a free runs
\* at once with it and one of the two stores a mask without the update of the other.
\* Two allocations do not do that to each other.
SlotsStayDistinct == [][SlotsAreDistinct => SlotsAreDistinct' \/ LosesUpdate]_vars

\* Between two posts the current buffer is on the screen, alive, and locked against
\* those who would draw into it.
CurrentBufferIsShown ==
    currentBuffer # NoHandle =>
        /\ Framebuffer(currentBuffer)
        /\ shown = slot[currentBuffer]
        /\ "WRITE" \in lockState[currentBuffer]

\* fb_post unlocks what it has locked: a framebuffer that is locked is on the screen or
\* being posted, unless the wait for the sync has failed.
PostUnlocks ==
    \A h \in Handles :
        Framebuffer(h) /\ "WRITE" \in lockState[h] => InUse(h) \/ h \in abandoned
=============================================================================
