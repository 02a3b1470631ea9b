----------------------------- MODULE Gralloc960 -----------------------------
(***************************************************************************)
(* The allocator for Mali Midgard and Bifrost (src/gralloc960): what one   *)
(* process holds for its buffers.  A buffer is a descriptor of its memory, *)
(* a descriptor of its attribute page and an address; a slot of the        *)
(* framebuffer has a bit of bufferMask instead.  Behind them is ion_client,*)
(* one number in the module that every device object opens and closes.     *)
(*                                                                         *)
(* The kernel hands out the lowest free descriptor, so that a number used  *)
(* once too often names something else.  A call that fails and leaves      *)
(* everything as it was is left out.                                       *)
(***************************************************************************)
EXTENDS Integers, FiniteSets

CONSTANTS Threads,
          Handles,      \* private_handle_t objects
          Addresses,    \* places where mmap() may put a buffer
          Descriptors,  \* file descriptors free when the module is loaded
          NoHandle,
          LegacyIon,    \* the kernel has the ION of before 4.12
          MaxDevices    \* bounds the alloc_device_t objects alive

NULL    == "0"          \* a base of 0
FOREIGN == "foreign"    \* a base that is an address of another process
NUM_FB_BUFFERS == 2
Slots == 0..NUM_FB_BUFFERS - 1

ASSUME LegacyIonAssumption == LegacyIon \in BOOLEAN
ASSUME DescriptorsAssumption == Descriptors \subseteq Nat \ {0}
ASSUME AddressesAssumption960 == Addresses \cap {NULL, FOREIGN} = {}
ASSUME NoHandleAssumption960 == NoHandle \notin Handles

VARIABLES
    files,          \* what each descriptor is open on; CLOSED
    mapping,        \* the handle whose memory is at each address
    hnd,            \* the handles
    ion_client,     \* of the module, like the next
    gralloc_legacy_ion,
    devices,        \* alloc_device_t objects alive
    fb,             \* module->framebuffer: its descriptor and numBuffers
    bufferMask,     \* slots in use
    currentBuffer,  \* the slot posted last
    call,           \* where each thread is, in an operation on a slot
    held,           \* the buffer each thread has locked, and whether to write
    lost,           \* history: descriptors nothing names any more
    undercut,       \* history: a device was closed, or its opening failed, while
                    \* another was alive
    strays,         \* history: addresses that a registration has replaced
    lostSlots,      \* history: slots whose export failed
    interfered,     \* history: a free has stored bufferMask during another update
    owed            \* history: buffers locked to be written while a device was
                    \* there, and not synced, locked to be read, unregistered or
                    \* copied since, nor any device closed

kernel  == <<files, mapping>>
module  == <<ion_client, gralloc_legacy_ion, devices, undercut>>
screen  == <<fb, bufferMask, currentBuffer, lostSlots, interfered>>
locking == <<held, owed>>
vars == <<kernel, hnd, module, screen, call, locking, lost, strays>>

CLOSED == <<"closed">>
ION    == <<"ion">>
FBDEV  == <<"fbdev">>
Memory(h)     == <<"memory", h>>
Attributes(h) == <<"attributes", h>>

NoObject == [kind |-> "none", base |-> NULL, share_fd |-> -1, share_attr_fd |-> -1,
             writeOwner |-> FALSE, slot |-> 0]
NoFramebuffer == [fd |-> -1, numBuffers |-> 0]
Idle   == [pc |-> "idle", handle |-> NoHandle, mask |-> {}]
NoLock == [handle |-> NoHandle, write |-> FALSE]

Init ==
    /\ files = [d \in Descriptors |-> CLOSED]
    /\ mapping = [a \in Addresses |-> NoHandle]
    /\ hnd = [h \in Handles |-> NoObject]
    /\ ion_client = 0 /\ gralloc_legacy_ion = FALSE /\ devices = 0 /\ undercut = FALSE
    /\ fb = NoFramebuffer /\ bufferMask = {} /\ currentBuffer = NoHandle
    /\ lostSlots = {} /\ interfered = FALSE
    /\ call = [t \in Threads |-> Idle]
    /\ held = [t \in Threads |-> NoLock]
    /\ owed = {}
    /\ lost = {} /\ strays = {}
-----------------------------------------------------------------------------
(* Descriptors and addresses. *)

\* What open() and its like return: at most one, none when all are in use.
Lowest(fs) == {d \in Descriptors : /\ fs[d] = CLOSED
                                   /\ \A e \in Descriptors : e < d => fs[e] # CLOSED}

\* Closing -1, or what is closed, is an error that nobody looks at.
Close(fs, d) == [e \in Descriptors |-> IF e = d THEN CLOSED ELSE fs[e]]

Open(fs, d, what) == [fs EXCEPT ![d] = what]

Free == {a \in Addresses : mapping[a] = NoHandle}
Mapped(a, h) == [b \in Addresses |-> IF b = a THEN h ELSE mapping[b]]
Unmapped(mp, a) == [b \in Addresses |-> IF b = a THEN NoHandle ELSE mp[b]]

\* Requests to a closed descriptor, or to one of something else, fail.
ClientWorks == ion_client \in Descriptors /\ files[ion_client] = ION

\* What the callers keep to: a buffer is freed or posted when no thread has it,
\* and one that was never registered here is not locked.
Resting(t) == call[t] = Idle
InUse(h) == currentBuffer = h \/ \E t \in Threads : held[t].handle = h \/ call[t].handle = h
UsesIon(h) == hnd[h].kind \in {"ion", "clone"}
BeingWritten(h) == \E t \in Threads : held[t] = [handle |-> h, write |-> TRUE]

\* delete, or native_handle_delete.
Forget(h) ==
    /\ hnd' = [hnd EXCEPT ![h] = NoObject]
    /\ owed' = owed \ {h}
    /\ UNCHANGED held
-----------------------------------------------------------------------------
(* Device objects.  Each of them opens the one client of the module. *)

\* The client before, if it was open, is forgotten.
alloc_backend_open(d) ==
    /\ d \in Lowest(files)
    /\ ion_client' = d
    /\ gralloc_legacy_ion' = LegacyIon
    /\ lost' = IF ClientWorks THEN lost \cup {ion_client} ELSE lost

\* ion_open fails, or no heap of ION is the system's.
alloc_backend_open_fails ==
    /\ ion_client' = -1
    /\ lost' = IF ClientWorks THEN lost \cup {ion_client} ELSE lost
    /\ undercut' = (undercut \/ devices > 0)
    /\ owed' = {}
    /\ UNCHANGED <<files, gralloc_legacy_ion, devices>>

alloc_device_open ==
    /\ devices < MaxDevices
    /\ \/ /\ \E d \in Descriptors : /\ alloc_backend_open(d)
                                    /\ files' = Open(files, d, ION)
          /\ devices' = devices + 1
          /\ UNCHANGED <<undercut, owed>>
       \/ alloc_backend_open_fails
    /\ UNCHANGED <<mapping, hnd, screen, call, held, strays>>

\* The number stays in ion_client.
alloc_backend_close ==
    /\ files' = Close(files, ion_client)
    /\ devices' = devices - 1
    /\ undercut' = (undercut \/ devices > 1)
    /\ UNCHANGED <<ion_client, gralloc_legacy_ion>>

AllocDeviceClose ==
    /\ devices > 0
    /\ alloc_backend_close
    /\ owed' = {}
    /\ UNCHANGED <<mapping, hnd, screen, call, held, lost, strays>>

\* The lock of the module.
Unlocked == \A t \in Threads : call[t].pc # "alloc"

\* What init_frame_buffer_locked leaves: the framebuffer there is, or a new one.
init_frame_buffer_locked(fs) ==
    IF fb # NoFramebuffer THEN {[fb |-> fb, files |-> fs]}
    ELSE {[fb |-> [fd |-> d, numBuffers |-> n], files |-> Open(fs, d, FBDEV)] :
             d \in Lowest(fs), n \in 1..NUM_FB_BUFFERS}

\* The descriptors that a failure of it leaves open: it has none yet, or one of
\* its ioctls or mmap() fails and it just returns.
InitFailures(fs) ==
    IF fb # NoFramebuffer THEN {} ELSE {{}} \cup {{d} : d \in Lowest(fs)}

\* The alloc device that is opened for it is closed only if it fails.
framebuffer_device_open ==
    /\ devices < MaxDevices /\ Unlocked
    /\ \E d \in Descriptors :
          /\ alloc_backend_open(d)
          /\ LET fs == Open(files, d, ION) IN
             \E r \in init_frame_buffer_locked(fs) :
                fb' = r.fb /\ files' = r.files
    /\ devices' = devices + 1
    /\ UNCHANGED <<mapping, hnd, undercut, bufferMask, currentBuffer,
                   lostSlots, interfered, call, locking, strays>>

FramebufferDeviceFails ==
    /\ devices < MaxDevices /\ Unlocked
    /\ \E d \in Lowest(files) : \E left \in InitFailures(Open(files, d, ION)) :
          /\ files' = [e \in Descriptors |-> IF e \in left THEN FBDEV ELSE files[e]]
          /\ ion_client' = d
          /\ lost' = lost \cup left \cup IF ClientWorks THEN {ion_client} ELSE {}
    /\ gralloc_legacy_ion' = LegacyIon
    /\ undercut' = (undercut \/ devices > 0)
    /\ owed' = {}
    /\ UNCHANGED <<mapping, hnd, devices, screen, call, held, strays>>
-----------------------------------------------------------------------------
(* Buffers. *)

alloc_backend_alloc_free(r, fs, mp) ==
    /\ files' = Close(fs, r.share_fd)
    /\ mapping' = Unmapped(mp, r.base)

\* Mutant of gralloc_buffer_attr_allocate: its failure ends the call.
GiveNothingBack(h, r, fs, hwFb) ==
    \/ \E d \in Lowest(fs) :
          /\ files' = Open(fs, d, Attributes(h))
          /\ hnd' = [hnd EXCEPT ![h] = [r EXCEPT !.share_attr_fd = d]]
          /\ mapping' = Mapped(r.base, h)
    \/ /\ files' = fs
       /\ hnd' = IF hwFb THEN [hnd EXCEPT ![h] = r] ELSE hnd
       /\ mapping' = Mapped(r.base, h)

\* The attribute page comes last.  Without one a buffer is given back, unless it
\* was asked for the framebuffer.
gralloc_buffer_attr_allocate(h, r, fs, hwFb) ==
    \/ \E d \in Lowest(fs) :
          /\ files' = Open(fs, d, Attributes(h))
          /\ hnd' = [hnd EXCEPT ![h] = [r EXCEPT !.share_attr_fd = d]]
          /\ mapping' = Mapped(r.base, h)
    \/ /\ hwFb
       /\ files' = fs
       /\ hnd' = [hnd EXCEPT ![h] = r]
       /\ mapping' = Mapped(r.base, h)
    \/ /\ ~hwFb
       /\ alloc_backend_alloc_free(r, fs, Mapped(r.base, h))
       /\ UNCHANGED hnd

\* Memory of ION; a protected buffer is not mapped.
alloc_backend_alloc(h, fs, hwFb) ==
    /\ ClientWorks
    /\ \E d \in Lowest(fs), a \in Free \cup {NULL} :
          gralloc_buffer_attr_allocate(h,
              [NoObject EXCEPT !.kind = "ion", !.base = a, !.share_fd = d],
              Open(fs, d, Memory(h)), hwFb)

alloc_device_alloc(t, h) ==
    /\ Resting(t) /\ devices > 0 /\ hnd[h] = NoObject
    /\ alloc_backend_alloc(h, files, FALSE)
    /\ UNCHANGED <<module, screen, call, locking, lost, strays>>

\* Mutant of gralloc_buffer_attr_free: the number is kept.
AttrKept(h) == hnd[h]

\* What is left of h when its attribute page is closed.
gralloc_buffer_attr_free(h) == [hnd[h] EXCEPT !.share_attr_fd = -1]

alloc_device_free(t, h) ==
    /\ Resting(t) /\ hnd[h].kind = "ion" /\ ~InUse(h)
    /\ alloc_backend_alloc_free(hnd[h], Close(files, hnd[h].share_attr_fd), mapping)
    /\ Forget(h)
    /\ UNCHANGED <<module, screen, call, lost, strays>>

\* A handle arrives from another process, with the base it has there.
Import(h) ==
    /\ hnd[h] = NoObject
    /\ \E d, e \in Descriptors :
          /\ d \in Lowest(files) /\ e \in Lowest(Open(files, d, Memory(h)))
          /\ files' = Open(Open(files, d, Memory(h)), e, Attributes(h))
          /\ hnd' = [hnd EXCEPT ![h] = [NoObject EXCEPT !.kind = "clone", !.base = FOREIGN,
                                           !.share_fd = d, !.share_attr_fd = e]]
    /\ UNCHANGED <<mapping, module, screen, call, locking, lost, strays>>

\* native_handle_close and native_handle_delete.
DeleteClone(h) ==
    /\ hnd[h].kind = "clone" /\ hnd[h].base \notin Addresses /\ ~InUse(h)
    /\ files' = Close(Close(files, hnd[h].share_fd), hnd[h].share_attr_fd)
    /\ Forget(h)
    /\ UNCHANGED <<mapping, module, screen, call, lost, strays>>

\* A process without a device gets its client here; a stale number passes for one.
gralloc_backend_register(t, h) ==
    /\ Resting(t) /\ UsesIon(h)
    /\ \/ /\ ion_client > 0
          /\ UNCHANGED <<files, ion_client>>
       \/ /\ ion_client <= 0
          /\ \E d \in Lowest(files) : ion_client' = d /\ files' = Open(files, d, ION)
    /\ \E a \in Free :
          /\ mapping' = Mapped(a, h)
          /\ hnd' = [hnd EXCEPT ![h].base = a]
    /\ strays' = strays \cup ({hnd[h].base} \cap Addresses)
    /\ UNCHANGED <<gralloc_legacy_ion, devices, undercut, screen, call,
                   locking, lost>>

\* ion_open fails, or, once there is a client, mmap() does.
RegisterFails(t, h) ==
    /\ Resting(t) /\ UsesIon(h) /\ ion_client <= 0
    /\ \/ ion_client' = -1 /\ UNCHANGED files
       \/ \E d \in Lowest(files) : ion_client' = d /\ files' = Open(files, d, ION)
    /\ UNCHANGED <<mapping, hnd, gralloc_legacy_ion, devices, undercut, screen,
                   call, locking, lost, strays>>

\* Whether a thread has the buffer locked is logged, no more.
gralloc_unregister_buffer(t, h) ==
    /\ Resting(t) /\ UsesIon(h) /\ hnd[h].base # FOREIGN
    /\ mapping' = Unmapped(mapping, hnd[h].base)
    /\ files' = Close(files, hnd[h].share_attr_fd)
    /\ hnd' = [hnd EXCEPT ![h] =
                  [gralloc_buffer_attr_free(h) EXCEPT !.base = NULL, !.writeOwner = FALSE]]
    /\ owed' = owed \ {h}
    /\ UNCHANGED <<module, screen, call, held, lost, strays>>
-----------------------------------------------------------------------------
(* Locks.  There is no lock state, only the usage of the last lock. *)

gralloc_lock(t, h, write) ==
    /\ Resting(t) /\ held[t] = NoLock /\ UsesIon(h) /\ hnd[h].base \in Addresses
    /\ hnd' = [hnd EXCEPT ![h].writeOwner = write]
    /\ held' = [held EXCEPT ![t] = [handle |-> h, write |-> write]]
    /\ owed' = IF ~write THEN owed \ {h}
               ELSE IF LegacyIon /\ devices > 0 /\ ~undercut THEN owed \cup {h} ELSE owed
    /\ UNCHANGED <<files, mapping, module, screen, call, lost, strays>>

\* Mutant of gralloc_backend_sync: what came from another process is skipped.
SyncOwn(h) == gralloc_legacy_ion /\ ClientWorks /\ hnd[h].kind = "ion"

\* It needs the client, and to know the kernel, which only a device asks about.
gralloc_backend_sync(h) == gralloc_legacy_ion /\ ClientWorks

gralloc_unlock(t) ==
    LET h == held[t].handle
        writing == \E u \in Threads \ {t} : held[u] = [handle |-> h, write |-> TRUE]
        synced == hnd[h].writeOwner /\ gralloc_backend_sync(h)
        clean == IF synced /\ ~writing THEN {h} ELSE {}
    IN
    /\ Resting(t) /\ held[t] # NoLock
    /\ owed' = owed \ clean
    /\ held' = [held EXCEPT ![t] = NoLock]
    /\ UNCHANGED <<files, mapping, hnd, module, screen, call, lost, strays>>
-----------------------------------------------------------------------------
(* Slots of the framebuffer.  bufferMask is loaded and stored in two steps:*)
(* a free does not take the lock of the module.                            *)

AllocSlot(t) ==
    /\ Resting(t) /\ Unlocked /\ devices > 0
    /\ \E r \in init_frame_buffer_locked(files) :
          /\ r.fb.numBuffers > 1
          /\ fb' = r.fb /\ files' = r.files
    /\ bufferMask # Slots
    /\ call' = [call EXCEPT ![t] = [pc |-> "alloc", handle |-> NoHandle, mask |-> bufferMask]]
    /\ UNCHANGED <<mapping, hnd, module, bufferMask, currentBuffer,
                   lostSlots, interfered, locking, lost, strays>>

AllocSlotFails(t) ==
    /\ Resting(t) /\ Unlocked /\ devices > 0
    /\ \E left \in InitFailures(files) :
          /\ left # {}
          /\ files' = [e \in Descriptors |-> IF e \in left THEN FBDEV ELSE files[e]]
          /\ lost' = lost \cup left
    /\ UNCHANGED <<mapping, hnd, module, screen, call, locking, strays>>

\* No page flipping: the answer is a regular buffer, or an error.
AllocSingleBuffer(t, h) ==
    /\ Resting(t) /\ Unlocked /\ devices > 0 /\ hnd[h] = NoObject
    /\ \E r \in init_frame_buffer_locked(files) :
          /\ r.fb.numBuffers = 1
          /\ fb' = r.fb
          /\ \/ alloc_backend_alloc(h, r.files, TRUE)
             \/ files' = r.files /\ UNCHANGED <<hnd, mapping>>
    /\ UNCHANGED <<module, bufferMask, currentBuffer, lostSlots,
                   interfered, call, locking, lost, strays>>

FreeSlot(mask) == CHOOSE i \in Slots \ mask : \A j \in Slots \ mask : i <= j

\* The slot becomes a handle if its memory can be exported.  If not, the bit stays
\* set, and a regular buffer is the answer, or an error.
FinishAlloc(t, h) ==
    LET s == FreeSlot(call[t].mask) IN
    /\ call[t].pc = "alloc" /\ hnd[h] = NoObject
    /\ bufferMask' = call[t].mask \cup {s}
    /\ call' = [call EXCEPT ![t] = Idle]
    /\ \/ /\ \E d \in Lowest(files) :
                gralloc_buffer_attr_allocate(h,
                    [NoObject EXCEPT !.kind = "framebuffer", !.share_fd = d, !.slot = s],
                    Open(files, d, Memory(h)), TRUE)
          /\ UNCHANGED lostSlots
       \/ /\ alloc_backend_alloc(h, files, TRUE)
          /\ lostSlots' = lostSlots \cup {s}
       \/ /\ lostSlots' = lostSlots \cup {s}
          /\ UNCHANGED <<files, hnd, mapping>>
    /\ UNCHANGED <<module, fb, currentBuffer, interfered, locking,
                   lost, strays>>

BeginFree(t, h) ==
    /\ Resting(t) /\ hnd[h].kind = "framebuffer" /\ ~InUse(h)
    /\ call' = [call EXCEPT ![t] = [pc |-> "free", handle |-> h, mask |-> bufferMask]]
    /\ UNCHANGED <<kernel, hnd, module, screen, locking, lost, strays>>

\* alloc_backend_alloc_free does nothing for a slot: share_fd stays open.
FinishFree(t) ==
    LET h == call[t].handle IN
    /\ call[t].pc = "free"
    /\ bufferMask' = call[t].mask \ {hnd[h].slot}
    /\ interfered' = (interfered \/ bufferMask # call[t].mask \/ ~Unlocked)
    /\ files' = Close(files, hnd[h].share_attr_fd)
    /\ lost' = lost \cup {hnd[h].share_fd}
    /\ Forget(h)
    /\ call' = [call EXCEPT ![t] = Idle]
    /\ UNCHANGED <<mapping, module, fb, currentBuffer, lostSlots, strays>>

\* Locking a slot, to post it or to let it go, changes nothing.
fb_post(t, h) ==
    /\ Resting(t) /\ hnd[h].kind = "framebuffer"
    /\ \A u \in Threads : call[u].handle # h
    /\ \/ currentBuffer' = h
       \/ currentBuffer' = NoHandle    \* no panning, or no vertical sync after it
    /\ UNCHANGED <<kernel, hnd, module, fb, bufferMask, lostSlots, interfered, call,
                   locking, lost, strays>>

\* Any other buffer is locked to be read, copied and unlocked.
PostCopy(t, h) ==
    /\ Resting(t) /\ fb # NoFramebuffer /\ UsesIon(h) /\ hnd[h].base \in Addresses
    /\ currentBuffer' = NoHandle
    /\ hnd' = [hnd EXCEPT ![h].writeOwner = FALSE]
    /\ owed' = owed \ {h}
    /\ UNCHANGED <<kernel, module, fb, bufferMask, lostSlots, interfered,
                   call, held, lost, strays>>
-----------------------------------------------------------------------------
Next ==
    \/ alloc_device_open \/ AllocDeviceClose
    \/ framebuffer_device_open \/ FramebufferDeviceFails
    \/ \E h \in Handles : Import(h) \/ DeleteClone(h)
    \/ \E t \in Threads :
          \/ AllocSlot(t) \/ AllocSlotFails(t) \/ FinishFree(t) \/ gralloc_unlock(t)
          \/ \E h \in Handles :
                \/ alloc_device_alloc(t, h) \/ alloc_device_free(t, h)
                \/ gralloc_backend_register(t, h) \/ RegisterFails(t, h)
                \/ gralloc_unregister_buffer(t, h)
                \/ AllocSingleBuffer(t, h) \/ FinishAlloc(t, h) \/ BeginFree(t, h)
                \/ fb_post(t, h) \/ PostCopy(t, h)
                \/ \E write \in BOOLEAN : gralloc_lock(t, h, write)

Spec == Init /\ [][Next]_vars
-----------------------------------------------------------------------------
\* What each descriptor should be open on, by who names it.
Names(d) ==
    {Memory(h) : h \in {g \in Handles : hnd[g].share_fd = d}}
    \cup {Attributes(h) : h \in {g \in Handles : hnd[g].share_attr_fd = d}}
    \cup (IF fb.fd = d THEN {FBDEV} ELSE {})
    \cup (IF ion_client = d /\ (devices > 0 \/ files[d] = ION) THEN {ION} ELSE {})

\* Every descriptor has one owner: what a handle or the module names is open, on
\* the right thing, and no other name of it is in use; what is open is named, but
\* for the descriptors listed in `lost` (a client that a second device replaces, one
\* of the framebuffer after a failing init, the export of a freed slot).  Closing a
\* device while another is alive breaks this, and is left out: both close the
\* number that is in ion_client.
DescriptorsOwned ==
    ~undercut => \A d \in Descriptors :
        /\ \A n \in Names(d) : files[d] = n
        /\ files[d] # CLOSED => d \in lost \/ Names(d) # {}

\* Memory has one owner too.  A base that is not NULL or from another process is
\* where the memory of its handle is, and what is mapped can be unmapped, but for
\* addresses that a registration has overwritten.  A set bit of bufferMask is the
\* slot of one handle, or of a failed export, unless a free has run into another
\* update of the mask; and the buffer that was posted last is a slot.
MemoryOwned ==
    /\ \A h \in Handles : hnd[h].base \in Addresses => mapping[hnd[h].base] = h
    /\ \A a \in Addresses \ strays : mapping[a] # NoHandle => hnd[mapping[a]].base = a
    /\ LET buffers == {h \in Handles : hnd[h].kind = "framebuffer"} IN
       ~interfered =>
          /\ bufferMask = {hnd[h].slot : h \in buffers} \cup lostSlots
          /\ \A g, h \in buffers : hnd[g].slot = hnd[h].slot => g = h
          /\ \A h \in buffers : hnd[h].slot \notin lostSlots
    /\ currentBuffer # NoHandle => hnd[currentBuffer].kind = "framebuffer"

\* What the CPU wrote to a buffer is synced by the time the last writer has unlocked
\* it, unless the buffer was meanwhile locked to be read, unregistered or copied to
\* the screen (there is one writeOwner, and the last of these decides), or no device
\* was there: a process that only registers buffers never learns that the kernel
\* needs syncing.
WritesAreSynced == \A h \in owed : BeingWritten(h)
=============================================================================
