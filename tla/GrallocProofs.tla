--------------------------- MODULE GrallocProofs ----------------------------
(***************************************************************************)
(* The safety properties of Gralloc, for all threads, handles and          *)
(* addresses.                                                              *)
(***************************************************************************)
EXTENDS Gralloc, TLAPS

\* Thread t has locked the ION buffer h, or is about to see its address.
Using(t, h) ==
    \/ held[t].handle = h
    \/ pc[t] \in {"lock_vaddr", "copy"} /\ arg[t] = h

\* What the fields of a handle say of each other.
HandleInv ==
    \A h \in Handles :
        /\ kind[h] = "none" => ~own[h] /\ base[h] = NULL /\ lockState[h] = {}
        /\ kind[h] = "framebuffer" => base[h] = SCREEN /\ "UNREGISTERED" \notin lockState[h]
        /\ UsesIon(h) => base[h] # SCREEN
        /\ kind[h] = "ion" => own[h]
        /\ base[h] \in Addresses => mapping[base[h]] = h
        /\ Usable(h) /\ "UNREGISTERED" \notin lockState[h] /\ h \notin confused
               => base[h] \in Addresses
        /\ Usable(h) => base[h] # FOREIGN
        /\ "UNREGISTERED" \in lockState[h] /\ base[h] # NULL => "WRITE" \in lockState[h]

\* What a thread passes from one step of a call to the next one.
CallInv ==
    \A t \in Threads :
        /\ pc[t] \in {"idle", "alloc_mask"} => arg[t] = NoHandle
        /\ pc[t] \in {"lock_vaddr", "copy"} =>
               arg[t] \in Handles /\ UsesIon(arg[t]) /\ base[arg[t]] # FOREIGN
        /\ pc[t] \in {"free_mask", "post_lock", "post_pan", "post_vsync"}
               => arg[t] \in Handles /\ Framebuffer(arg[t])
        /\ held[t].handle = NoHandle => held[t] = NoLock
        /\ held[t].handle # NoHandle =>
               UsesIon(held[t].handle) /\ base[held[t].handle] # FOREIGN
        /\ pc[t] = "lock_vaddr" => held[t] = NoLock

\* As long as lockState tells who uses a buffer, there is one user, and the bit is set.
LockInv ==
    \A h \in Handles :
        /\ UsesIon(h) /\ "WRITE" \in lockState[h] => \E t \in Threads : Using(t, h)
        /\ \A t \in Threads :
               Using(t, h) /\ h \notin confused =>
                   /\ "WRITE" \in lockState[h]
                   /\ \A u \in Threads : Using(u, h) => u = t
                   /\ held[t].handle = h => /\ held[t].vaddr \in Addresses
                                            /\ mapping[held[t].vaddr] = h
                   /\ pc[t] \in {"lock_vaddr", "copy"} /\ arg[t] = h =>
                          base[h] \in Addresses /\ held[t].handle # h

\* The lock of the module keeps the mask from everybody but those who free.
MaskInv ==
    /\ \A t \in Threads :
           pc[t] = "alloc_mask" => /\ loaded[t] # Slots
                                   /\ interfered \/ loaded[t] = bufferMask
                                   /\ \A u \in Threads : pc[u] = "alloc_mask" => u = t
    /\ \A t \in Threads :
           pc[t] = "free_mask" => /\ currentBuffer # arg[t]
                                  /\ \A u \in Threads : arg[u] = arg[t] => u = t

\* The one thread that posts, and what it leaves behind.
PostInv ==
    /\ \A t, u \in Threads : pc[t] \in Posting /\ pc[u] \in Posting => t = u
    /\ \A t \in Threads :
           /\ pc[t] \in {"post_lock", "post_pan", "post_vsync"} => currentBuffer = NoHandle
           /\ pc[t] \in {"post_pan", "post_vsync"} => "WRITE" \in lockState[arg[t]]
           /\ pc[t] = "post_vsync" => shown = slot[arg[t]]
    /\ CurrentBufferIsShown

IInv == TypeOK /\ HandleInv /\ NoMappingLost /\ CallInv /\ LockInv /\ MaskInv /\ PostInv

-----------------------------------------------------------------------------
USE AddressesAssumption, NoHandleAssumption

\* There is a first free slot if a slot is free.
LEMMA FreeSlotIsFree ==
  ASSUME NEW mask \in SUBSET Slots, mask # Slots
  PROVE  FreeSlot(mask) \in Slots \ mask
<1>1. \E i \in Slots \ mask : \A j \in Slots \ mask : i <= j
  <2>0. Slots = {0, 1}
    BY DEF Slots, NUM_FB_BUFFERS
  <2>1. CASE 0 \notin mask
    BY <2>0, <2>1
  <2>2. CASE 0 \in mask
    <3>1. 1 \notin mask
      BY <2>0, <2>2
    <3>. QED  BY <2>0, <2>2, <3>1
  <2>. QED  BY <2>1, <2>2
<1>. QED  BY <1>1 DEF FreeSlot

\* The initial states.
LEMMA InitInv ==
  ASSUME Init
  PROVE  IInv
<1>1. TypeOK
  <2>1. /\ held \in [Threads -> [handle : Handles \cup {NoHandle},
                                   vaddr : Addresses \cup {NULL, FOREIGN}]]
        /\ pc \in [Threads -> {"idle", "lock_vaddr", "alloc_mask", "free_mask"} \cup Posting]
    BY DEF Init, NoLock, Posting
  <2>2. /\ lockState \in [Handles -> SUBSET {"WRITE", "MAPPED", "UNREGISTERED"}]
        /\ loaded \in [Threads -> SUBSET Slots]
        /\ slot \in [Handles -> Slots] /\ shown \in Slots
    BY DEF Init, Slots, NUM_FB_BUFFERS
  <2>3. /\ kind \in [Handles -> {"none", "ion", "clone", "framebuffer"}]
        /\ own \in [Handles -> BOOLEAN]
        /\ base \in [Handles -> Addresses \cup {NULL, FOREIGN, SCREEN}]
        /\ mapping \in [Addresses -> Handles \cup {NoHandle}]
        /\ arg \in [Threads -> Handles \cup {NoHandle}]
    BY DEF Init
  <2>4. /\ numBuffers \in 0..NUM_FB_BUFFERS /\ bufferMask \subseteq Slots
        /\ currentBuffer \in Handles \cup {NoHandle} /\ fb_vaddr \in {"unset", "screen"}
        /\ rejected \subseteq Handles /\ confused \subseteq Handles
        /\ strays \subseteq Addresses /\ abandoned \subseteq Handles
    BY DEF Init, NUM_FB_BUFFERS
  <2>5. interfered \in BOOLEAN
    BY DEF Init
  <2>. QED  BY <2>1, <2>2, <2>3, <2>4, <2>5 DEF TypeOK
<1>2. HandleInv
  BY DEF Init, HandleInv, NoLock, UsesIon, NULL, FOREIGN, SCREEN, Usable
<1>3. NoMappingLost
  BY DEF Init, NoMappingLost, Live, UsesIon, NULL, FOREIGN, SCREEN, HandleInv
<1>4. CallInv
  BY DEF Init, CallInv, NULL, FOREIGN, SCREEN, HandleInv, NoLock, UsesIon, Framebuffer,
     Usable, InUse, Holders, Posting
<1>5. LockInv
  BY DEF Init, LockInv, NoLock, UsesIon, NULL, FOREIGN, SCREEN, CallInv, HandleInv,
     Using, Usable, InUse, Holders, Posting
<1>6. MaskInv
  BY DEF Init, MaskInv, NoLock, CallInv, Framebuffer, UsesIon, Unlocked, InUse, Holders,
     Slots, Posting
<1>7. PostInv
  BY DEF Init, PostInv, CallInv, CurrentBufferIsShown, Framebuffer, UsesIon, Posting,
     InUse, Holders, HandleInv, Usable
<1>. QED  BY <1>1, <1>2, <1>3, <1>4, <1>5, <1>6, <1>7 DEF IInv

\* The end of a free. Its handle is named once and for all: the step replaces arg[t].
LEMMA FreeMaskInv ==
  ASSUME IInv, NEW t \in Threads, FreeMask(t)
  PROVE  IInv'
<1>1. PICK h \in Handles : h = arg[t]
  BY DEF IInv, CallInv, FreeMask
<1>2. /\ Framebuffer(h) /\ pc[t] = "free_mask" /\ h # currentBuffer
      /\ \A u \in Threads : arg[u] = h => u = t
      /\ h # NoHandle
  BY <1>1 DEF IInv, CallInv, MaskInv, FreeMask
<1>3. /\ kind' = [kind EXCEPT ![h] = "none"]
      /\ own' = [own EXCEPT ![h] = FALSE]
      /\ base' = [base EXCEPT ![h] = NULL]
      /\ lockState' = [lockState EXCEPT ![h] = {}]
      /\ slot' = [slot EXCEPT ![h] = 0]
      /\ rejected' = rejected \ {h}
      /\ confused' = confused \ {h}
      /\ abandoned' = abandoned \ {h}
  BY <1>1 DEF FreeMask, Delete
<1>4. /\ pc' = [pc EXCEPT ![t] = "idle"]
      /\ arg' = [arg EXCEPT ![t] = NoHandle]
      /\ loaded' = [loaded EXCEPT ![t] = {}]
      /\ bufferMask' = loaded[t] \ {slot[h]}
      /\ interfered' = (interfered \/ ~Unlocked)
      /\ UNCHANGED <<mapping, numBuffers, currentBuffer, shown, fb_vaddr, held, strays>>
  BY <1>1 DEF FreeMask, Delete, StoreMask, Return, Goto
<1>5. TypeOK'
  BY <1>2, <1>3, <1>4 DEF IInv, TypeOK, Framebuffer, Slots, Posting, NULL, FOREIGN,
     SCREEN, NUM_FB_BUFFERS
<1>6. HandleInv'
  BY <1>2, <1>3, <1>4 DEF IInv, TypeOK, Framebuffer, HandleInv, Usable, UsesIon, NULL,
     FOREIGN, SCREEN
<1>7. NoMappingLost'
  BY <1>2, <1>3, <1>4 DEF IInv, TypeOK, Framebuffer, NoMappingLost, HandleInv, Live,
     SCREEN
<1>8. CallInv'
  BY <1>2, <1>3, <1>4 DEF IInv, TypeOK, Framebuffer, CallInv, NoLock, UsesIon, NULL,
     FOREIGN
<1>9. LockInv'
  BY <1>2, <1>3, <1>4 DEF IInv, TypeOK, Framebuffer, LockInv, Using, CallInv, UsesIon,
     NoLock
<1>10. PostInv'
  BY <1>2, <1>3, <1>4 DEF IInv, TypeOK, Framebuffer, PostInv, CallInv,
     CurrentBufferIsShown, Posting
<1>11. MaskInv'
  <2>1. ASSUME NEW u \in Threads, pc'[u] = "alloc_mask"
        PROVE  /\ loaded'[u] # Slots' /\ interfered'
               /\ \A v \in Threads : pc'[v] = "alloc_mask" => v = u
    <3>1. u # t /\ pc[u] = "alloc_mask"
      BY <1>4, <2>1 DEF IInv, TypeOK
    <3>. QED  BY <1>2, <1>4, <3>1 DEF IInv, TypeOK, MaskInv, Unlocked, Slots
  <2>2. ASSUME NEW u \in Threads, pc'[u] = "free_mask"
        PROVE  /\ currentBuffer' # arg'[u]
               /\ \A v \in Threads : arg'[v] = arg'[u] => v = u
    <3>1. u # t /\ pc[u] = "free_mask" /\ arg[u] # NoHandle
      BY <1>4, <2>2 DEF IInv, TypeOK, CallInv
    <3>. QED  BY <1>4, <3>1 DEF IInv, TypeOK, MaskInv
  <2>. QED  BY <2>1, <2>2 DEF MaskInv
<1>. QED  BY <1>5, <1>6, <1>7, <1>8, <1>9, <1>10, <1>11 DEF IInv

\* Types.
LEMMA TypeStep ==
  ASSUME IInv, [Next]_vars
  PROVE  TypeOK'
<1>. USE DEF IInv, handles, screen, threads, history
<1>1. ASSUME NEW t \in Threads, NEW h \in Handles, AllocBuffer(t, h) PROVE TypeOK'
  BY <1>1 DEF TypeOK, AllocBuffer, gralloc_alloc_buffer, MapAt, Slots, NoLock, UsesIon,
     Posting, NULL, FOREIGN, SCREEN, NUM_FB_BUFFERS, CallInv, HandleInv, Framebuffer
<1>2. ASSUME NEW h \in Handles, Import(h) PROVE TypeOK'
  BY <1>2 DEF TypeOK, Import, Slots, NoLock, UsesIon, Posting, NULL, FOREIGN, SCREEN,
     NUM_FB_BUFFERS, CallInv, HandleInv, Framebuffer
<1>3. ASSUME NEW t \in Threads, NEW h \in Handles, gralloc_register_buffer(t, h)
      PROVE TypeOK'
  BY <1>3 DEF TypeOK, gralloc_register_buffer, MapAt, Slots, NoLock, UsesIon, Posting,
     NULL, FOREIGN, SCREEN, NUM_FB_BUFFERS, CallInv, HandleInv, Framebuffer
<1>4. ASSUME NEW t \in Threads, NEW h \in Handles, RegisterFails(t, h) PROVE TypeOK'
  BY <1>4 DEF TypeOK, RegisterFails, Slots, NoLock, UsesIon, Posting, NULL, FOREIGN,
     SCREEN, NUM_FB_BUFFERS, CallInv, HandleInv, Framebuffer
<1>5. ASSUME NEW t \in Threads, NEW h \in Handles, gralloc_unregister_buffer(t, h)
      PROVE TypeOK'
  <2>1. CASE "WRITE" \in lockState[h]
    BY <1>5, <2>1 DEF TypeOK, gralloc_unregister_buffer
  <2>2. CASE "WRITE" \notin lockState[h]
    <3>1. /\ UNCHANGED <<kind, own, slot, screen, threads, history>>
          /\ unmap_buffer(h, {"UNREGISTERED"})
      BY <1>5, <2>2 DEF gralloc_unregister_buffer
    <3>2. mapping' \in [Addresses -> Handles \cup {NoHandle}]
      BY <3>1 DEF TypeOK, unmap_buffer
    <3>. QED  BY <3>1, <3>2 DEF TypeOK, unmap_buffer
  <2>. QED  BY <2>1, <2>2
<1>6. ASSUME NEW t \in Threads, NEW h \in Handles, gralloc_lock(t, h) PROVE TypeOK'
  BY <1>6 DEF TypeOK, gralloc_lock, MarkLocked, Goto, Usable, Slots, NoLock, UsesIon,
     Posting, NULL, FOREIGN, SCREEN, NUM_FB_BUFFERS, CallInv, HandleInv, Framebuffer
<1>7. ASSUME NEW t \in Threads, NEW h \in Handles, FreeBuffer(t, h) PROVE TypeOK'
  BY <1>7 DEF TypeOK, FreeBuffer, Delete, Slots, NoLock, UsesIon, Posting, NULL,
     FOREIGN, SCREEN, NUM_FB_BUFFERS, CallInv, HandleInv, Framebuffer
<1>8. ASSUME NEW h \in Handles, DeleteClone(h) PROVE TypeOK'
  BY <1>8 DEF TypeOK, DeleteClone, Delete, Slots, NoLock, UsesIon, Posting, NULL,
     FOREIGN, SCREEN, NUM_FB_BUFFERS, CallInv, HandleInv, Framebuffer
<1>9. ASSUME NEW t \in Threads, NEW h \in Handles, AllocSingleBuffer(t, h) PROVE TypeOK'
  BY <1>9 DEF TypeOK, AllocSingleBuffer, gralloc_alloc_buffer, MapAt,
     init_frame_buffer_locked, Slots, NoLock, UsesIon, Posting, NULL, FOREIGN, SCREEN,
     NUM_FB_BUFFERS, CallInv, HandleInv, Framebuffer
<1>10. ASSUME NEW t \in Threads, NEW h \in Handles, AllocMask(t, h) PROVE TypeOK'
  <2>1. FreeSlot(loaded[t]) \in Slots
    BY <1>10, FreeSlotIsFree DEF IInv, MaskInv, TypeOK, AllocMask
  <2>. QED
    BY <1>10, <2>1 DEF TypeOK, AllocMask, StoreMask, Return, Goto, NoLock, SCREEN
<1>11. ASSUME NEW t \in Threads, NEW h \in Handles, FreeFramebuffer(t, h) PROVE TypeOK'
  BY <1>11 DEF TypeOK, FreeFramebuffer, Goto, Slots, NoLock, UsesIon, Posting, NULL,
     FOREIGN, SCREEN, NUM_FB_BUFFERS, CallInv, HandleInv, Framebuffer
<1>12. ASSUME NEW t \in Threads, NEW h \in Handles, fb_post(t, h) PROVE TypeOK'
  BY <1>12 DEF TypeOK, fb_post, CanPost, Goto, Slots, NoLock, UsesIon, Posting, NULL,
     FOREIGN, SCREEN, NUM_FB_BUFFERS, CallInv, HandleInv, Framebuffer
<1>13. ASSUME NEW t \in Threads, NEW h \in Handles, PostCopy(t, h) PROVE TypeOK'
  BY <1>13 DEF TypeOK, PostCopy, CanPost, MarkLocked, Goto, Usable, Slots, NoLock,
     UsesIon, Posting, NULL, FOREIGN, SCREEN, NUM_FB_BUFFERS, CallInv, HandleInv,
     Framebuffer
<1>14. ASSUME NEW t \in Threads, LockVaddr(t) PROVE TypeOK'
  <2>1. arg[t] \in Handles /\ base[arg[t]] \in Addresses \cup {NULL, FOREIGN}
    BY <1>14 DEF IInv, TypeOK, CallInv, HandleInv, LockVaddr
  <2>. QED
    BY <1>14, <2>1 DEF TypeOK, LockVaddr, Return, Goto
<1>15. ASSUME NEW t \in Threads, gralloc_unlock(t) PROVE TypeOK'
  <2>0. held[t].handle \in Handles
    BY <1>15 DEF IInv, CallInv, TypeOK, gralloc_unlock
  <2>1. CASE "UNREGISTERED" \in lockState[held[t].handle]
    <3>1. unmap_buffer(held[t].handle, {}) /\ confused' = confused \cup {held[t].handle}
      BY <1>15, <2>1 DEF gralloc_unlock, MarkUnlocked
    <3>2. mapping' \in [Addresses -> Handles \cup {NoHandle}]
      BY <3>1 DEF TypeOK, unmap_buffer
    <3>3. /\ base' \in [Handles -> Addresses \cup {NULL, FOREIGN, SCREEN}]
          /\ lockState' \in [Handles -> SUBSET {"WRITE", "MAPPED", "UNREGISTERED"}]
      BY <3>1 DEF TypeOK, unmap_buffer
    <3>. QED  BY <1>15, <2>0, <3>1, <3>2, <3>3 DEF gralloc_unlock,
       TypeOK, NoLock, Posting, NULL, FOREIGN, SCREEN
  <2>2. CASE "UNREGISTERED" \notin lockState[held[t].handle]
    BY <1>15, <2>0, <2>2 DEF MarkUnlocked, gralloc_unlock,
       TypeOK, NoLock, Posting, NULL, FOREIGN, SCREEN
  <2>. QED  BY <2>1, <2>2
<1>16. ASSUME NEW t \in Threads, framebuffer_device_open(t) PROVE TypeOK'
  BY <1>16 DEF TypeOK, framebuffer_device_open, init_frame_buffer_locked, Slots, NoLock,
     UsesIon, Posting, NULL, FOREIGN, SCREEN, NUM_FB_BUFFERS, CallInv, HandleInv,
     Framebuffer
<1>17. ASSUME NEW t \in Threads, gralloc_alloc_framebuffer(t) PROVE TypeOK'
  BY <1>17 DEF TypeOK, gralloc_alloc_framebuffer, Goto, init_frame_buffer_locked, Slots,
     NoLock, UsesIon, Posting, NULL, FOREIGN, SCREEN, NUM_FB_BUFFERS, CallInv,
     HandleInv, Framebuffer
<1>18. ASSUME NEW t \in Threads, PostLock(t) PROVE TypeOK'
  BY <1>18 DEF TypeOK, PostLock, Goto, Slots, NoLock, UsesIon, Posting, NULL, FOREIGN,
     SCREEN, NUM_FB_BUFFERS, CallInv, HandleInv, Framebuffer
<1>19. ASSUME NEW t \in Threads, PanDisplay(t) PROVE TypeOK'
  BY <1>19 DEF TypeOK, PanDisplay, Goto, Slots, NoLock, UsesIon, Posting, NULL, FOREIGN,
     SCREEN, NUM_FB_BUFFERS, CallInv, HandleInv, Framebuffer
<1>20. ASSUME NEW t \in Threads, PanDisplayFails(t) PROVE TypeOK'
  BY <1>20 DEF TypeOK, PanDisplayFails, Return, Goto, Slots, NoLock, UsesIon, Posting,
     NULL, FOREIGN, SCREEN, NUM_FB_BUFFERS, CallInv, HandleInv, Framebuffer
<1>21. ASSUME NEW t \in Threads, WaitForVsync(t) PROVE TypeOK'
  BY <1>21 DEF TypeOK, WaitForVsync, Return, Goto, Slots, NoLock, UsesIon, Posting,
     NULL, FOREIGN, SCREEN, NUM_FB_BUFFERS, CallInv, HandleInv, Framebuffer
<1>22. ASSUME NEW t \in Threads, WaitForVsyncFails(t) PROVE TypeOK'
  BY <1>22 DEF TypeOK, WaitForVsyncFails, Return, Goto, Slots, NoLock, UsesIon, Posting,
     NULL, FOREIGN, SCREEN, NUM_FB_BUFFERS, CallInv, HandleInv, Framebuffer
<1>23. ASSUME NEW t \in Threads, CopyToScreen(t) PROVE TypeOK'
  <2>0. arg[t] \in Handles
    BY <1>23 DEF IInv, CallInv, CopyToScreen
  <2>1. CASE "UNREGISTERED" \in lockState[arg[t]]
    <3>1. unmap_buffer(arg[t], {}) /\ confused' = confused \cup {arg[t]}
      BY <1>23, <2>1 DEF CopyToScreen, MarkUnlocked
    <3>2. mapping' \in [Addresses -> Handles \cup {NoHandle}]
      BY <3>1 DEF TypeOK, unmap_buffer
    <3>3. /\ base' \in [Handles -> Addresses \cup {NULL, FOREIGN, SCREEN}]
          /\ lockState' \in [Handles -> SUBSET {"WRITE", "MAPPED", "UNREGISTERED"}]
      BY <3>1 DEF TypeOK, unmap_buffer
    <3>. QED  BY <1>23, <2>0, <3>1, <3>2, <3>3 DEF CopyToScreen, Return, Goto,
       TypeOK, NoLock, Posting, NULL, FOREIGN, SCREEN
  <2>2. CASE "UNREGISTERED" \notin lockState[arg[t]]
    BY <1>23, <2>0, <2>2 DEF MarkUnlocked, CopyToScreen, Return, Goto,
       TypeOK, NoLock, Posting, NULL, FOREIGN, SCREEN
  <2>. QED  BY <2>1, <2>2
<1>24. ASSUME NEW t \in Threads, FreeMask(t) PROVE TypeOK'
  BY <1>24, FreeMaskInv
<1>25. CASE UNCHANGED vars
  BY <1>25 DEF vars, TypeOK, Slots, NoLock, UsesIon, Posting, NULL, FOREIGN, SCREEN,
     NUM_FB_BUFFERS, CallInv, HandleInv, Framebuffer
<1>. QED
  BY <1>1, <1>2, <1>3, <1>4, <1>5, <1>6, <1>7, <1>8, <1>9, <1>10, <1>11, <1>12, <1>13,
     <1>14, <1>15, <1>16, <1>17, <1>18, <1>19, <1>20, <1>21, <1>22, <1>23, <1>24, <1>25
     DEF Next, Buffers, Framebuffers, Steps

\* The fields of the handles. Only calls that change a handle matter.
LEMMA HandleStep ==
  ASSUME IInv, [Next]_vars
  PROVE  HandleInv'
<1>. USE DEF IInv, handles, screen, threads, history
<1>1. ASSUME NEW t \in Threads, NEW h \in Handles, AllocBuffer(t, h) PROVE HandleInv'
  BY <1>1 DEF TypeOK, AllocBuffer, gralloc_alloc_buffer, MapAt, NoLock, UsesIon, NULL,
     FOREIGN, SCREEN, HandleInv, Usable
<1>2. ASSUME NEW h \in Handles, Import(h) PROVE HandleInv'
  BY <1>2 DEF TypeOK, Import, NoLock, UsesIon, NULL, FOREIGN, SCREEN, HandleInv, Usable
<1>3. ASSUME NEW t \in Threads, NEW h \in Handles, gralloc_register_buffer(t, h)
      PROVE HandleInv'
  BY <1>3 DEF TypeOK, gralloc_register_buffer, MapAt, NoLock, UsesIon, NULL, FOREIGN,
     SCREEN, HandleInv, Usable
<1>4. ASSUME NEW t \in Threads, NEW h \in Handles, RegisterFails(t, h) PROVE HandleInv'
  BY <1>4 DEF TypeOK, RegisterFails, NoLock, UsesIon, NULL, FOREIGN, SCREEN, HandleInv,
     Usable
<1>5. ASSUME NEW t \in Threads, NEW h \in Handles, gralloc_unregister_buffer(t, h)
      PROVE HandleInv'
  <2>1. CASE "WRITE" \in lockState[h]
    BY <1>5, <2>1 DEF TypeOK, gralloc_unregister_buffer, HandleInv, Usable,
       UsesIon, NULL, FOREIGN, SCREEN
  <2>2. CASE "WRITE" \notin lockState[h]
    <3>1. /\ UNCHANGED <<kind, own, slot, screen, threads, history>>
          /\ unmap_buffer(h, {"UNREGISTERED"})
      BY <1>5, <2>2 DEF gralloc_unregister_buffer
    <3>. QED  BY <1>5, <2>2, <3>1 DEF TypeOK, gralloc_unregister_buffer, unmap_buffer,
                 HandleInv, Usable,
       UsesIon, NULL, FOREIGN, SCREEN
  <2>. QED  BY <2>1, <2>2
<1>6. ASSUME NEW t \in Threads, NEW h \in Handles, gralloc_lock(t, h) PROVE HandleInv'
  BY <1>6 DEF TypeOK, gralloc_lock, MarkLocked, Goto, Usable, NoLock, UsesIon, NULL,
     FOREIGN, SCREEN, HandleInv
<1>7. ASSUME NEW t \in Threads, NEW h \in Handles, FreeBuffer(t, h) PROVE HandleInv'
  BY <1>7 DEF TypeOK, FreeBuffer, Delete, NoLock, UsesIon, NULL, FOREIGN, SCREEN,
     HandleInv, Usable
<1>8. ASSUME NEW h \in Handles, DeleteClone(h) PROVE HandleInv'
  BY <1>8 DEF TypeOK, DeleteClone, Delete, NoLock, UsesIon, NULL, FOREIGN, SCREEN,
     HandleInv, Usable
<1>9. ASSUME NEW t \in Threads, NEW h \in Handles, AllocSingleBuffer(t, h) PROVE HandleInv'
  BY <1>9 DEF TypeOK, AllocSingleBuffer, gralloc_alloc_buffer, MapAt,
     init_frame_buffer_locked, NoLock, UsesIon, NULL, FOREIGN, SCREEN, HandleInv, Usable
<1>10. ASSUME NEW t \in Threads, NEW h \in Handles, AllocMask(t, h) PROVE HandleInv'
  BY <1>10 DEF TypeOK, AllocMask, StoreMask, Return, Goto, NoLock, UsesIon, NULL,
     FOREIGN, SCREEN, HandleInv, Usable
<1>11. ASSUME NEW t \in Threads, NEW h \in Handles, FreeFramebuffer(t, h) PROVE HandleInv'
  BY <1>11 DEF TypeOK, FreeFramebuffer, Goto, NoLock, UsesIon, NULL, FOREIGN, SCREEN,
     HandleInv, Usable
<1>12. ASSUME NEW t \in Threads, NEW h \in Handles, fb_post(t, h) PROVE HandleInv'
  BY <1>12 DEF TypeOK, fb_post, CanPost, Goto, NoLock, UsesIon, NULL, FOREIGN, SCREEN,
     HandleInv, Usable, CallInv, PostInv, CurrentBufferIsShown, Framebuffer
<1>13. ASSUME NEW t \in Threads, NEW h \in Handles, PostCopy(t, h) PROVE HandleInv'
  BY <1>13 DEF TypeOK, PostCopy, CanPost, MarkLocked, Goto, Usable, NoLock, UsesIon,
     NULL, FOREIGN, SCREEN, HandleInv
<1>14. ASSUME NEW t \in Threads, LockVaddr(t) PROVE HandleInv'
  BY <1>14 DEF TypeOK, LockVaddr, Return, Goto, NoLock, UsesIon, NULL, FOREIGN, SCREEN,
     HandleInv, Usable
<1>15. ASSUME NEW t \in Threads, gralloc_unlock(t) PROVE HandleInv'
  BY <1>15 DEF TypeOK, gralloc_unlock, MarkUnlocked, unmap_buffer, NoLock, UsesIon,
     NULL, FOREIGN, SCREEN, HandleInv, Usable, CallInv
<1>16. ASSUME NEW t \in Threads, framebuffer_device_open(t) PROVE HandleInv'
  BY <1>16 DEF TypeOK, framebuffer_device_open, init_frame_buffer_locked, NoLock,
     UsesIon, NULL, FOREIGN, SCREEN, HandleInv, Usable
<1>17. ASSUME NEW t \in Threads, gralloc_alloc_framebuffer(t) PROVE HandleInv'
  BY <1>17 DEF TypeOK, gralloc_alloc_framebuffer, Goto, init_frame_buffer_locked,
     NoLock, UsesIon, NULL, FOREIGN, SCREEN, HandleInv, Usable
<1>18. ASSUME NEW t \in Threads, PostLock(t) PROVE HandleInv'
  BY <1>18 DEF TypeOK, PostLock, Goto, NoLock, UsesIon, NULL, FOREIGN, SCREEN,
     HandleInv, Usable, CallInv, Framebuffer
<1>19. ASSUME NEW t \in Threads, PanDisplay(t) PROVE HandleInv'
  BY <1>19 DEF TypeOK, PanDisplay, Goto, NoLock, UsesIon, NULL, FOREIGN, SCREEN,
     HandleInv, Usable
<1>20. ASSUME NEW t \in Threads, PanDisplayFails(t) PROVE HandleInv'
  BY <1>20 DEF TypeOK, PanDisplayFails, Return, Goto, NoLock, UsesIon, NULL, FOREIGN,
     SCREEN, HandleInv, Usable, CallInv, Framebuffer
<1>21. ASSUME NEW t \in Threads, WaitForVsync(t) PROVE HandleInv'
  BY <1>21 DEF TypeOK, WaitForVsync, Return, Goto, NoLock, UsesIon, NULL, FOREIGN,
     SCREEN, HandleInv, Usable
<1>22. ASSUME NEW t \in Threads, WaitForVsyncFails(t) PROVE HandleInv'
  BY <1>22 DEF TypeOK, WaitForVsyncFails, Return, Goto, NoLock, UsesIon, NULL, FOREIGN,
     SCREEN, HandleInv, Usable
<1>23. ASSUME NEW t \in Threads, CopyToScreen(t) PROVE HandleInv'
  BY <1>23 DEF TypeOK, CopyToScreen, MarkUnlocked, unmap_buffer, Return, Goto, NoLock,
     UsesIon, NULL, FOREIGN, SCREEN, HandleInv, Usable, CallInv
<1>24. ASSUME NEW t \in Threads, FreeMask(t) PROVE HandleInv'
  BY <1>24, FreeMaskInv
<1>25. CASE UNCHANGED vars
  BY <1>25 DEF vars, TypeOK, NoLock, UsesIon, NULL, FOREIGN, SCREEN, HandleInv, Usable
<1>. QED
  BY <1>1, <1>2, <1>3, <1>4, <1>5, <1>6, <1>7, <1>8, <1>9, <1>10, <1>11, <1>12, <1>13,
     <1>14, <1>15, <1>16, <1>17, <1>18, <1>19, <1>20, <1>21, <1>22, <1>23, <1>24, <1>25
     DEF Next, Buffers, Framebuffers, Steps

\* What is mapped stays the base of a handle, or becomes a stray.
LEMMA MappingStep ==
  ASSUME IInv, [Next]_vars
  PROVE  NoMappingLost'
<1>. USE DEF IInv, handles, screen, threads, history
<1>1. ASSUME NEW t \in Threads, NEW h \in Handles, AllocBuffer(t, h) PROVE NoMappingLost'
  BY <1>1 DEF TypeOK, AllocBuffer, gralloc_alloc_buffer, MapAt, Live, UsesIon, NULL,
     FOREIGN, SCREEN, NoMappingLost, HandleInv
<1>2. ASSUME NEW h \in Handles, Import(h) PROVE NoMappingLost'
  BY <1>2 DEF TypeOK, Import, Live, UsesIon, NULL, FOREIGN, SCREEN, NoMappingLost,
     HandleInv
<1>3. ASSUME NEW t \in Threads, NEW h \in Handles, gralloc_register_buffer(t, h)
      PROVE NoMappingLost'
  BY <1>3 DEF TypeOK, gralloc_register_buffer, MapAt, Live, UsesIon, NULL, FOREIGN,
     SCREEN, NoMappingLost, HandleInv
<1>4. ASSUME NEW t \in Threads, NEW h \in Handles, RegisterFails(t, h) PROVE NoMappingLost'
  BY <1>4 DEF TypeOK, RegisterFails, Live, UsesIon, NULL, FOREIGN, SCREEN,
     NoMappingLost, HandleInv
<1>5. ASSUME NEW t \in Threads, NEW h \in Handles, gralloc_unregister_buffer(t, h)
      PROVE NoMappingLost'
  BY <1>5 DEF TypeOK, gralloc_unregister_buffer, unmap_buffer, Live, UsesIon, NULL,
     FOREIGN, SCREEN, NoMappingLost, HandleInv
<1>6. ASSUME NEW t \in Threads, NEW h \in Handles, gralloc_lock(t, h) PROVE NoMappingLost'
  BY <1>6 DEF TypeOK, gralloc_lock, MarkLocked, Goto, Usable, Live, UsesIon, NULL,
     FOREIGN, SCREEN, NoMappingLost, HandleInv
<1>7. ASSUME NEW t \in Threads, NEW h \in Handles, FreeBuffer(t, h) PROVE NoMappingLost'
  BY <1>7 DEF TypeOK, FreeBuffer, Delete, Live, UsesIon, NULL, FOREIGN, SCREEN,
     NoMappingLost, HandleInv
<1>8. ASSUME NEW h \in Handles, DeleteClone(h) PROVE NoMappingLost'
  BY <1>8 DEF TypeOK, DeleteClone, Delete, Live, UsesIon, NULL, FOREIGN, SCREEN,
     NoMappingLost, HandleInv
<1>9. ASSUME NEW t \in Threads, NEW h \in Handles, AllocSingleBuffer(t, h)
      PROVE NoMappingLost'
  BY <1>9 DEF TypeOK, AllocSingleBuffer, gralloc_alloc_buffer, MapAt,
     init_frame_buffer_locked, Live, UsesIon, NULL, FOREIGN, SCREEN, NoMappingLost,
     HandleInv
<1>10. ASSUME NEW t \in Threads, NEW h \in Handles, AllocMask(t, h) PROVE NoMappingLost'
  BY <1>10 DEF TypeOK, AllocMask, StoreMask, Return, Goto, Live, UsesIon, NULL, FOREIGN,
     SCREEN, NoMappingLost, HandleInv
<1>11. ASSUME NEW t \in Threads, NEW h \in Handles, FreeFramebuffer(t, h)
      PROVE NoMappingLost'
  BY <1>11 DEF TypeOK, FreeFramebuffer, Goto, Live, UsesIon, NULL, FOREIGN, SCREEN,
     NoMappingLost, HandleInv
<1>12. ASSUME NEW t \in Threads, NEW h \in Handles, fb_post(t, h) PROVE NoMappingLost'
  BY <1>12 DEF TypeOK, fb_post, CanPost, Goto, Live, UsesIon, NULL, FOREIGN, SCREEN,
     NoMappingLost, HandleInv
<1>13. ASSUME NEW t \in Threads, NEW h \in Handles, PostCopy(t, h) PROVE NoMappingLost'
  BY <1>13 DEF TypeOK, PostCopy, CanPost, MarkLocked, Goto, Usable, Live, UsesIon, NULL,
     FOREIGN, SCREEN, NoMappingLost, HandleInv
<1>14. ASSUME NEW t \in Threads, LockVaddr(t) PROVE NoMappingLost'
  BY <1>14 DEF TypeOK, LockVaddr, Return, Goto, Live, UsesIon, NULL, FOREIGN, SCREEN,
     NoMappingLost, HandleInv
<1>15. ASSUME NEW t \in Threads, gralloc_unlock(t) PROVE NoMappingLost'
  BY <1>15 DEF TypeOK, gralloc_unlock, MarkUnlocked, unmap_buffer, Live, UsesIon, NULL,
     FOREIGN, SCREEN, NoMappingLost, HandleInv
<1>16. ASSUME NEW t \in Threads, framebuffer_device_open(t) PROVE NoMappingLost'
  BY <1>16 DEF TypeOK, framebuffer_device_open, init_frame_buffer_locked, Live, UsesIon,
     NULL, FOREIGN, SCREEN, NoMappingLost, HandleInv
<1>17. ASSUME NEW t \in Threads, gralloc_alloc_framebuffer(t) PROVE NoMappingLost'
  BY <1>17 DEF TypeOK, gralloc_alloc_framebuffer, Goto, init_frame_buffer_locked, Live,
     UsesIon, NULL, FOREIGN, SCREEN, NoMappingLost, HandleInv
<1>18. ASSUME NEW t \in Threads, PostLock(t) PROVE NoMappingLost'
  BY <1>18 DEF TypeOK, PostLock, Goto, Live, UsesIon, NULL, FOREIGN, SCREEN,
     NoMappingLost, HandleInv
<1>19. ASSUME NEW t \in Threads, PanDisplay(t) PROVE NoMappingLost'
  BY <1>19 DEF TypeOK, PanDisplay, Goto, Live, UsesIon, NULL, FOREIGN, SCREEN,
     NoMappingLost, HandleInv
<1>20. ASSUME NEW t \in Threads, PanDisplayFails(t) PROVE NoMappingLost'
  BY <1>20 DEF TypeOK, PanDisplayFails, Return, Goto, Live, UsesIon, NULL, FOREIGN,
     SCREEN, NoMappingLost, HandleInv
<1>21. ASSUME NEW t \in Threads, WaitForVsync(t) PROVE NoMappingLost'
  BY <1>21 DEF TypeOK, WaitForVsync, Return, Goto, Live, UsesIon, NULL, FOREIGN, SCREEN,
     NoMappingLost, HandleInv
<1>22. ASSUME NEW t \in Threads, WaitForVsyncFails(t) PROVE NoMappingLost'
  BY <1>22 DEF TypeOK, WaitForVsyncFails, Return, Goto, Live, UsesIon, NULL, FOREIGN,
     SCREEN, NoMappingLost, HandleInv
<1>23. ASSUME NEW t \in Threads, CopyToScreen(t) PROVE NoMappingLost'
  BY <1>23 DEF TypeOK, CopyToScreen, MarkUnlocked, unmap_buffer, Return, Goto, Live,
     UsesIon, NULL, FOREIGN, SCREEN, NoMappingLost, HandleInv
<1>24. ASSUME NEW t \in Threads, FreeMask(t) PROVE NoMappingLost'
  BY <1>24, FreeMaskInv
<1>25. CASE UNCHANGED vars
  BY <1>25 DEF vars, TypeOK, Live, UsesIon, NULL, FOREIGN, SCREEN, NoMappingLost,
     HandleInv
<1>. QED
  BY <1>1, <1>2, <1>3, <1>4, <1>5, <1>6, <1>7, <1>8, <1>9, <1>10, <1>11, <1>12, <1>13,
     <1>14, <1>15, <1>16, <1>17, <1>18, <1>19, <1>20, <1>21, <1>22, <1>23, <1>24, <1>25
     DEF Next, Buffers, Framebuffers, Steps

\* Calls keep what they have looked at when they started.
LEMMA CallStep ==
  ASSUME IInv, [Next]_vars
  PROVE  CallInv'
<1>. USE DEF IInv, handles, screen, threads, history
<1>1. ASSUME NEW t \in Threads, NEW h \in Handles, AllocBuffer(t, h) PROVE CallInv'
  BY <1>1 DEF TypeOK, AllocBuffer, gralloc_alloc_buffer, MapAt, NULL, FOREIGN, SCREEN,
     HandleInv, NoLock, UsesIon, CallInv, Framebuffer, Usable, InUse, Holders, Posting
<1>2. ASSUME NEW h \in Handles, Import(h) PROVE CallInv'
  BY <1>2 DEF TypeOK, Import, NULL, FOREIGN, SCREEN, HandleInv, NoLock, UsesIon,
     CallInv, Framebuffer, Usable, InUse, Holders, Posting
<1>3. ASSUME NEW t \in Threads, NEW h \in Handles, gralloc_register_buffer(t, h)
      PROVE CallInv'
  BY <1>3 DEF TypeOK, gralloc_register_buffer, MapAt, NULL, FOREIGN, SCREEN, HandleInv,
     NoLock, UsesIon, CallInv, Framebuffer, Usable, InUse, Holders, Posting
<1>4. ASSUME NEW t \in Threads, NEW h \in Handles, RegisterFails(t, h) PROVE CallInv'
  BY <1>4 DEF TypeOK, RegisterFails, NULL, FOREIGN, SCREEN, HandleInv, NoLock, UsesIon,
     CallInv, Framebuffer, Usable, InUse, Holders, Posting
<1>5. ASSUME NEW t \in Threads, NEW h \in Handles, gralloc_unregister_buffer(t, h)
      PROVE CallInv'
  BY <1>5 DEF TypeOK, gralloc_unregister_buffer, unmap_buffer, NULL, FOREIGN, SCREEN,
     HandleInv, NoLock, UsesIon, CallInv, Framebuffer, Usable, InUse, Holders, Posting
<1>6. ASSUME NEW t \in Threads, NEW h \in Handles, gralloc_lock(t, h) PROVE CallInv'
  BY <1>6 DEF TypeOK, gralloc_lock, MarkLocked, Goto, Usable, NULL, FOREIGN, SCREEN,
     HandleInv, NoLock, UsesIon, CallInv, Framebuffer, InUse, Holders, Posting
<1>7. ASSUME NEW t \in Threads, NEW h \in Handles, FreeBuffer(t, h) PROVE CallInv'
  BY <1>7 DEF TypeOK, FreeBuffer, Delete, NULL, FOREIGN, SCREEN, HandleInv, NoLock,
     UsesIon, CallInv, Framebuffer, Usable, InUse, Holders, Posting
<1>8. ASSUME NEW h \in Handles, DeleteClone(h) PROVE CallInv'
  BY <1>8 DEF TypeOK, DeleteClone, Delete, NULL, FOREIGN, SCREEN, HandleInv, NoLock,
     UsesIon, CallInv, Framebuffer, Usable, InUse, Holders, Posting
<1>9. ASSUME NEW t \in Threads, NEW h \in Handles, AllocSingleBuffer(t, h) PROVE CallInv'
  BY <1>9 DEF TypeOK, AllocSingleBuffer, gralloc_alloc_buffer, MapAt,
     init_frame_buffer_locked, NULL, FOREIGN, SCREEN, HandleInv, NoLock, UsesIon,
     CallInv, Framebuffer, Usable, InUse, Holders, Posting
<1>10. ASSUME NEW t \in Threads, NEW h \in Handles, AllocMask(t, h) PROVE CallInv'
  BY <1>10 DEF TypeOK, AllocMask, StoreMask, Return, Goto, NULL, FOREIGN, SCREEN,
     HandleInv, NoLock, UsesIon, CallInv, Framebuffer, Usable, InUse, Holders, Posting
<1>11. ASSUME NEW t \in Threads, NEW h \in Handles, FreeFramebuffer(t, h) PROVE CallInv'
  BY <1>11 DEF TypeOK, FreeFramebuffer, Goto, NULL, FOREIGN, SCREEN, HandleInv, NoLock,
     UsesIon, CallInv, Framebuffer, Usable, InUse, Holders, Posting
<1>12. ASSUME NEW t \in Threads, NEW h \in Handles, fb_post(t, h) PROVE CallInv'
  BY <1>12 DEF TypeOK, fb_post, CanPost, Goto, NULL, FOREIGN, SCREEN, HandleInv, NoLock,
     UsesIon, CallInv, Framebuffer, Usable, InUse, Holders, Posting
<1>13. ASSUME NEW t \in Threads, NEW h \in Handles, PostCopy(t, h) PROVE CallInv'
  BY <1>13 DEF TypeOK, PostCopy, CanPost, MarkLocked, Goto, Usable, NULL, FOREIGN,
     SCREEN, HandleInv, NoLock, UsesIon, CallInv, Framebuffer, InUse, Holders, Posting
<1>14. ASSUME NEW t \in Threads, LockVaddr(t) PROVE CallInv'
  BY <1>14 DEF TypeOK, LockVaddr, Return, Goto, NULL, FOREIGN, SCREEN, HandleInv,
     NoLock, UsesIon, CallInv, Framebuffer, Usable, InUse, Holders, Posting
<1>15. ASSUME NEW t \in Threads, gralloc_unlock(t) PROVE CallInv'
  BY <1>15 DEF TypeOK, gralloc_unlock, MarkUnlocked, unmap_buffer, NULL, FOREIGN,
     SCREEN, HandleInv, NoLock, UsesIon, CallInv, Framebuffer, Usable, InUse, Holders,
     Posting
<1>16. ASSUME NEW t \in Threads, framebuffer_device_open(t) PROVE CallInv'
  BY <1>16 DEF TypeOK, framebuffer_device_open, init_frame_buffer_locked, NULL, FOREIGN,
     SCREEN, HandleInv, NoLock, UsesIon, CallInv, Framebuffer, Usable, InUse, Holders,
     Posting
<1>17. ASSUME NEW t \in Threads, gralloc_alloc_framebuffer(t) PROVE CallInv'
  BY <1>17 DEF TypeOK, gralloc_alloc_framebuffer, Goto, init_frame_buffer_locked, NULL,
     FOREIGN, SCREEN, HandleInv, NoLock, UsesIon, CallInv, Framebuffer, Usable, InUse,
     Holders, Posting
<1>18. ASSUME NEW t \in Threads, PostLock(t) PROVE CallInv'
  BY <1>18 DEF TypeOK, PostLock, Goto, NULL, FOREIGN, SCREEN, HandleInv, NoLock,
     UsesIon, CallInv, Framebuffer, Usable, InUse, Holders, Posting
<1>19. ASSUME NEW t \in Threads, PanDisplay(t) PROVE CallInv'
  BY <1>19 DEF TypeOK, PanDisplay, Goto, NULL, FOREIGN, SCREEN, HandleInv, NoLock,
     UsesIon, CallInv, Framebuffer, Usable, InUse, Holders, Posting
<1>20. ASSUME NEW t \in Threads, PanDisplayFails(t) PROVE CallInv'
  BY <1>20 DEF TypeOK, PanDisplayFails, Return, Goto, NULL, FOREIGN, SCREEN, HandleInv,
     NoLock, UsesIon, CallInv, Framebuffer, Usable, InUse, Holders, Posting
<1>21. ASSUME NEW t \in Threads, WaitForVsync(t) PROVE CallInv'
  BY <1>21 DEF TypeOK, WaitForVsync, Return, Goto, NULL, FOREIGN, SCREEN, HandleInv,
     NoLock, UsesIon, CallInv, Framebuffer, Usable, InUse, Holders, Posting
<1>22. ASSUME NEW t \in Threads, WaitForVsyncFails(t) PROVE CallInv'
  BY <1>22 DEF TypeOK, WaitForVsyncFails, Return, Goto, NULL, FOREIGN, SCREEN,
     HandleInv, NoLock, UsesIon, CallInv, Framebuffer, Usable, InUse, Holders, Posting
<1>23. ASSUME NEW t \in Threads, CopyToScreen(t) PROVE CallInv'
  BY <1>23 DEF TypeOK, CopyToScreen, MarkUnlocked, unmap_buffer, Return, Goto, NULL,
     FOREIGN, SCREEN, HandleInv, NoLock, UsesIon, CallInv, Framebuffer, Usable, InUse,
     Holders, Posting
<1>24. ASSUME NEW t \in Threads, FreeMask(t) PROVE CallInv'
  BY <1>24, FreeMaskInv
<1>25. CASE UNCHANGED vars
  BY <1>25 DEF vars, TypeOK, NULL, FOREIGN, SCREEN, HandleInv, NoLock, UsesIon, CallInv,
     Framebuffer, Usable, InUse, Holders, Posting
<1>. QED
  BY <1>1, <1>2, <1>3, <1>4, <1>5, <1>6, <1>7, <1>8, <1>9, <1>10, <1>11, <1>12, <1>13,
     <1>14, <1>15, <1>16, <1>17, <1>18, <1>19, <1>20, <1>21, <1>22, <1>23, <1>24, <1>25
     DEF Next, Buffers, Framebuffers, Steps

\* The lock bit of a buffer that one thread uses.
LEMMA LockStep ==
  ASSUME IInv, [Next]_vars
  PROVE  LockInv'
<1>. USE DEF IInv, handles, screen, threads, history
<1>1. ASSUME NEW t \in Threads, NEW h \in Handles, AllocBuffer(t, h) PROVE LockInv'
  BY <1>1 DEF TypeOK, AllocBuffer, gralloc_alloc_buffer, MapAt, NoLock, UsesIon, NULL,
     FOREIGN, SCREEN, LockInv, CallInv, HandleInv, Using, Usable, InUse, Holders,
     Posting
<1>2. ASSUME NEW h \in Handles, Import(h) PROVE LockInv'
  BY <1>2 DEF TypeOK, Import, NoLock, UsesIon, NULL, FOREIGN, SCREEN, LockInv, CallInv,
     HandleInv, Using, Usable, InUse, Holders, Posting
<1>3. ASSUME NEW t \in Threads, NEW h \in Handles, gralloc_register_buffer(t, h)
      PROVE LockInv'
  BY <1>3 DEF TypeOK, gralloc_register_buffer, MapAt, NoLock, UsesIon, NULL, FOREIGN,
     SCREEN, LockInv, CallInv, HandleInv, Using, Usable, InUse, Holders, Posting
<1>4. ASSUME NEW t \in Threads, NEW h \in Handles, RegisterFails(t, h) PROVE LockInv'
  BY <1>4 DEF TypeOK, RegisterFails, NoLock, UsesIon, NULL, FOREIGN, SCREEN, LockInv,
     CallInv, HandleInv, Using, Usable, InUse, Holders, Posting
<1>5. ASSUME NEW t \in Threads, NEW h \in Handles, gralloc_unregister_buffer(t, h)
      PROVE LockInv'
  <2>1. CASE "WRITE" \in lockState[h]
    BY <1>5, <2>1 DEF TypeOK, gralloc_unregister_buffer, LockInv, CallInv,
       HandleInv, Using, UsesIon, NULL, FOREIGN, SCREEN
  <2>2. CASE "WRITE" \notin lockState[h]
    <3>1. /\ UNCHANGED <<kind, own, slot, screen, threads, history>>
          /\ unmap_buffer(h, {"UNREGISTERED"})
      BY <1>5, <2>2 DEF gralloc_unregister_buffer
    <3>. QED  BY <1>5, <2>2, <3>1 DEF TypeOK, gralloc_unregister_buffer, unmap_buffer,
                 LockInv, CallInv,
       HandleInv, Using, UsesIon, NULL, FOREIGN, SCREEN
  <2>. QED  BY <2>1, <2>2
<1>6. ASSUME NEW t \in Threads, NEW h \in Handles, gralloc_lock(t, h) PROVE LockInv'
  BY <1>6 DEF TypeOK, gralloc_lock, MarkLocked, Goto, Usable, NoLock, UsesIon, NULL,
     FOREIGN, SCREEN, LockInv, CallInv, HandleInv, Using, InUse, Holders, Posting
<1>7. ASSUME NEW t \in Threads, NEW h \in Handles, FreeBuffer(t, h) PROVE LockInv'
  BY <1>7 DEF TypeOK, FreeBuffer, Delete, NoLock, UsesIon, NULL, FOREIGN, SCREEN,
     LockInv, CallInv, HandleInv, Using, Usable, InUse, Holders, Posting
<1>8. ASSUME NEW h \in Handles, DeleteClone(h) PROVE LockInv'
  BY <1>8 DEF TypeOK, DeleteClone, Delete, NoLock, UsesIon, NULL, FOREIGN, SCREEN,
     LockInv, CallInv, HandleInv, Using, Usable, InUse, Holders, Posting
<1>9. ASSUME NEW t \in Threads, NEW h \in Handles, AllocSingleBuffer(t, h) PROVE LockInv'
  BY <1>9 DEF TypeOK, AllocSingleBuffer, gralloc_alloc_buffer, MapAt,
     init_frame_buffer_locked, NoLock, UsesIon, NULL, FOREIGN, SCREEN, LockInv, CallInv,
     HandleInv, Using, Usable, InUse, Holders, Posting
<1>10. ASSUME NEW t \in Threads, NEW h \in Handles, AllocMask(t, h) PROVE LockInv'
  BY <1>10 DEF TypeOK, AllocMask, StoreMask, Return, Goto, NoLock, UsesIon, NULL,
     FOREIGN, SCREEN, LockInv, CallInv, HandleInv, Using, Usable, InUse, Holders,
     Posting
<1>11. ASSUME NEW t \in Threads, NEW h \in Handles, FreeFramebuffer(t, h) PROVE LockInv'
  BY <1>11 DEF TypeOK, FreeFramebuffer, Goto, NoLock, UsesIon, NULL, FOREIGN, SCREEN,
     LockInv, CallInv, HandleInv, Using, Usable, InUse, Holders, Posting
<1>12. ASSUME NEW t \in Threads, NEW h \in Handles, fb_post(t, h) PROVE LockInv'
  BY <1>12 DEF TypeOK, fb_post, CanPost, Goto, NoLock, UsesIon, NULL, FOREIGN, SCREEN,
     LockInv, CallInv, HandleInv, Using, Usable, InUse, Holders, Posting, PostInv,
     CurrentBufferIsShown, Framebuffer
<1>13. ASSUME NEW t \in Threads, NEW h \in Handles, PostCopy(t, h) PROVE LockInv'
  BY <1>13 DEF TypeOK, PostCopy, CanPost, MarkLocked, Goto, Usable, NoLock, UsesIon,
     NULL, FOREIGN, SCREEN, LockInv, CallInv, HandleInv, Using, InUse, Holders, Posting
<1>14. ASSUME NEW t \in Threads, LockVaddr(t) PROVE LockInv'
  BY <1>14 DEF TypeOK, LockVaddr, Return, Goto, NoLock, UsesIon, NULL, FOREIGN, SCREEN,
     LockInv, CallInv, HandleInv, Using, Usable, InUse, Holders, Posting
<1>15. ASSUME NEW t \in Threads, gralloc_unlock(t) PROVE LockInv'
  BY <1>15 DEF TypeOK, gralloc_unlock, MarkUnlocked, unmap_buffer, NoLock, UsesIon,
     NULL, FOREIGN, SCREEN, LockInv, CallInv, HandleInv, Using, Usable, InUse, Holders,
     Posting
<1>16. ASSUME NEW t \in Threads, framebuffer_device_open(t) PROVE LockInv'
  BY <1>16 DEF TypeOK, framebuffer_device_open, init_frame_buffer_locked, NoLock,
     UsesIon, NULL, FOREIGN, SCREEN, LockInv, CallInv, HandleInv, Using, Usable, InUse,
     Holders, Posting
<1>17. ASSUME NEW t \in Threads, gralloc_alloc_framebuffer(t) PROVE LockInv'
  BY <1>17 DEF TypeOK, gralloc_alloc_framebuffer, Goto, init_frame_buffer_locked,
     NoLock, UsesIon, NULL, FOREIGN, SCREEN, LockInv, CallInv, HandleInv, Using, Usable,
     InUse, Holders, Posting
<1>18. ASSUME NEW t \in Threads, PostLock(t) PROVE LockInv'
  BY <1>18 DEF TypeOK, PostLock, Goto, NoLock, UsesIon, NULL, FOREIGN, SCREEN, LockInv,
     CallInv, HandleInv, Using, Usable, InUse, Holders, Posting, Framebuffer
<1>19. ASSUME NEW t \in Threads, PanDisplay(t) PROVE LockInv'
  BY <1>19 DEF TypeOK, PanDisplay, Goto, NoLock, UsesIon, NULL, FOREIGN, SCREEN,
     LockInv, CallInv, HandleInv, Using, Usable, InUse, Holders, Posting
<1>20. ASSUME NEW t \in Threads, PanDisplayFails(t) PROVE LockInv'
  BY <1>20 DEF TypeOK, PanDisplayFails, Return, Goto, NoLock, UsesIon, NULL, FOREIGN,
     SCREEN, LockInv, CallInv, HandleInv, Using, Usable, InUse, Holders, Posting,
     Framebuffer
<1>21. ASSUME NEW t \in Threads, WaitForVsync(t) PROVE LockInv'
  BY <1>21 DEF TypeOK, WaitForVsync, Return, Goto, NoLock, UsesIon, NULL, FOREIGN,
     SCREEN, LockInv, CallInv, HandleInv, Using, Usable, InUse, Holders, Posting
<1>22. ASSUME NEW t \in Threads, WaitForVsyncFails(t) PROVE LockInv'
  BY <1>22 DEF TypeOK, WaitForVsyncFails, Return, Goto, NoLock, UsesIon, NULL, FOREIGN,
     SCREEN, LockInv, CallInv, HandleInv, Using, Usable, InUse, Holders, Posting
<1>23. ASSUME NEW t \in Threads, CopyToScreen(t) PROVE LockInv'
  BY <1>23 DEF TypeOK, CopyToScreen, MarkUnlocked, unmap_buffer, Return, Goto, NoLock,
     UsesIon, NULL, FOREIGN, SCREEN, LockInv, CallInv, HandleInv, Using, Usable, InUse,
     Holders, Posting
<1>24. ASSUME NEW t \in Threads, FreeMask(t) PROVE LockInv'
  BY <1>24, FreeMaskInv
<1>25. CASE UNCHANGED vars
  BY <1>25 DEF vars, TypeOK, NoLock, UsesIon, NULL, FOREIGN, SCREEN, LockInv, CallInv,
     HandleInv, Using, Usable, InUse, Holders, Posting
<1>. QED
  BY <1>1, <1>2, <1>3, <1>4, <1>5, <1>6, <1>7, <1>8, <1>9, <1>10, <1>11, <1>12, <1>13,
     <1>14, <1>15, <1>16, <1>17, <1>18, <1>19, <1>20, <1>21, <1>22, <1>23, <1>24, <1>25
     DEF Next, Buffers, Framebuffers, Steps

\* The mask between its load and its store.
LEMMA MaskStep ==
  ASSUME IInv, [Next]_vars
  PROVE  MaskInv'
<1>. USE DEF IInv, handles, screen, threads, history
<1>1. ASSUME NEW t \in Threads, NEW h \in Handles, AllocBuffer(t, h) PROVE MaskInv'
  BY <1>1 DEF TypeOK, AllocBuffer, gralloc_alloc_buffer, MapAt, NoLock, MaskInv,
     CallInv, Framebuffer, UsesIon, Unlocked, InUse, Holders, Slots, Posting
<1>2. ASSUME NEW h \in Handles, Import(h) PROVE MaskInv'
  BY <1>2 DEF TypeOK, Import, NoLock, MaskInv, CallInv, Framebuffer, UsesIon, Unlocked,
     InUse, Holders, Slots, Posting
<1>3. ASSUME NEW t \in Threads, NEW h \in Handles, gralloc_register_buffer(t, h)
      PROVE MaskInv'
  BY <1>3 DEF TypeOK, gralloc_register_buffer, MapAt, NoLock, MaskInv, CallInv,
     Framebuffer, UsesIon, Unlocked, InUse, Holders, Slots, Posting
<1>4. ASSUME NEW t \in Threads, NEW h \in Handles, RegisterFails(t, h) PROVE MaskInv'
  BY <1>4 DEF TypeOK, RegisterFails, NoLock, MaskInv, CallInv, Framebuffer, UsesIon,
     Unlocked, InUse, Holders, Slots, Posting
<1>5. ASSUME NEW t \in Threads, NEW h \in Handles, gralloc_unregister_buffer(t, h)
      PROVE MaskInv'
  BY <1>5 DEF TypeOK, gralloc_unregister_buffer, unmap_buffer, NoLock, MaskInv, CallInv,
     Framebuffer, UsesIon, Unlocked, InUse, Holders, Slots, Posting
<1>6. ASSUME NEW t \in Threads, NEW h \in Handles, gralloc_lock(t, h) PROVE MaskInv'
  BY <1>6 DEF TypeOK, gralloc_lock, MarkLocked, Goto, Usable, NoLock, MaskInv, CallInv,
     Framebuffer, UsesIon, Unlocked, InUse, Holders, Slots, Posting
<1>7. ASSUME NEW t \in Threads, NEW h \in Handles, FreeBuffer(t, h) PROVE MaskInv'
  BY <1>7 DEF TypeOK, FreeBuffer, Delete, NoLock, MaskInv, CallInv, Framebuffer,
     UsesIon, Unlocked, InUse, Holders, Slots, Posting
<1>8. ASSUME NEW h \in Handles, DeleteClone(h) PROVE MaskInv'
  BY <1>8 DEF TypeOK, DeleteClone, Delete, NoLock, MaskInv, CallInv, Framebuffer,
     UsesIon, Unlocked, InUse, Holders, Slots, Posting
<1>9. ASSUME NEW t \in Threads, NEW h \in Handles, AllocSingleBuffer(t, h) PROVE MaskInv'
  BY <1>9 DEF TypeOK, AllocSingleBuffer, gralloc_alloc_buffer, MapAt,
     init_frame_buffer_locked, NoLock, MaskInv, CallInv, Framebuffer, UsesIon, Unlocked,
     InUse, Holders, Slots, Posting
<1>10. ASSUME NEW t \in Threads, NEW h \in Handles, AllocMask(t, h) PROVE MaskInv'
  BY <1>10 DEF TypeOK, AllocMask, StoreMask, Return, Goto, NoLock, MaskInv, CallInv,
     Framebuffer, UsesIon, Unlocked, InUse, Holders, Slots, Posting
<1>11. ASSUME NEW t \in Threads, NEW h \in Handles, FreeFramebuffer(t, h) PROVE MaskInv'
  BY <1>11 DEF TypeOK, FreeFramebuffer, Goto, NoLock, MaskInv, CallInv, Framebuffer,
     UsesIon, Unlocked, InUse, Holders, Slots, Posting
<1>12. ASSUME NEW t \in Threads, NEW h \in Handles, fb_post(t, h) PROVE MaskInv'
  BY <1>12 DEF TypeOK, fb_post, CanPost, Goto, NoLock, MaskInv, CallInv, Framebuffer,
     UsesIon, Unlocked, InUse, Holders, Slots, Posting
<1>13. ASSUME NEW t \in Threads, NEW h \in Handles, PostCopy(t, h) PROVE MaskInv'
  BY <1>13 DEF TypeOK, PostCopy, CanPost, MarkLocked, Goto, Usable, NoLock, MaskInv,
     CallInv, Framebuffer, UsesIon, Unlocked, InUse, Holders, Slots, Posting
<1>14. ASSUME NEW t \in Threads, LockVaddr(t) PROVE MaskInv'
  BY <1>14 DEF TypeOK, LockVaddr, Return, Goto, NoLock, MaskInv, CallInv, Framebuffer,
     UsesIon, Unlocked, InUse, Holders, Slots, Posting
<1>15. ASSUME NEW t \in Threads, gralloc_unlock(t) PROVE MaskInv'
  BY <1>15 DEF TypeOK, gralloc_unlock, MarkUnlocked, unmap_buffer, NoLock, MaskInv,
     CallInv, Framebuffer, UsesIon, Unlocked, InUse, Holders, Slots, Posting
<1>16. ASSUME NEW t \in Threads, framebuffer_device_open(t) PROVE MaskInv'
  BY <1>16 DEF TypeOK, framebuffer_device_open, init_frame_buffer_locked, NoLock,
     MaskInv, CallInv, Framebuffer, UsesIon, Unlocked, InUse, Holders, Slots, Posting
<1>17. ASSUME NEW t \in Threads, gralloc_alloc_framebuffer(t) PROVE MaskInv'
  BY <1>17 DEF TypeOK, gralloc_alloc_framebuffer, Goto, init_frame_buffer_locked,
     NoLock, MaskInv, CallInv, Framebuffer, UsesIon, Unlocked, InUse, Holders, Slots,
     Posting
<1>18. ASSUME NEW t \in Threads, PostLock(t) PROVE MaskInv'
  BY <1>18 DEF TypeOK, PostLock, Goto, NoLock, MaskInv, CallInv, Framebuffer, UsesIon,
     Unlocked, InUse, Holders, Slots, Posting
<1>19. ASSUME NEW t \in Threads, PanDisplay(t) PROVE MaskInv'
  BY <1>19 DEF TypeOK, PanDisplay, Goto, NoLock, MaskInv, CallInv, Framebuffer, UsesIon,
     Unlocked, InUse, Holders, Slots, Posting
<1>20. ASSUME NEW t \in Threads, PanDisplayFails(t) PROVE MaskInv'
  BY <1>20 DEF TypeOK, PanDisplayFails, Return, Goto, NoLock, MaskInv, CallInv,
     Framebuffer, UsesIon, Unlocked, InUse, Holders, Slots, Posting
<1>21. ASSUME NEW t \in Threads, WaitForVsync(t) PROVE MaskInv'
  BY <1>21 DEF TypeOK, WaitForVsync, Return, Goto, NoLock, MaskInv, CallInv,
     Framebuffer, UsesIon, Unlocked, InUse, Holders, Slots, Posting
<1>22. ASSUME NEW t \in Threads, WaitForVsyncFails(t) PROVE MaskInv'
  BY <1>22 DEF TypeOK, WaitForVsyncFails, Return, Goto, NoLock, MaskInv, CallInv,
     Framebuffer, UsesIon, Unlocked, InUse, Holders, Slots, Posting
<1>23. ASSUME NEW t \in Threads, CopyToScreen(t) PROVE MaskInv'
  BY <1>23 DEF TypeOK, CopyToScreen, MarkUnlocked, unmap_buffer, Return, Goto, NoLock,
     MaskInv, CallInv, Framebuffer, UsesIon, Unlocked, InUse, Holders, Slots, Posting
<1>24. ASSUME NEW t \in Threads, FreeMask(t) PROVE MaskInv'
  BY <1>24, FreeMaskInv
<1>25. CASE UNCHANGED vars
  BY <1>25 DEF vars, TypeOK, NoLock, MaskInv, CallInv, Framebuffer, UsesIon, Unlocked,
     InUse, Holders, Slots, Posting
<1>. QED
  BY <1>1, <1>2, <1>3, <1>4, <1>5, <1>6, <1>7, <1>8, <1>9, <1>10, <1>11, <1>12, <1>13,
     <1>14, <1>15, <1>16, <1>17, <1>18, <1>19, <1>20, <1>21, <1>22, <1>23, <1>24, <1>25
     DEF Next, Buffers, Framebuffers, Steps

\* The post in progress and the current buffer.
LEMMA PostStep ==
  ASSUME IInv, [Next]_vars
  PROVE  PostInv'
<1>. USE DEF IInv, handles, screen, threads, history
<1>1. ASSUME NEW t \in Threads, NEW h \in Handles, AllocBuffer(t, h) PROVE PostInv'
  BY <1>1 DEF TypeOK, AllocBuffer, gralloc_alloc_buffer, MapAt, PostInv, CallInv,
     CurrentBufferIsShown, Framebuffer, UsesIon, Posting, InUse, Holders, HandleInv,
     Usable
<1>2. ASSUME NEW h \in Handles, Import(h) PROVE PostInv'
  BY <1>2 DEF TypeOK, Import, PostInv, CallInv, CurrentBufferIsShown, Framebuffer,
     UsesIon, Posting, InUse, Holders, HandleInv, Usable
<1>3. ASSUME NEW t \in Threads, NEW h \in Handles, gralloc_register_buffer(t, h)
      PROVE PostInv'
  BY <1>3 DEF TypeOK, gralloc_register_buffer, MapAt, PostInv, CallInv,
     CurrentBufferIsShown, Framebuffer, UsesIon, Posting, InUse, Holders, HandleInv,
     Usable
<1>4. ASSUME NEW t \in Threads, NEW h \in Handles, RegisterFails(t, h) PROVE PostInv'
  BY <1>4 DEF TypeOK, RegisterFails, PostInv, CallInv, CurrentBufferIsShown,
     Framebuffer, UsesIon, Posting, InUse, Holders, HandleInv, Usable
<1>5. ASSUME NEW t \in Threads, NEW h \in Handles, gralloc_unregister_buffer(t, h)
      PROVE PostInv'
  <2>1. \A g \in Handles : Framebuffer(g) => lockState'[g] = lockState[g]
    BY <1>5 DEF TypeOK, gralloc_unregister_buffer, unmap_buffer, Framebuffer, UsesIon
  <2>2. UNCHANGED <<kind, slot, screen, threads>>
    BY <1>5 DEF gralloc_unregister_buffer
  <2>. QED
    BY <2>1, <2>2, NoHandleAssumption DEF TypeOK, PostInv, CallInv, CurrentBufferIsShown,
       Framebuffer, Posting
<1>6. ASSUME NEW t \in Threads, NEW h \in Handles, gralloc_lock(t, h) PROVE PostInv'
  BY <1>6 DEF TypeOK, gralloc_lock, MarkLocked, Goto, Usable, PostInv, CallInv,
     CurrentBufferIsShown, Framebuffer, UsesIon, Posting, InUse, Holders, HandleInv
<1>7. ASSUME NEW t \in Threads, NEW h \in Handles, FreeBuffer(t, h) PROVE PostInv'
  BY <1>7 DEF TypeOK, FreeBuffer, Delete, PostInv, CallInv, CurrentBufferIsShown,
     Framebuffer, UsesIon, Posting, InUse, Holders, HandleInv, Usable
<1>8. ASSUME NEW h \in Handles, DeleteClone(h) PROVE PostInv'
  BY <1>8 DEF TypeOK, DeleteClone, Delete, PostInv, CallInv, CurrentBufferIsShown,
     Framebuffer, UsesIon, Posting, InUse, Holders, HandleInv, Usable
<1>9. ASSUME NEW t \in Threads, NEW h \in Handles, AllocSingleBuffer(t, h) PROVE PostInv'
  BY <1>9 DEF TypeOK, AllocSingleBuffer, gralloc_alloc_buffer, MapAt,
     init_frame_buffer_locked, PostInv, CallInv, CurrentBufferIsShown, Framebuffer,
     UsesIon, Posting, InUse, Holders, HandleInv, Usable
<1>10. ASSUME NEW t \in Threads, NEW h \in Handles, AllocMask(t, h) PROVE PostInv'
  BY <1>10 DEF TypeOK, AllocMask, StoreMask, Return, Goto, PostInv, CallInv,
     CurrentBufferIsShown, Framebuffer, UsesIon, Posting, InUse, Holders, HandleInv,
     Usable
<1>11. ASSUME NEW t \in Threads, NEW h \in Handles, FreeFramebuffer(t, h) PROVE PostInv'
  BY <1>11 DEF TypeOK, FreeFramebuffer, Goto, PostInv, CallInv, CurrentBufferIsShown,
     Framebuffer, UsesIon, Posting, InUse, Holders, HandleInv, Usable
<1>12. ASSUME NEW t \in Threads, NEW h \in Handles, fb_post(t, h) PROVE PostInv'
  BY <1>12 DEF TypeOK, fb_post, CanPost, Goto, PostInv, CallInv, CurrentBufferIsShown,
     Framebuffer, UsesIon, Posting, InUse, Holders, HandleInv, Usable
<1>13. ASSUME NEW t \in Threads, NEW h \in Handles, PostCopy(t, h) PROVE PostInv'
  BY <1>13 DEF TypeOK, PostCopy, CanPost, MarkLocked, Goto, Usable, PostInv, CallInv,
     CurrentBufferIsShown, Framebuffer, UsesIon, Posting, InUse, Holders, HandleInv
<1>14. ASSUME NEW t \in Threads, LockVaddr(t) PROVE PostInv'
  BY <1>14 DEF TypeOK, LockVaddr, Return, Goto, PostInv, CallInv, CurrentBufferIsShown,
     Framebuffer, UsesIon, Posting, InUse, Holders, HandleInv, Usable
<1>15. ASSUME NEW t \in Threads, gralloc_unlock(t) PROVE PostInv'
  <2>1. held[t].handle \in Handles /\ UsesIon(held[t].handle)
    BY <1>15 DEF IInv, TypeOK, CallInv, gralloc_unlock
  <2>2. \A g \in Handles : Framebuffer(g) => lockState'[g] = lockState[g]
    BY <1>15, <2>1 DEF IInv, TypeOK, gralloc_unlock, MarkUnlocked, unmap_buffer,
       Framebuffer, UsesIon
  <2>. QED
    BY <1>15, <2>2, NoHandleAssumption DEF TypeOK, PostInv, CallInv, CurrentBufferIsShown,
       gralloc_unlock, Framebuffer, Posting
<1>16. ASSUME NEW t \in Threads, framebuffer_device_open(t) PROVE PostInv'
  BY <1>16 DEF TypeOK, framebuffer_device_open, init_frame_buffer_locked, PostInv,
     CallInv, CurrentBufferIsShown, Framebuffer, UsesIon, Posting, InUse, Holders,
     HandleInv, Usable
<1>17. ASSUME NEW t \in Threads, gralloc_alloc_framebuffer(t) PROVE PostInv'
  BY <1>17 DEF TypeOK, gralloc_alloc_framebuffer, Goto, init_frame_buffer_locked,
     PostInv, CallInv, CurrentBufferIsShown, Framebuffer, UsesIon, Posting, InUse,
     Holders, HandleInv, Usable
<1>18. ASSUME NEW t \in Threads, PostLock(t) PROVE PostInv'
  BY <1>18 DEF TypeOK, PostLock, Goto, PostInv, CallInv, CurrentBufferIsShown,
     Framebuffer, UsesIon, Posting, InUse, Holders, HandleInv, Usable
<1>19. ASSUME NEW t \in Threads, PanDisplay(t) PROVE PostInv'
  BY <1>19 DEF TypeOK, PanDisplay, Goto, PostInv, CallInv, CurrentBufferIsShown,
     Framebuffer, UsesIon, Posting, InUse, Holders, HandleInv, Usable
<1>20. ASSUME NEW t \in Threads, PanDisplayFails(t) PROVE PostInv'
  BY <1>20 DEF TypeOK, PanDisplayFails, Return, Goto, PostInv, CallInv,
     CurrentBufferIsShown, Framebuffer, UsesIon, Posting, InUse, Holders, HandleInv,
     Usable
<1>21. ASSUME NEW t \in Threads, WaitForVsync(t) PROVE PostInv'
  BY <1>21 DEF TypeOK, WaitForVsync, Return, Goto, PostInv, CallInv,
     CurrentBufferIsShown, Framebuffer, UsesIon, Posting, InUse, Holders, HandleInv,
     Usable
<1>22. ASSUME NEW t \in Threads, WaitForVsyncFails(t) PROVE PostInv'
  BY <1>22 DEF TypeOK, WaitForVsyncFails, Return, Goto, PostInv, CallInv,
     CurrentBufferIsShown, Framebuffer, UsesIon, Posting, InUse, Holders, HandleInv,
     Usable
<1>23. ASSUME NEW t \in Threads, CopyToScreen(t) PROVE PostInv'
  <2>1. arg[t] \in Handles /\ UsesIon(arg[t]) /\ pc[t] = "copy"
    BY <1>23 DEF CallInv, CopyToScreen
  <2>2. \A g \in Handles : Framebuffer(g) => lockState'[g] = lockState[g]
    BY <1>23, <2>1 DEF TypeOK, CopyToScreen, MarkUnlocked, unmap_buffer, Framebuffer,
       UsesIon
  <2>3. /\ UNCHANGED <<kind, slot, currentBuffer, shown>>
        /\ pc' = [pc EXCEPT ![t] = "idle"] /\ arg' = [arg EXCEPT ![t] = NoHandle]
    BY <1>23 DEF CopyToScreen, Return, Goto
  <2>. QED
    BY <2>1, <2>2, <2>3, NoHandleAssumption DEF TypeOK, PostInv, CallInv,
       CurrentBufferIsShown, Framebuffer, Posting
<1>24. ASSUME NEW t \in Threads, FreeMask(t) PROVE PostInv'
  BY <1>24, FreeMaskInv
<1>25. CASE UNCHANGED vars
  BY <1>25 DEF vars, TypeOK, PostInv, CallInv, CurrentBufferIsShown, Framebuffer,
     UsesIon, Posting, InUse, Holders, HandleInv, Usable
<1>. QED
  BY <1>1, <1>2, <1>3, <1>4, <1>5, <1>6, <1>7, <1>8, <1>9, <1>10, <1>11, <1>12, <1>13,
     <1>14, <1>15, <1>16, <1>17, <1>18, <1>19, <1>20, <1>21, <1>22, <1>23, <1>24, <1>25
     DEF Next, Buffers, Framebuffers, Steps

\* A base of another process is replaced, or its handle is deleted.
LEMMA ForeignStep ==
  ASSUME IInv, [Next]_vars, NEW h \in Handles, base[h] = FOREIGN, kind'[h] # "none"
  PROVE  base'[h] # NULL
<1>. USE DEF handles, screen, threads, history
<1>1. ASSUME NEW t \in Threads, NEW g \in Handles, AllocBuffer(t, g)
      PROVE  base'[h] # NULL
  BY <1>1 DEF AllocBuffer, gralloc_alloc_buffer, MapAt, IInv, TypeOK, NULL, FOREIGN,
     HandleInv, CallInv, UsesIon, Usable, SCREEN
<1>2. ASSUME NEW g \in Handles, Import(g)
      PROVE  base'[h] # NULL
  BY <1>2 DEF Import, IInv, TypeOK, NULL, FOREIGN, HandleInv, CallInv, UsesIon, Usable,
     SCREEN
<1>3. ASSUME NEW t \in Threads, NEW g \in Handles, gralloc_register_buffer(t, g)
      PROVE  base'[h] # NULL
  BY <1>3 DEF gralloc_register_buffer, MapAt, IInv, TypeOK, NULL, FOREIGN, HandleInv,
     CallInv, UsesIon, Usable, SCREEN
<1>4. ASSUME NEW t \in Threads, NEW g \in Handles, RegisterFails(t, g)
      PROVE  base'[h] # NULL
  BY <1>4 DEF RegisterFails, IInv, TypeOK, NULL, FOREIGN
<1>5. ASSUME NEW t \in Threads, NEW g \in Handles, gralloc_unregister_buffer(t, g)
      PROVE  base'[h] # NULL
  BY <1>5 DEF gralloc_unregister_buffer, unmap_buffer, IInv, TypeOK, NULL, FOREIGN,
     HandleInv, CallInv, UsesIon, Usable, SCREEN
<1>6. ASSUME NEW t \in Threads, NEW g \in Handles, gralloc_lock(t, g)
      PROVE  base'[h] # NULL
  BY <1>6 DEF gralloc_lock, MarkLocked, Goto, Usable, IInv, TypeOK, NULL, FOREIGN
<1>7. ASSUME NEW t \in Threads, NEW g \in Handles, FreeBuffer(t, g)
      PROVE  base'[h] # NULL
  BY <1>7 DEF FreeBuffer, Delete, IInv, TypeOK, NULL, FOREIGN, HandleInv, CallInv,
     UsesIon, Usable, SCREEN
<1>8. ASSUME NEW g \in Handles, DeleteClone(g)
      PROVE  base'[h] # NULL
  BY <1>8 DEF DeleteClone, Delete, IInv, TypeOK, NULL, FOREIGN, HandleInv, CallInv,
     UsesIon, Usable, SCREEN
<1>9. ASSUME NEW t \in Threads, NEW g \in Handles, AllocSingleBuffer(t, g)
      PROVE  base'[h] # NULL
  BY <1>9 DEF AllocSingleBuffer, gralloc_alloc_buffer, MapAt, init_frame_buffer_locked,
     IInv, TypeOK, NULL, FOREIGN, HandleInv, CallInv, UsesIon, Usable, SCREEN
<1>10. ASSUME NEW t \in Threads, NEW g \in Handles, AllocMask(t, g)
      PROVE  base'[h] # NULL
  BY <1>10 DEF AllocMask, StoreMask, Return, Goto, IInv, TypeOK, NULL, FOREIGN,
     HandleInv, CallInv, UsesIon, Usable, SCREEN
<1>11. ASSUME NEW t \in Threads, NEW g \in Handles, FreeFramebuffer(t, g)
      PROVE  base'[h] # NULL
  BY <1>11 DEF FreeFramebuffer, Goto, IInv, TypeOK, NULL, FOREIGN
<1>12. ASSUME NEW t \in Threads, NEW g \in Handles, fb_post(t, g)
      PROVE  base'[h] # NULL
  BY <1>12 DEF fb_post, CanPost, Goto, IInv, TypeOK, NULL, FOREIGN
<1>13. ASSUME NEW t \in Threads, NEW g \in Handles, PostCopy(t, g)
      PROVE  base'[h] # NULL
  BY <1>13 DEF PostCopy, CanPost, MarkLocked, Goto, Usable, IInv, TypeOK, NULL, FOREIGN
<1>14. ASSUME NEW t \in Threads, LockVaddr(t)
      PROVE  base'[h] # NULL
  BY <1>14 DEF LockVaddr, Return, Goto, IInv, TypeOK, NULL, FOREIGN
<1>15. ASSUME NEW t \in Threads, gralloc_unlock(t)
      PROVE  base'[h] # NULL
  BY <1>15 DEF gralloc_unlock, MarkUnlocked, unmap_buffer, IInv, TypeOK, NULL, FOREIGN,
     HandleInv, CallInv, UsesIon, Usable, SCREEN
<1>16. ASSUME NEW t \in Threads, framebuffer_device_open(t)
      PROVE  base'[h] # NULL
  BY <1>16 DEF framebuffer_device_open, init_frame_buffer_locked, IInv, TypeOK, NULL,
     FOREIGN
<1>17. ASSUME NEW t \in Threads, gralloc_alloc_framebuffer(t)
      PROVE  base'[h] # NULL
  BY <1>17 DEF gralloc_alloc_framebuffer, Goto, init_frame_buffer_locked, IInv, TypeOK,
     NULL, FOREIGN
<1>18. ASSUME NEW t \in Threads, FreeMask(t)
      PROVE  base'[h] # NULL
  BY <1>18 DEF FreeMask, StoreMask, Delete, Return, Goto, IInv, TypeOK, NULL, FOREIGN,
     HandleInv, CallInv, UsesIon, Usable, SCREEN
<1>19. ASSUME NEW t \in Threads, PostLock(t)
      PROVE  base'[h] # NULL
  BY <1>19 DEF PostLock, Goto, IInv, TypeOK, NULL, FOREIGN
<1>20. ASSUME NEW t \in Threads, PanDisplay(t)
      PROVE  base'[h] # NULL
  BY <1>20 DEF PanDisplay, Goto, IInv, TypeOK, NULL, FOREIGN
<1>21. ASSUME NEW t \in Threads, PanDisplayFails(t)
      PROVE  base'[h] # NULL
  BY <1>21 DEF PanDisplayFails, Return, Goto, IInv, TypeOK, NULL, FOREIGN
<1>22. ASSUME NEW t \in Threads, WaitForVsync(t)
      PROVE  base'[h] # NULL
  BY <1>22 DEF WaitForVsync, Return, Goto, IInv, TypeOK, NULL, FOREIGN
<1>23. ASSUME NEW t \in Threads, WaitForVsyncFails(t)
      PROVE  base'[h] # NULL
  BY <1>23 DEF WaitForVsyncFails, Return, Goto, IInv, TypeOK, NULL, FOREIGN
<1>24. ASSUME NEW t \in Threads, CopyToScreen(t)
      PROVE  base'[h] # NULL
  BY <1>24 DEF CopyToScreen, MarkUnlocked, unmap_buffer, Return, Goto, IInv, TypeOK,
     NULL, FOREIGN, HandleInv, CallInv, UsesIon, Usable, SCREEN
<1>25. CASE UNCHANGED vars
  BY <1>25 DEF vars, IInv, TypeOK, NULL, FOREIGN
<1>. QED
  BY <1>1, <1>2, <1>3, <1>4, <1>5, <1>6, <1>7, <1>8, <1>9, <1>10, <1>11, <1>12, <1>13,
     <1>14, <1>15, <1>16, <1>17, <1>18, <1>19, <1>20, <1>21, <1>22, <1>23, <1>24, <1>25
     DEF Next, Buffers, Framebuffers, Steps

\* The slots stay distinct if the mask is what was loaded.
LEMMA SlotsStep ==
  ASSUME IInv, [Next]_vars, SlotsAreDistinct, ~LosesUpdate
  PROVE  SlotsAreDistinct'
<1>. USE DEF handles, screen, threads, history
<1>1. ASSUME NEW t \in Threads, NEW g \in Handles, AllocBuffer(t, g)
      PROVE  SlotsAreDistinct'
  BY <1>1 DEF AllocBuffer, gralloc_alloc_buffer, MapAt, SlotsAreDistinct, Framebuffer,
     IInv, TypeOK
<1>2. ASSUME NEW g \in Handles, Import(g)
      PROVE  SlotsAreDistinct'
  BY <1>2 DEF Import, SlotsAreDistinct, Framebuffer, IInv, TypeOK
<1>3. ASSUME NEW t \in Threads, NEW g \in Handles, gralloc_register_buffer(t, g)
      PROVE  SlotsAreDistinct'
  BY <1>3 DEF gralloc_register_buffer, MapAt, SlotsAreDistinct, Framebuffer, IInv,
     TypeOK
<1>4. ASSUME NEW t \in Threads, NEW g \in Handles, RegisterFails(t, g)
      PROVE  SlotsAreDistinct'
  BY <1>4 DEF RegisterFails, SlotsAreDistinct, Framebuffer, IInv, TypeOK
<1>5. ASSUME NEW t \in Threads, NEW g \in Handles, gralloc_unregister_buffer(t, g)
      PROVE  SlotsAreDistinct'
  BY <1>5 DEF gralloc_unregister_buffer, unmap_buffer, SlotsAreDistinct, Framebuffer,
     IInv, TypeOK
<1>6. ASSUME NEW t \in Threads, NEW g \in Handles, gralloc_lock(t, g)
      PROVE  SlotsAreDistinct'
  BY <1>6 DEF gralloc_lock, MarkLocked, Goto, Usable, SlotsAreDistinct, Framebuffer,
     IInv, TypeOK
<1>7. ASSUME NEW t \in Threads, NEW g \in Handles, FreeBuffer(t, g)
      PROVE  SlotsAreDistinct'
  BY <1>7 DEF FreeBuffer, Delete, SlotsAreDistinct, Framebuffer, IInv, TypeOK, UsesIon
<1>8. ASSUME NEW g \in Handles, DeleteClone(g)
      PROVE  SlotsAreDistinct'
  BY <1>8 DEF DeleteClone, Delete, SlotsAreDistinct, Framebuffer, IInv, TypeOK, UsesIon
<1>9. ASSUME NEW t \in Threads, NEW g \in Handles, AllocSingleBuffer(t, g)
      PROVE  SlotsAreDistinct'
  BY <1>9 DEF AllocSingleBuffer, gralloc_alloc_buffer, MapAt, init_frame_buffer_locked,
     SlotsAreDistinct, Framebuffer, IInv, TypeOK
<1>10. ASSUME NEW t \in Threads, NEW g \in Handles, AllocMask(t, g)
      PROVE  SlotsAreDistinct'
  <2>1. /\ loaded[t] = bufferMask /\ bufferMask \in SUBSET Slots /\ bufferMask # Slots
        /\ kind[g] = "none"
    BY <1>10 DEF IInv, TypeOK, MaskInv, AllocMask, Return, Goto, LosesUpdate
  <2>2. PICK i \in Slots \ bufferMask : i = FreeSlot(bufferMask)
    BY <2>1, FreeSlotIsFree
  <2>3. /\ bufferMask' = bufferMask \cup {i}
        /\ slot' = [slot EXCEPT ![g] = i]
        /\ kind' = [kind EXCEPT ![g] = "framebuffer"]
    BY <1>10, <2>1, <2>2 DEF AllocMask, StoreMask
  <2>4. \A h \in Handles : /\ Framebuffer(h)' <=> Framebuffer(h) \/ h = g
                           /\ h # g => slot'[h] = slot[h]
                           /\ h = g => slot'[h] = i /\ ~Framebuffer(h)
    BY <2>1, <2>3 DEF Framebuffer, IInv, TypeOK
  <2>5. \A h \in Handles : Framebuffer(h) => slot[h] \in bufferMask
    BY DEF SlotsAreDistinct
  <2>6. bufferMask' = {slot'[h] : h \in {f \in Handles : Framebuffer(f)'}}
    BY <2>3, <2>4 DEF SlotsAreDistinct
  <2>. QED  BY <2>2, <2>4, <2>5, <2>6 DEF SlotsAreDistinct, Framebuffer
<1>11. ASSUME NEW t \in Threads, NEW g \in Handles, FreeFramebuffer(t, g)
      PROVE  SlotsAreDistinct'
  BY <1>11 DEF FreeFramebuffer, Goto, SlotsAreDistinct, Framebuffer, IInv, TypeOK
<1>12. ASSUME NEW t \in Threads, NEW g \in Handles, fb_post(t, g)
      PROVE  SlotsAreDistinct'
  BY <1>12 DEF fb_post, CanPost, Goto, SlotsAreDistinct, Framebuffer, IInv, TypeOK
<1>13. ASSUME NEW t \in Threads, NEW g \in Handles, PostCopy(t, g)
      PROVE  SlotsAreDistinct'
  BY <1>13 DEF PostCopy, CanPost, MarkLocked, Goto, Usable, SlotsAreDistinct,
     Framebuffer, IInv, TypeOK
<1>14. ASSUME NEW t \in Threads, LockVaddr(t)
      PROVE  SlotsAreDistinct'
  BY <1>14 DEF LockVaddr, Return, Goto, SlotsAreDistinct, Framebuffer, IInv, TypeOK
<1>15. ASSUME NEW t \in Threads, gralloc_unlock(t)
      PROVE  SlotsAreDistinct'
  BY <1>15 DEF gralloc_unlock, MarkUnlocked, unmap_buffer, SlotsAreDistinct,
     Framebuffer, IInv, TypeOK
<1>16. ASSUME NEW t \in Threads, framebuffer_device_open(t)
      PROVE  SlotsAreDistinct'
  BY <1>16 DEF framebuffer_device_open, init_frame_buffer_locked, SlotsAreDistinct,
     Framebuffer, IInv, TypeOK
<1>17. ASSUME NEW t \in Threads, gralloc_alloc_framebuffer(t)
      PROVE  SlotsAreDistinct'
  BY <1>17 DEF gralloc_alloc_framebuffer, Goto, init_frame_buffer_locked,
     SlotsAreDistinct, Framebuffer, IInv, TypeOK
<1>18. ASSUME NEW t \in Threads, FreeMask(t)
      PROVE  SlotsAreDistinct'
  <2>1. PICK g \in Handles : g = arg[t] /\ Framebuffer(g)
    BY <1>18 DEF IInv, CallInv, FreeMask
  <2>2. loaded[t] = bufferMask
    BY <1>18 DEF IInv, TypeOK, FreeMask, Return, Goto, LosesUpdate
  <2>3. /\ bufferMask' = bufferMask \ {slot[g]}
        /\ slot' = [slot EXCEPT ![g] = 0]
        /\ kind' = [kind EXCEPT ![g] = "none"]
    BY <1>18, <2>1, <2>2 DEF FreeMask, StoreMask, Delete
  <2>. QED  BY <2>1, <2>3 DEF SlotsAreDistinct, Framebuffer, IInv, TypeOK
<1>19. ASSUME NEW t \in Threads, PostLock(t)
      PROVE  SlotsAreDistinct'
  BY <1>19 DEF PostLock, Goto, SlotsAreDistinct, Framebuffer, IInv, TypeOK
<1>20. ASSUME NEW t \in Threads, PanDisplay(t)
      PROVE  SlotsAreDistinct'
  BY <1>20 DEF PanDisplay, Goto, SlotsAreDistinct, Framebuffer, IInv, TypeOK
<1>21. ASSUME NEW t \in Threads, PanDisplayFails(t)
      PROVE  SlotsAreDistinct'
  BY <1>21 DEF PanDisplayFails, Return, Goto, SlotsAreDistinct, Framebuffer, IInv,
     TypeOK
<1>22. ASSUME NEW t \in Threads, WaitForVsync(t)
      PROVE  SlotsAreDistinct'
  BY <1>22 DEF WaitForVsync, Return, Goto, SlotsAreDistinct, Framebuffer, IInv, TypeOK
<1>23. ASSUME NEW t \in Threads, WaitForVsyncFails(t)
      PROVE  SlotsAreDistinct'
  BY <1>23 DEF WaitForVsyncFails, Return, Goto, SlotsAreDistinct, Framebuffer, IInv,
     TypeOK
<1>24. ASSUME NEW t \in Threads, CopyToScreen(t)
      PROVE  SlotsAreDistinct'
  BY <1>24 DEF CopyToScreen, MarkUnlocked, unmap_buffer, Return, Goto, SlotsAreDistinct,
     Framebuffer, IInv, TypeOK
<1>25. CASE UNCHANGED vars
  BY <1>25 DEF vars, SlotsAreDistinct, Framebuffer, IInv, TypeOK
<1>. QED
  BY <1>1, <1>2, <1>3, <1>4, <1>5, <1>6, <1>7, <1>8, <1>9, <1>10, <1>11, <1>12, <1>13,
     <1>14, <1>15, <1>16, <1>17, <1>18, <1>19, <1>20, <1>21, <1>22, <1>23, <1>24, <1>25
     DEF Next, Buffers, Framebuffers, Steps

-----------------------------------------------------------------------------
\* The thread that posts h has locked it.
Posts(t, h) == pc[t] \in {"post_pan", "post_vsync"} /\ arg[t] = h

\* What PostUnlocks says, with the one user that can be meant: a lock of a framebuffer
\* is not held in gralloc_lock, and a handle being freed has no lock but an abandoned one.
ScreenLockInv ==
    \A h \in Handles :
        Framebuffer(h) /\ "WRITE" \in lockState[h] =>
            currentBuffer = h \/ h \in abandoned \/ \E t \in Threads : Posts(t, h)

\* Every step leaves a locked framebuffer with the post that has locked it, on the screen,
\* or abandoned.
LEMMA ScreenLockStep ==
  ASSUME IInv, ScreenLockInv, [Next]_vars
  PROVE  ScreenLockInv'
<1>. SUFFICES ASSUME NEW h \in Handles, Framebuffer(h)', "WRITE" \in lockState'[h],
                     currentBuffer' # h, h \notin abandoned'
              PROVE  \E t \in Threads : Posts(t, h)'
  BY DEF ScreenLockInv
<1>. USE DEF handles, screen, threads, history
<1>1. ASSUME NEW t \in Threads, NEW g \in Handles, AllocBuffer(t, g)
      PROVE  \E u \in Threads : Posts(u, h)'
  BY <1>1 DEF AllocBuffer, gralloc_alloc_buffer, MapAt, IInv, TypeOK, ScreenLockInv,
     Posts, Framebuffer, HandleInv, CallInv, PostInv, UsesIon
<1>2. ASSUME NEW g \in Handles, Import(g)
      PROVE  \E u \in Threads : Posts(u, h)'
  BY <1>2 DEF Import, IInv, TypeOK, ScreenLockInv, Posts, Framebuffer, HandleInv,
     CallInv, PostInv, UsesIon
<1>3. ASSUME NEW t \in Threads, NEW g \in Handles, gralloc_register_buffer(t, g)
      PROVE  \E u \in Threads : Posts(u, h)'
  BY <1>3 DEF gralloc_register_buffer, MapAt, IInv, TypeOK, ScreenLockInv, Posts,
     Framebuffer, HandleInv, CallInv, PostInv, UsesIon
<1>4. ASSUME NEW t \in Threads, NEW g \in Handles, RegisterFails(t, g)
      PROVE  \E u \in Threads : Posts(u, h)'
  BY <1>4 DEF RegisterFails, IInv, TypeOK, ScreenLockInv, Posts, Framebuffer,
     HandleInv, CallInv, PostInv, UsesIon
<1>5. ASSUME NEW t \in Threads, NEW g \in Handles, gralloc_unregister_buffer(t, g)
      PROVE  \E u \in Threads : Posts(u, h)'
  <2>1. g # h /\ kind[h] = "framebuffer"
    BY <1>5 DEF gralloc_unregister_buffer, IInv, TypeOK, Framebuffer, UsesIon
  <2>2. lockState'[h] = lockState[h]
    BY <1>5, <2>1 DEF gralloc_unregister_buffer, unmap_buffer, IInv, TypeOK
  <2>. QED
    BY <1>5, <2>1, <2>2 DEF gralloc_unregister_buffer, ScreenLockInv, Posts, Framebuffer
<1>6. ASSUME NEW t \in Threads, NEW g \in Handles, gralloc_lock(t, g)
      PROVE  \E u \in Threads : Posts(u, h)'
  BY <1>6 DEF gralloc_lock, MarkLocked, Goto, Usable, IInv, TypeOK, ScreenLockInv,
     Posts, Framebuffer, HandleInv, CallInv, PostInv, UsesIon
<1>7. ASSUME NEW t \in Threads, NEW g \in Handles, FreeBuffer(t, g)
      PROVE  \E u \in Threads : Posts(u, h)'
  BY <1>7 DEF FreeBuffer, Delete, IInv, TypeOK, ScreenLockInv, Posts, Framebuffer,
     HandleInv, CallInv, PostInv, UsesIon
<1>8. ASSUME NEW g \in Handles, DeleteClone(g)
      PROVE  \E u \in Threads : Posts(u, h)'
  BY <1>8 DEF DeleteClone, Delete, IInv, TypeOK, ScreenLockInv, Posts, Framebuffer,
     HandleInv, CallInv, PostInv, UsesIon
<1>9. ASSUME NEW t \in Threads, NEW g \in Handles, AllocSingleBuffer(t, g)
      PROVE  \E u \in Threads : Posts(u, h)'
  BY <1>9 DEF AllocSingleBuffer, gralloc_alloc_buffer, MapAt, IInv, TypeOK,
     ScreenLockInv, Posts, Framebuffer, HandleInv, CallInv, PostInv, UsesIon
<1>10. ASSUME NEW t \in Threads, NEW g \in Handles, AllocMask(t, g)
      PROVE  \E u \in Threads : Posts(u, h)'
  BY <1>10 DEF AllocMask, Return, Goto, IInv, TypeOK, ScreenLockInv, Posts,
     Framebuffer, HandleInv, CallInv, PostInv, UsesIon
<1>11. ASSUME NEW t \in Threads, NEW g \in Handles, FreeFramebuffer(t, g)
      PROVE  \E u \in Threads : Posts(u, h)'
  BY <1>11 DEF FreeFramebuffer, Goto, IInv, TypeOK, ScreenLockInv, Posts,
     Framebuffer, HandleInv, CallInv, PostInv, UsesIon
<1>12. ASSUME NEW t \in Threads, NEW g \in Handles, fb_post(t, g)
      PROVE  \E u \in Threads : Posts(u, h)'
  BY <1>12 DEF fb_post, CanPost, Goto, IInv, TypeOK, ScreenLockInv, Posts,
     Framebuffer, HandleInv, CallInv, PostInv, UsesIon
<1>13. ASSUME NEW t \in Threads, NEW g \in Handles, PostCopy(t, g)
      PROVE  \E u \in Threads : Posts(u, h)'
  BY <1>13 DEF PostCopy, CanPost, MarkLocked, Usable, Goto, IInv, TypeOK,
     ScreenLockInv, Posts, Framebuffer, HandleInv, CallInv, PostInv, UsesIon
<1>14. ASSUME NEW t \in Threads, LockVaddr(t)
      PROVE  \E u \in Threads : Posts(u, h)'
  BY <1>14 DEF LockVaddr, Return, Goto, IInv, TypeOK, ScreenLockInv, Posts,
     Framebuffer, HandleInv, CallInv, PostInv, UsesIon
<1>15. ASSUME NEW t \in Threads, gralloc_unlock(t)
      PROVE  \E u \in Threads : Posts(u, h)'
  BY <1>15 DEF gralloc_unlock, MarkUnlocked, unmap_buffer, IInv, TypeOK,
     ScreenLockInv, Posts, Framebuffer, HandleInv, CallInv, PostInv, UsesIon
<1>16. ASSUME NEW t \in Threads, framebuffer_device_open(t)
      PROVE  \E u \in Threads : Posts(u, h)'
  BY <1>16 DEF framebuffer_device_open, IInv, TypeOK, ScreenLockInv, Posts,
     Framebuffer, HandleInv, CallInv, PostInv, UsesIon
<1>17. ASSUME NEW t \in Threads, gralloc_alloc_framebuffer(t)
      PROVE  \E u \in Threads : Posts(u, h)'
  BY <1>17 DEF gralloc_alloc_framebuffer, Goto, IInv, TypeOK, ScreenLockInv, Posts,
     Framebuffer, HandleInv, CallInv, PostInv, UsesIon
<1>18. ASSUME NEW t \in Threads, FreeMask(t)
      PROVE  \E u \in Threads : Posts(u, h)'
  BY <1>18 DEF FreeMask, Delete, Return, Goto, IInv, TypeOK, ScreenLockInv, Posts,
     Framebuffer, HandleInv, CallInv, PostInv, UsesIon
<1>19. ASSUME NEW t \in Threads, PostLock(t)
      PROVE  \E u \in Threads : Posts(u, h)'
  BY <1>19 DEF PostLock, Goto, IInv, TypeOK, ScreenLockInv, Posts, Framebuffer,
     HandleInv, CallInv, PostInv, UsesIon
<1>20. ASSUME NEW t \in Threads, PanDisplay(t)
      PROVE  \E u \in Threads : Posts(u, h)'
  BY <1>20 DEF PanDisplay, Goto, IInv, TypeOK, ScreenLockInv, Posts, Framebuffer,
     HandleInv, CallInv, PostInv, UsesIon
<1>21. ASSUME NEW t \in Threads, PanDisplayFails(t)
      PROVE  \E u \in Threads : Posts(u, h)'
  BY <1>21 DEF PanDisplayFails, Return, Goto, IInv, TypeOK, ScreenLockInv, Posts,
     Framebuffer, HandleInv, CallInv, PostInv, UsesIon
<1>22. ASSUME NEW t \in Threads, WaitForVsync(t)
      PROVE  \E u \in Threads : Posts(u, h)'
  BY <1>22 DEF WaitForVsync, Return, Goto, IInv, TypeOK, ScreenLockInv, Posts,
     Framebuffer, HandleInv, CallInv, PostInv, UsesIon
<1>23. ASSUME NEW t \in Threads, WaitForVsyncFails(t)
      PROVE  \E u \in Threads : Posts(u, h)'
  BY <1>23 DEF WaitForVsyncFails, Return, Goto, IInv, TypeOK, ScreenLockInv, Posts,
     Framebuffer, HandleInv, CallInv, PostInv, UsesIon
<1>24. ASSUME NEW t \in Threads, CopyToScreen(t)
      PROVE  \E u \in Threads : Posts(u, h)'
  BY <1>24 DEF CopyToScreen, MarkUnlocked, unmap_buffer, Return, Goto, IInv, TypeOK,
     ScreenLockInv, Posts, Framebuffer, HandleInv, CallInv, PostInv, UsesIon
<1>25. CASE UNCHANGED vars
  BY <1>25 DEF vars, ScreenLockInv, Posts, Framebuffer
<1>. QED
  BY <1>1, <1>2, <1>3, <1>4, <1>5, <1>6, <1>7, <1>8, <1>9, <1>10, <1>11, <1>12,
     <1>13, <1>14, <1>15, <1>16, <1>17, <1>18, <1>19, <1>20, <1>21, <1>22, <1>23,
     <1>24, <1>25 DEF Next, Buffers, Framebuffers, Steps

-----------------------------------------------------------------------------
\* The strengthening of the safety properties holds in every reachable state.
THEOREM InvariantHolds == Spec => []IInv
<1>1. ASSUME IInv, [Next]_vars PROVE IInv'
  BY <1>1, TypeStep, HandleStep, MappingStep, CallStep, LockStep, MaskStep, PostStep DEF IInv
<1>. QED  BY InitInv, <1>1, PTL DEF Spec

\* The variables keep their types.
THEOREM TypeCorrect == Spec => []TypeOK
<1>1. IInv => TypeOK
  BY DEF IInv
<1>. QED  BY InvariantHolds, <1>1, PTL

\* A locked buffer stays mapped at the address the caller was given (gralloc_lock,
\* gralloc_unregister_buffer, gralloc_unlock), with the exceptions LockedIsMapped names.
THEOREM LockedStaysMapped == Spec => []LockedIsMapped
<1>1. ASSUME IInv PROVE LockedIsMapped
  <2>1. SUFFICES ASSUME NEW t \in Threads, held[t] # NoLock, held[t].handle \notin confused
                 PROVE  /\ held[t].vaddr \in Addresses
                        /\ mapping[held[t].vaddr] = held[t].handle
    BY DEF LockedIsMapped
  <2>2. held[t].handle \in Handles
    BY <1>1, <2>1 DEF IInv, TypeOK, CallInv
  <2>. QED  BY <1>1, <2>1, <2>2 DEF IInv, LockInv, Using
<1>. QED  BY InvariantHolds, <1>1, PTL

\* Memory that is mapped belongs to a live handle, or was replaced by a registration.
THEOREM MappingsAreKept == Spec => []NoMappingLost
<1>1. IInv => NoMappingLost
  BY DEF IInv
<1>. QED  BY InvariantHolds, <1>1, PTL

\* A deferred unmapping is done when nobody uses the buffer any more.
THEOREM DeferredUnmapIsDone == Spec => []UnregisteredIsUnmapped
<1>1. ASSUME IInv PROVE UnregisteredIsUnmapped
  <2>1. SUFFICES ASSUME NEW h \in Live, "UNREGISTERED" \in lockState[h], Holders(h) = {},
                        base[h] # NULL
                 PROVE  FALSE
    BY DEF UnregisteredIsUnmapped
  <2>2. h \in Handles /\ UsesIon(h) /\ "WRITE" \in lockState[h]
    BY <1>1, <2>1 DEF IInv, TypeOK, HandleInv, Live, UsesIon
  <2>3. PICK t \in Threads : Using(t, h)
    BY <1>1, <2>2 DEF IInv, LockInv
  <2>4. t \in Holders(h)
    BY <2>3 DEF Using, Holders
  <2>. QED  BY <2>1, <2>4
<1>. QED  BY InvariantHolds, <1>1, PTL

\* Between two posts the buffer on the screen is the current one, alive and locked.
THEOREM CurrentStaysShown == Spec => []CurrentBufferIsShown
<1>1. IInv => CurrentBufferIsShown
  BY DEF IInv, PostInv
<1>. QED  BY InvariantHolds, <1>1, PTL

\* No call unmaps an address of another process.
THEOREM ForeignIsKept == Spec => NoForeignUnmap
<1>1. ASSUME IInv, [Next]_vars
      PROVE  [\A h \in Handles :
                  base[h] = FOREIGN /\ kind'[h] # "none" => base'[h] # NULL]_vars
  BY <1>1, ForeignStep
<1>. QED  BY InvariantHolds, <1>1, PTL DEF Spec, NoForeignUnmap

\* The slots of the live framebuffers, and the mask of them, stay right but for a free
\* that runs at once with another call (alloc_device_free updates the mask unlocked).
THEOREM SlotsAreKept == Spec => SlotsStayDistinct
<1>1. ASSUME IInv, [Next]_vars
      PROVE  [SlotsAreDistinct => SlotsAreDistinct' \/ LosesUpdate]_vars
  BY <1>1, SlotsStep
<1>. QED  BY InvariantHolds, <1>1, PTL DEF Spec, SlotsStayDistinct

\* fb_post unlocks what it has locked: a framebuffer that is locked is on the screen, is
\* being posted, or a wait for the sync has failed (WaitForVsyncFails).
THEOREM PostsAreUnlocked == Spec => []PostUnlocks
<1>1. Init => ScreenLockInv
  BY DEF Init, ScreenLockInv, Framebuffer
<1>2. IInv /\ ScreenLockInv /\ [Next]_vars => ScreenLockInv'
  BY ScreenLockStep
<1>3. ASSUME ScreenLockInv PROVE PostUnlocks
  BY <1>3 DEF ScreenLockInv, PostUnlocks, Posts, InUse, Holders
<1>. QED  BY InvariantHolds, <1>1, <1>2, <1>3, PTL DEF Spec

=============================================================================
