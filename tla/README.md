# A TLA+ model of the HiKey device code

This directory holds TLA+ models of the device-specific code for the HiKey,
HiKey960 and HiKey970 boards: the hardware abstraction layers (HALs) that
Android loads or starts on them, and the tools that put the first boot image on
a board. The models are checked with TLC on small instances; for the properties
that matter most there are proofs, checked by TLAPS, for every value of the
constants.

Contents: [the system](#the-system), [the modules](#the-modules),
[the runs](#the-runs), [bounds](#bounds-and-why-they-are-enough),
[fairness](#fairness), [the proofs](#the-proofs),
[where code and comments disagree](#where-code-and-comments-disagree),
[what is not modelled](#what-is-not-modelled), [the plan](#the-plan).

## The system

The repository is a collection of parts that share no state with each other.
Each talks to the kernel on one side and to Android (or a host computer) on the
other.

### Bluetooth HAL (`src/bluetooth`)

A process of its own, `android.hardware.bluetooth@1.0-service.hikey`. One RPC
thread (`service.cc:33`) serves the calls of `IBluetoothHci` and the death
notices of its clients in turn; a second thread, the *watcher*, runs callbacks
for file descriptors with data.

| Part | State | Operations |
|---|---|---|
| `AsyncFdWatcher` | `running_`, `watched_fds_`, `timeout_ms_`, `timeout_cb_`, `thread_`, the notification pipe | `WatchFdForNonBlockingReads`, `ConfigureTimeout`, `StopWatchingFileDescriptors`, the thread's loop around `select()` |
| `H4Protocol` (receiving), `HciPacketizer` | `hci_packet_type_`, `state_`, `preamble_`, `packet_`, `bytes_remaining_`, `bytes_read_` | `OnDataReady` once per `select()`, `OnPacketReady` |
| `H4Protocol::Send`, `HciProtocol::WriteSafely` | none but the place in the call | `Send` |
| `BluetoothHci` | `hci_tty_fd_`, `event_cb_`, `hci_`, `deathRecipient`, the two callbacks it registers | `initialize`, `sendHciCommand`/`sendAclData`/`sendScoData`, `close`, `serviceDied` |

How they interact. `initialize` opens `/dev/hci_tty` and a socket pair (the
*shim*), and registers two callbacks with the watcher: one forwards what has
arrived at the tty into the shim, the other has `H4Protocol` read the shim, and
`HciPacketizer` cut it into packets for the client's callbacks. A client may
call `sendHciCommand` from within such a callback (a nested binder call runs on
the watcher thread). `close` stops the watcher, which joins the watcher thread.

What is hard. The wake-up of a stop against the thread's way into `select()`;
descriptors that change while the thread sleeps; callbacks in flight when
`close` deletes what they use; packets split at any byte by short reads, and
lengths of no bytes; two threads that write frames; clients that die at any
point of a call; everyone waiting on a full shim.

What makes it correct. A stop is noticed and complete: nothing runs after it. A
callback finds data. Packets are delivered whole, once, in order. No object is
used after its end. The session of a dead client ends, and so does a close, unless
the watcher thread is in a call that never returns: a write to a full shim, or a
callback that a living client does not answer.

### Power HAL (`src/power`)

Loaded into the framework's process, so that its entry points run on several
threads. State: the mutex, the semaphore `signal_lock`, `deboost_time`, the
static `low_power_mode`, and what is written to sysfs. Operations:
`setInteractive`, `powerHint` (touch, low power), and the deboost thread that
takes a touch boost back when its time is over.

What is hard. Hints that extend a boost while the thread sleeps towards its old
end; wake-ups left over from earlier boosts; interrupted sleeps; the display
switched from a thread that takes no lock. What makes it correct: a boost lasts
as long as the last hint asked for and not for ever; wake-ups do not pile up.

### Graphics allocators (`src/gralloc`, `src/gralloc960`)

Libraries that every process with graphics loads. `gralloc` serves the Mali
Utgard of HiKey, `gralloc960` the Midgard and Bifrost of HiKey960 and HiKey970.
State: the fields of each `private_handle_t` (flags, `pid`, `base`,
`lockState`), the address space of the process, and the fields of
`private_module_t` for the framebuffer (`numBuffers`, `bufferMask`,
`currentBuffer`, `framebuffer`). Operations: allocate and free (of a buffer or
of a slot of the framebuffer), register and unregister, lock and unlock, post.

What is hard. A handle is shared by the threads of a process, and its memory by
several processes; an unregister defers the unmapping of a locked buffer to the
unlock; a read of `base` after the mutex was released; a mask of slots that is
updated with and without the lock; ioctls that fail halfway through a post.
What makes it correct: locked memory is mapped; memory that is mapped can be
unmapped, and is; no two framebuffers have one slot; what is on the screen is
locked and alive.

`gralloc960` has no lock state and no deferred unmapping, but more to own: each
buffer also has an attribute page with a descriptor, and every device object
opens and closes the one `ion_client` of the module. It also chooses: a request
becomes an *internal format*, perhaps compressed (AFBC), from what GPU, display
and video blocks are capable of, and the sizes and strides follow from that in
one place (`alloc_device_alloc`) and the planes a client is told of in another
(`gralloc_lock_ycbcr`). What makes it correct: every descriptor, mapping and
slot has one owner; a buffer holds its picture, and whoever touches it
understands its compression.

### Audio HAL (`src/audio`)

Loaded by the audio server: a playback stream over tinyalsa, with a mutex of
the device and one of the stream, and `standby`, `pcm`, `unavailable`,
`active_output`. Hard: the order of the two mutexes, the write that goes on
without the device's, streams closed while active, a device that fails to open.
What makes it correct: device and streams agree on what plays, no pcm is closed
under a write, the position a client reads is that of what was played, as far as
an unsigned int counts.

### User-mode initialisation of the TI chip (`src/wpan/uim`)

A daemon that polls a sysfs entry of the kernel driver and installs or
uninstalls the line discipline of the UART, after an exchange of two HCI
commands to set the speed and the address. Hard: entries that change between a
poll and a read, installs handled twice, `dev_fd` closed twice, answers that
never come. What makes it correct: the driver gets what it asked for last,
descriptors stay in order, UART and chip have one speed.

### Boot ROM downloader (`src/installer/hikey/hisi-idt.py`), loader images (`src/l-loader`)

Host tools. The first sends an image in numbered, checksummed frames that the
boot ROM acknowledges one by one, and repeats a frame that is not acknowledged
in time. The others lay out the images that the boot ROM expects. Hard: late
acknowledges, retries that run out, lengths at a multiple of the frame size.
What makes it correct: what the script calls done has arrived.

### The rest

The memory tracker and the sensor lists are stubs and tables,
`hifi/debug-hifi` copies a device file to a console, and the rest of the
repository is configuration, build scripts, policies and binaries.

`PROJECT.json` lists all components, the state of their models, and, under
`hazards`, the places where the code could go wrong in a way that a test would
hardly reach, with the properties that watch over them.

## The modules

| Module | Models | Uses |
|---|---|---|
| `AsyncFdWatcher` | `async_fd_watcher.cc` | implements `FdDispatcher` |
| `FdDispatcher` | the promise of the watcher to its client (abstract) | |
| `H4Receive` | the tty callback, `H4Protocol::OnDataReady`, `HciPacketizer` | implements `PacketChannel` |
| `PacketChannel` | a channel of packets (abstract) | |
| `H4Send` | `H4Protocol::Send`, `HciProtocol::WriteSafely` | |
| `BluetoothHci` | `bluetooth_hci.cc`, `service.cc`, the clients | composes itself with `FdDispatcher` |
| `PowerHal` | `power_hikey.c` | |
| `Gralloc` | `gralloc/`: `gralloc_module.cpp`, `alloc_device.cpp`, `framebuffer_device.cpp` | |
| `GrallocFormats` | `gralloc960/mali_gralloc_formats.cpp`: the choice of the internal format | |
| `GrallocLayout` | the sizes, strides and planes of `gralloc960/alloc_device.cpp`, `gralloc_module.cpp`, and of `gralloc/alloc_device.cpp` | extends `GrallocFormats` |
| `Gralloc960` | `gralloc960/`: `alloc_device.cpp`, `alloc_ion.cpp`, `gralloc_module.cpp`, `gralloc_module_ion.cpp`, `gralloc_buffer_priv.cpp`, `framebuffer_device.cpp` | |
| `AudioOut` | `audio_hw.c`, the output streams | |
| `Uim` | `uim.c` | |
| `IdtDownload` | `hisi-idt.py` | |
| `*Proofs` | theorems about the module of that name (`H4Proofs`: `H4Receive` and `H4Send`; `Gralloc960Proofs`: also `GrallocLayout`; `SerialProofs`: `Uim` and `IdtDownload`) | `TLAPS` |
| `MC*` | the instance of a module that TLC checks | |

`PROJECT.json` maps every definition that models code to its lines. The
definitions that are called a *mutation* or *mutant* in a comment are broken
variants of the definition that follows; they are used by nothing, and say
which bug a property would find.

### AsyncFdWatcher

One caller thread and one watcher thread; `caller` and `pc` say where each is.
A step ends where another thread could see or change something: at the
`exchange` of `running_`, at the mutexes, at the write to the pipe, at the
`join`, at `select()`. So `stopThread` is `StopWatching`, `StopNotify`,
`StopJoin`, `StopClear`, `StopClearTimeout`, and the loop of `ThreadRoutine` is
`LoopTest`, `FillFdSet`, one of the outcomes of `select()`, `CollectCallbacks`,
and `InvokeCallback`/`CallbackReturns` for each descriptor, lowest first, as
the ordered map has them.

Choices worth knowing:

- `watched_fds_` and `timeout_ms_` are read without their locks when the set for
  `select()` is filled; the read is one step, which leaves out what a torn read
  of a `std::map` may do.
- `timeout_ms_` has no initialiser: `Init` lets `timeoutSet` be either value.
- `select()` may fail at any time; it may report a timeout only if one is set.
- A callback may stop the watcher (`SelfStop`, then the thread does not join
  itself) and `pipe2()` may fail (`PipeMayFail`). Both lead to
  `std::terminate()` in some later call; the other properties are stated for
  watchers where neither happens, which is how `BluetoothHci` uses it.

`Dispatcher == INSTANCE FdDispatcher` maps a stop to the interval from the
`exchange` to the join, and `registered` to `watched_fds_`, which counts as
empty between the join and its `clear()`.

### H4Receive

The bytes of the controller are one growing sequence, `stream`; `moved` and
`pos` say how far the tty and the shim have been read. Each `select()` gives
one call of `H4Protocol::OnDataReady`, which reads the type byte or calls
`HciPacketizer::OnDataReady` to read any positive number of the bytes it wants
(a short read). `ForwardTtyBlocks` is the write of the tty callback to a shim
that cannot hold all of it: the watcher thread sleeps, and it is the thread
that would have made room. `CHECK(bytes_read > 0)` is the flag `aborted`: it is
reached by a read of zero bytes, which is what is asked for at the end of a
packet without payload.

### H4Send

Each thread inside `Send` writes the type byte and then the payload, by as many
`write()` calls as it takes. `wire` is what the tty has accepted. `EAGAIN` is
retried at once and changes nothing. `Send` takes no lock, so the bytes of two
threads may lie between each other; the properties speak of the bytes of one
frame and of one thread.

### BluetoothHci

Clients, a queue of calls and death notices, the RPC thread that serves it,
and the watcher, which is an instance of `FdDispatcher`. A *session* stands for
the descriptors and the `H4Protocol` object of one successful `initialize`;
`hci_tty_fd_` and `hci_` name sessions. A callback on the shim begins by
reading `hci_` (the lambda has captured `this`) and is then `using` that
object. `close` runs in four steps (stop, join, unlink, delete), as it would
for another thread. Death is reported to the recipient that is linked at that
time, at once if the client was dead when it was linked, and `unlinkToDeath`
takes back a notice that is still waiting.

`TtyCallbackForwards` is the blocking write of `bluetooth_hci.cc:73`. Only the
watcher thread reads the shim, so that a write to a full one sleeps for ever
(`WriteIsStuck`): the join of a close (`async_fd_watcher.cc:90`) then never ends,
the RPC thread serves nobody any more, and the session of a dead client stays.
The code does this and the model does. The callback of the shim calls the client;
the call to a dead one comes back, a living one may keep it. `CloseReturns` and
`DeadClientsSessionEnds` name these two cases, each as one that lasts for ever
(`[]`), and say that there is no other; without either exception TLC finds a
counterexample.

Nothing in the code stops a client from initializing while another one uses the
HAL, or from closing what it failed to open. The model allows both and notes it
in `orderly`; the properties that need the discipline say so.

### PowerHal

`lock` is the mutex of `struct hikey_power_module`. A call under the lock ends a
step where it looks at the clock or where the unlocked `setInteractive` may
interleave: in the loop of `hikey_cpufreq_set_interactive` the read of
`low_power_mode` and the write to sysfs are two steps. The thread is `SemWait`,
`DeboostTooEarly` (unlock and sleep until the end it has seen), `SleepEnds` or
`SleepInterrupted` (the result of `nanosleep` is not looked at), `Deboost`.
Writes to sysfs are taken to succeed. `hikey_power_init` is one step, `Init`: the
framework calls it before anything else.

### Gralloc

The threads of one process. `mapping` is the address space: which handle's
memory is at an address. A buffer that arrives from another process is a
*clone*, whose `base` is `FOREIGN` until it is registered. `lockState` is a set
of flags, as in the code. Calls are one step if they keep to one mutex;
`gralloc_lock` is two, since it reads `base` when it has released `s_map_lock`;
an update of `bufferMask` is a load and a store, since `alloc_device_free`
updates it without the mutex that `gralloc_alloc_framebuffer` holds; a post ends
a step before each ioctl.

What callers are taken to keep to: one thread posts; a handle is freed when no
thread uses it and it is not on the screen; a buffer is not unregistered while
it is being copied by a post; a clone is not locked before it was registered and
not unregistered after its registration failed; clients do not lock slots of the
framebuffer.

History variables name the ways in which the code gets out of step with itself,
and the properties name them as their exceptions, so that nothing else can hide
there:

| Variable | Holds | Code |
|---|---|---|
| `confused` | buffers locked while locked (the lock is one bit, not a count), or unmapped by an unlock (which clears `LOCK_STATE_UNREGISTERED` too) | `gralloc_module.cpp:301`, `:357` |
| `strays` | addresses that a registration of a mapped buffer has overwritten | `gralloc_module.cpp:181` |
| `abandoned` | buffers left locked by a post whose wait for the sync failed | `framebuffer_device.cpp:111` |
| `interfered` | a free has stored the mask while an allocation was updating it | `alloc_device.cpp:548` |
| `rejected` | buffers whose last registration failed | `gralloc_module.cpp:96` |

The configuration is the one that `gralloc_priv.h` and `Android.mk` give: DMA_BUF
without UMP, `STANDARD_LINUX_SCREEN`, one or two framebuffers. A framebuffer
that cannot flip pages is `numBuffers = 1`; what `memcpy()` does when `fb_vaddr`
was never set is not followed further.

### GrallocFormats and GrallocLayout

Formats are names and a modifier (basic, split blocks, wide blocks, tiled
headers, ...) is a member of a set. `GrallocFormats` translates the chain of
`mali_gralloc_select_format`: the format as requested or as a flexible one
resolved by usage, the producer and the consumers guessed from the usage flags,
and the capabilities that are left when all of them are asked. `GrallocLayout`
is the switch of `alloc_device_alloc` over its size functions, for a picture of
a width and height, and then `lock_ycbcr`. Its state is one process: the
capabilities are read once, at the first allocation, and then buffers are
allocated, locked and freed one after the other. The builds are those of the
boards' make files: `hikey960` (no versions of display and video block), a
`juno` with a multimedia subsystem (650 and 550, or a video block of version
61), and the Utgard allocator of `hikey`. Strides of a framebuffer
(`HW_FB`), which come from the display driver, are left out, and so are pictures
of which a size, with its alignments, would not fit an `int`: the code computes in
`int` and checks nothing.

The properties say what the code keeps, and name what it does not. `RowsHeld` are
the rows of the picture that the size counts: all of them, except that without a VPU
the height of a compressed 10 bit 4:2:0 picture is halved, rounded down
(`alloc_device.cpp:731`), so that the last of an odd number of rows has no room.
`BlocksNamed` are the blocks that a usage names: the display is not among them for a
buffer that is also to be encoded, nor for one that is no texture
(`mali_gralloc_formats.cpp:442`, `:455`), because the code does not ask it then; and
the flags of a decoder say that there is a decoder when neither the GPU nor the camera
writes the buffer.

### Gralloc960

What one process holds, as a table of open descriptors, where the kernel hands
out the lowest free one, and a table of addresses. A device object has no state
of its own: it opens the client, and closes the number that is in `ion_client`.
Under a history variable the properties keep what the code gives away:

| Variable | Holds | Code |
|---|---|---|
| `lost` | the client that a second device replaces, the framebuffer's descriptor after a failing init, the export of a slot that is freed | `alloc_ion.cpp:410`, `framebuffer_device.cpp`, `alloc_device.cpp:126` |
| `undercut` | a device was closed, or its opening failed, while another was alive: they share the number | `alloc_ion.cpp:410` |
| `strays` | addresses that a registration of a mapped buffer has overwritten | `gralloc_module_ion.cpp:85` |
| `lostSlots` | slots whose memory could not be exported and whose bit stays set | `alloc_device.cpp:126` |
| `interfered` | a free stored the mask during another update | `alloc_device.cpp:1234` |
| `owed` | buffers written and still to be synced, unless a reader, an unregister, a copy or a closed device came between | `gralloc_module.cpp:165` |

`framebuffer_device_open` opens an alloc device it never closes unless
`init_frame_buffer` fails, and then it closes the client of the device that was
there before. A process that registers buffers and has no device gets a client,
but not `gralloc_legacy_ion`, so that on a kernel that needs syncing its writes
are not synced. Which slot is on the screen is followed in `Gralloc` only.

### AudioOut

`LockDevice`, `LockStream`, and the body of each call are steps; a write gives
the lock of the device back at `WriteStart` and goes to the kernel under the
lock of the stream. `pcm_mmap_write` waits for room in the kernel's buffer and
may fail with or without its frames taken. One pcm can be open at a time;
opening fails otherwise and the stream is `unavailable` for good, which also
makes the device forget the stream that plays (`eclipsed`). A caller closes a
stream only in standby, when no thread is in it, and writes to it from one
thread at a time.

`written` is an `unsigned int` (`audio_hw.c:87`) and counts modulo `Modulus`, the
2^32 of the code, as line 282 does; what the properties compare it with, `gone`,
is the number of all frames that were played. `out_get_presentation_position` is
the sum of line 313 for a `size_t` of 32 and of 64 bits, since the HAL is built
for both. It puts the sum into 64 bits, but has no more than what `written` knows:
after 2^32 frames (a day at 48 kHz) the position starts again from 0. Where a
`size_t` has 64 bits the sum is negative from the wrap of `written` until the
frame of the wrap has been played, and there is no answer; where it has 32, the
sum wraps with it.

### Uim

`main` is `OpenEntry`, `RePoll`, `Poll` (which closes the attribute and opens it
again) and `Read`; `st_uart_config` is a step for each thing it asks of the UART
or the chip, with `ConfigFails` for every way out. The driver stores a value and
announces it in two steps (`Ask`, `Notify`); the chip sends its events in three
pieces, changes its speed or refuses at the last, and is reset by a new install.
The descriptors of the process are a small table, since `close` is called on
numbers: `dev_fd` is 0 until the first install has come as far as the UART, an
uninstall before that closes the standard input, and after that `main`'s own
descriptor of the attribute.

Other facts the model shows, and the exceptions of its properties name: an
install stored but not announced when it is read is done twice and the UART of
the first one stays open, which keeps the discipline for ever (`Repeated`); a
failed install is not tried again (`failed`). `read_hci_event` fails when its
fifth read succeeds.

### IdtDownload

A byte of an image is its place in it. `Write`, `ReadAck`, `ReadOther`,
`ReadRaises` and `Failed` are the loop of `sendframe`; what follows it in
`senddata`, up to the next frame, is part of the step that ends it. The line
and the boot ROM are external: the line loses what it carries and delays
answers, also past the next frame; the ROM is what the script takes it to be.
`skipped` names the frames that got no answer of their own. An exception of
`read()` ends a frame like an acknowledge, without "failed".

## The runs

| Run | Shows |
|---|---|
| `watcher` | The watcher with two descriptors, stops, restarts, errors and timeouts: after a stop nothing runs (`QuiescentWhenStopped`); a start leaves a thread (`StartedWhenRunning`); what `select()` has noticed is served (`NoticedDataIsServed`); all of it implements `FdDispatcher`, whose fairness says that every stop finishes. |
| `watcher_faults` | With callbacks that stop the watcher and pipes that cannot be made, a wake-up is not lost and callbacks find data (`SafetyInv`, the inductive invariant that contains `StopWakesThread` and `CallbackHasData`), and a stop by the caller still ends (`StopCompletes`). |
| `h4_receive` | Packets of each kind, one that needs both bytes of its length, and one without payload, split at every byte: delivered whole and in order (`FramingInv`, the inductive invariant, which says `DeliveredInOrder` and that no `CHECK` fails but on a packet without payload; `ImplementsChannel`), no read leaves its buffer (`ReadsStayInBuffers`, which nothing in the code checks), and what is sent arrives (`EveryPacketDelivered`), but for packets without payload and a shim that is full. |
| `h4_send` | Two threads, short and failing writes: the bytes of a frame are in order and a thread whose writes succeed puts whole frames on the wire (`WireIsFramed`), every `Send` returns. |
| `bluetooth` | Two clients that initialize, send, close and die in any order: a dead client's session always has a notice waiting or a close under way (`SessionHasGuardian`), and, as long as the clients are orderly, ends (`DeadClientsSessionEnds`); then, too, no callback uses a deleted object and no null pointer is followed (`NoBadAccess`), one parser reads one tty (`OneStreamPerParser`), and a close returns (`CloseReturns`). A session of a dead client and a close do not end when the watcher thread sleeps in its write to a full shim, nor does a close when a living client never answers the callback; nothing else keeps them. More arrives than a shim holds, so that the first case is in the run. |
| `power` | Hints from two threads: a boost lasts until the end the last hint asked for (`BoostNotCutShort`), always has somebody to end it (`BoostIsBacked`), and boosts end (`BoostEnds`). `BoostInv` is the inductive invariant; it also bounds the semaphore. |
| `gralloc` | Two threads and two handles: `LockedIsMapped`, `NoMappingLost`, `UnregisteredIsUnmapped` for memory; `SlotsStayDistinct`, `CurrentBufferIsShown`, `PostUnlocks` for the framebuffer. |
| `gralloc960_layout` | Every format, the usages Android makes, four builds, capability sets and dimensions at alignment steps: the buffer holds the picture and its block headers (`PictureFits`), the planes of `lock_ycbcr` lie in it and are disjoint (`PlanesInsideBuffer`), a compressed one is understood by every block that will touch it (`CompressionUnderstood`). |
| `gralloc960` | Two threads, buffers and devices and a framebuffer over five descriptors: `DescriptorsOwned`, `MemoryOwned`, `WritesAreSynced`. |
| `audio` | Two threads and two streams on one card: `OutputConsistent`; the position is that of the frame played last, modulo the range of an unsigned int, for both sizes of a `size_t` and across a wrap (`PositionIsPlayed`); and every call returns (`CallsReturn`). |
| `uim` | The daemon between a driver that changes its mind and a chip that answers late, refuses or is silent: `DescriptorsKept`, `SpeedsAgree`, and the last change is served (`DriverIsServed`). |
| `idt` | One or two images over a line that loses and delays: if no frame is left out the ROM has the image, and if some are it has a beginning of it, until the numbers come round (`ImageArrives`). |

Deadlock is checked in `watcher`, `power`, `gralloc`, `gralloc960_layout`,
`gralloc960` and `audio`. It is not in the others, which may really stop: the
process may abort, exit or terminate, the watcher thread may sleep in `write()`
for ever, a client or the driver may be done, and `h4_send` and `idt` end with
their last frame.

### Bounds, and why they are enough

| Constant | Value | Why |
|---|---|---|
| `Fds` | 2 | `BluetoothHci` watches two. Order among callbacks and one ready beside one that is not need no third. |
| `MaxUnits` | 1 | Properties tell data from no data. |
| `PipeCapacity` | 2 | One byte can wait when another comes, and the pipe can be full. |
| `Radix` | 6 | Bytes of six values, so that a length of six needs both bytes of an ACL header and payloads can look like type bytes, with short packets. |
| `MaxPackets` | 3 | A packet before and one after the one at hand. |
| `ShimCapacity` (bytes) | 12 | Holds any one packet of the run, but not two, so that the shim fills up. |
| `MaxFrames`, `MaxPayload` | 3, 2 | A thread with two frames against another one; a payload that may be empty, whole or written in two. |
| `Clients`, `MaxSessions` | 2, 2 | A session after another, and one begun during another. |
| `MaxArrivals`, `ShimCapacity` (units) | 2, 1 | A callback in flight on each descriptor; a second arrival that is written when the shim is full, and one that is written when it has been read. |
| `Callers`, `max_clusters` | 2, 1 | A thread with the lock against one without it. The loop over the clusters is the same for each. |
| `BoostTime`, `MaxTime` | 2, 3 | A hint in the middle of a boost, and a second boost after the first. |
| `Threads`, `Handles`, `Addresses` | 2, 2, 2 | One thread inside a call while another makes one; two framebuffers and two buffers; an address to spare, so that a registration of a mapped buffer finds another. |
| `Requests`, `Dimensions` | 15 usages, and 3 with 8 sets of modifiers; 1x1, 34x3, 20x17, 132x1, 160x33 | Usages that make each rule of the choice apply and not apply; dimensions below, at and past the alignments of 2, 4, 16, 32 and 128, and a height that is a row more than its blocks. |
| `Descriptors`, `MaxDevices`, `MaxMishaps` | 5, 2, 1 | Two buffers with attributes and a client; five run out when the framebuffer is there. One of what the history variables count per behaviour, so that each is seen alone. |
| `Streams`, `BUFFER_SIZE`, `Modulus`, `MaxFrames` | 2, 2, 3, 4 | One stream plays when the other starts; the buffer may be full; the count of what was written wraps while up to a buffer is still to be played, and goes on after that. `MaxFrames` bounds what a stream has counted when another write begins; writes that fail are not bounded. |
| `MaxFd`, `MaxChanges` | 3, 4 | The standard input, the attribute, and two UARTs; install, uninstall and both again. |
| `MAX_DATA_LEN`, `SeqModulus`, loops, `Lengths` | 2, 3, 3, (3), (8), (9), (2, 3) | Lengths at and off a multiple of the frame; enough frames for their numbers to come round; two attempts each. At most two answers are under way or read. |

The proofs have no such bounds: `MaxUnits`, `PipeCapacity`, `MaxPackets`,
`ShimCapacity`, `BoostTime`, `MaxTime`, `MaxFrames`, `Modulus` and the sets are any the named
assumptions allow. `gralloc` and `gralloc960` are checked up to
symmetry of threads, handles and addresses; they have no liveness property.

### Fairness

- `AsyncFdWatcher`: weak fairness of the caller inside a call and of the watcher
  thread (both are scheduled, and callbacks return); strong fairness of a
  `select()` that has something to report, so that errors do not come for ever
  in its place. The choice to make a call, a `select()` error and the arrival of
  data have none.
- `H4Receive`: weak fairness of the two callbacks: the watcher calls them while
  there is data, which `NoticedDataIsServed` says of `AsyncFdWatcher`. The
  controller has none.
- `H4Send`: weak fairness of a thread's next step: the tty does not answer
  `EAGAIN` for ever, which the retry loop of `WriteSafely` relies on as well.
- `BluetoothHci`: weak fairness of the RPC thread, of the steps of the tty's
  callback (its write only where the shim has room, since it is not enabled
  elsewhere), and of the end of the shim's callback when its client has died,
  binder's doing; none when the client lives, which may keep the call. Strong
  fairness of the end of a stop, since the watcher thread may always begin another
  callback before it looks at `running_`: it is what `FdDispatcher!Spec` states,
  and `watcher` checks that the watcher gives it when callbacks return.
- `PowerHal`: weak fairness of calls under way, of the thread and of the clock.
  `BoostEnds` supposes besides that the hints leave the lock free for good:
  under a mutex that is not fair, hints that never pause may keep the thread
  out.
- `AudioOut`: weak fairness of each thread inside a call and of the card that
  plays; strong fairness of taking the lock of the device, the only lock that
  threads queue for. None is asked of the streams' locks: that no writer
  overtakes a standby there is what `CallsReturn` is about.
- `Uim`: weak fairness of the process, and of the driver's announcement of what
  it has stored. The chip has none.
- `IdtDownload`, `Gralloc`, `Gralloc960` and `GrallocLayout` have none, and no
  liveness property: the script ends by its counters, the allocators do what
  they are called for.

## The proofs

| Theorem | Says |
|---|---|
| `AsyncFdWatcherProofs`: `TypeCorrect`, `WakeupNotLost`, `CallbacksFindData`, `SafetyHolds` | `TypeOK`, `StopWakesThread`, `CallbackHasData`, and with their invariants `SafetyInv`, for every client |
| `StopIsQuiescent`, `StartedTheThread`, `RefinesDispatcher` | `QuiescentWhenStopped`, `StartedWhenRunning`, and that every behaviour is one of `FdDispatcher!SafetySpec`, for watchers that are not stopped by callbacks and have their pipes (`Undisturbed`) |
| `H4Proofs`, of the receiving half: `FramingHolds`, `PacketsInOrder`, `BuffersHold`, `OnlyEmptyPacketsFail`, `NoCheckFails`, `RefinesChannel` | the framing invariant; packets are delivered whole, once and in order; reads stay in their buffers; no `CHECK` fails but on a packet without payload, and so none if there is none; every behaviour is one of `PacketChannel!SafetySpec` |
| `H4Proofs`, of the sending half: `FramesAreWhole` | `WireIsFramed`, for any number of threads, frames and writes |
| `PowerHalProofs`: `BoostHolds`, `BoostIsNotCutShort`, `BoostIsTakenBack`, `FewWakeups` | `BoostInv` and the three safety properties of the boost |
| `GrallocProofs`: `TypeCorrect`, `LockedStaysMapped`, `MappingsAreKept`, `DeferredUnmapIsDone`, `CurrentStaysShown`, `ForeignIsKept`, `SlotsAreKept`, `PostsAreUnlocked` | `TypeOK`, the invariants and action properties of the run `gralloc`, and that no unregister unmaps an address of another process (`NoForeignUnmap`) |
| `BluetoothHciProofs`: `InvariantHolds`, `AccessIsSafe`, `StreamsStayApart`, `SessionsAreGuarded` | the inductive invariant `IInv`, and `NoBadAccess`, `OneStreamPerParser`, `SessionHasGuardian` from it |
| `Gralloc960Proofs`: `InvariantHolds`, `DescriptorsAreOwned`, `MemoryIsOwned`, `WritesGetSynced` | the inductive invariant `IInv`, and `DescriptorsOwned`, `MemoryOwned`, `WritesAreSynced` from it |
| the layout, in `Gralloc960Proofs`: `LayoutsStand`, `PicturesDoFit`, `PlanesDoLieInside`, `CompressionIsUnderstood` | the inductive invariant `LayoutInv`, and `PictureFits`, `PlanesInsideBuffer`, `CompressionUnderstood`, for any builds, libraries, usages, widths and heights |
| `SerialProofs`, of `Uim`: `InvariantHolds`, `DescriptorsAreKept`, `SpeedsDoAgree` | the inductive invariant `IInv`, and `DescriptorsKept` and `SpeedsAgree` from it |
| `SerialProofs`, of `IdtDownload`: `DownloadStands`, `ImageDoesArrive` | the inductive invariant `DownloadInv`, and `ImageArrives` from it, for images and frames of any length and any number of attempts |
| `AudioOutProofs`: `AudioHolds`, `OutputStaysConsistent`, `PositionIsRight` | the inductive invariant `AudioInv`, and `OutputConsistent` and `PositionIsPlayed` from it |

They rest on the `ASSUME`s of the modules, which say no more than that bounds
are numbers, names are distinct and the packets of the controller are well
formed; TLC evaluates them in every run.

**The argument for the watcher.** `StopWakesThread` is not inductive: it does
not say why the byte is still there when the caller has gone on to the join.
`WakeInv` says so: a thread that is past the test of `running_`, while the flag
is clear, can only be so if the caller stands before the write, or before the
join with the byte unread. `CallbackInv` carries the readiness of a descriptor
from `select()` through `collect` and `saved` to the callback: nobody but the
watcher thread consumes data. The two do not depend on what clients do.
`LifecycleInv` adds how the places of the two threads go together; with it
every step is a step of `FdDispatcher` or changes nothing of it, and the
invariant of one join per start follows.

**The argument for the parser.** `DeliveredInOrder` needs to know what is held
halfway. `StreamInv` says where the frames lie in the stream; `ParserInv` says
that the parser holds the part of the current frame before `pos`, by cases:
between frames, in the preamble, in the payload. In the payload, what was read
and what remains make up the buffer, so that the read stays inside.

**The argument for the wire.** The properties speak of bytes that are neighbours
among those of one frame, or of one thread; a new byte is the neighbour of the
last one. So the invariant (`SendInv`) says where that one is: `FrameInv` that the
last byte on the wire of the frame a thread is in has the index before `next`, and
`SenderInv` that this is the thread's last byte too, or that the thread has not
begun to write its frame and the byte is the end of the one before. After a write
that failed the second is lost, and so is what `WireIsFramed` says of that thread's
frames as a whole; the bytes of each frame stay in order.

**The argument for the HAL's life cycle.** A client has one call in the system at
most, and the notice of its death comes after it (`QueueInv`), since binder
serves them in turn. `GuardianInv` follows whose callbacks `event_cb_` holds:
the owner of the open session is linked, and when it dies its notice is in the
queue until the RPC thread is closing the session; a notice that is taken back by
`unlinkToDeath` is one of a session that has ended. Neither needs the clients to
be orderly. `NoBadAccess` and `OneStreamPerParser` do: `OrderlyInv` says that one
client at a time is busy with the HAL (`OneUser`), that every call on its way
fits the session (`CallsFit`), and that the protocol object is then that of the
tty, registered together with it and deleted only when the stop has returned
(`ProtocolInv`).

**The argument for the boost.** Each wake-up is a token, in the semaphore or
with the thread (`Tokens`). A boost has at least one, and without a boost there
is at most one (the one the semaphore starts with, or one whose boost was ended
by it), so that there are never more than two. The thread ends a boost only
after `deboost_time`, which is what the last hint promised.

**The argument for the allocator.** `HandleInv` ties the kind of a handle to
what its other fields may hold; `CallInv` says which handle a thread may hold at
each label, so that a delete never takes it away; `LockInv` says that a granted
lock on a buffer that is not `confused` has the write bit set, that no other
thread has it too, and that the base has not moved, which is why an unregister
defers and the unlock of another buffer does no harm; `MaskInv` says that one
thread at most is in an allocation of a slot, and what its loaded mask is worth
unless a free has interfered; `PostInv` follows the buffer through a post.
`ScreenLockInv` is what `PostUnlocks` says with the threads that it can mean: a
framebuffer is locked by nobody but a post, so that a free or a lock elsewhere
never counts.

**The argument for the table of descriptors.** `Owned` says of a table, the
handles, the framebuffer and the client what `DescriptorsOwned` says of the
state, for any of them, so that an operation of several steps (a framebuffer
device, a buffer of ION with its page) is followed table by table. Closing a
number is harmless because what a handle names is open on that handle's own
memory or page. `Placed` is the same for addresses; a buffer whose page cannot be
had is unmapped again, and the table is the one before. `AllocInv` says that the
mask an allocation has read is still the mask unless a free interfered, `FreeInv`
that a slot is freed by one thread, and not on the screen. `OweInv` adds to
`WritesAreSynced` why the last writer will sync: `writeOwner` is still set, the
kernel was asked, and the client is open.

**The argument for the UART.** `LoopInv` says where descriptors lie: `main` polls
the number 1 above the standard input or, after an early uninstall, 0, and the
UART is always above it, so that closing `dev_fd` twice does not hit the
attribute except in the one case that `DescriptorsKept` names. `HeldInv` says
that a descriptor of the UART is open because the discipline was set through it
or `st_uart_config` is at work. `SpeedInv` says that an answer "speed" in the
input queue was sent by a chip that has changed its speed, unless it was reset
since. The first attempt at this proof failed, and the failure was right: with
the history variable cleared when the command was written, and no address to
set, the answer of an older install that came late passed for that of a chip
that was slow again. The variable is now cleared where the UART is set to
115200, and the comment of `SpeedsAgree` says so.

**The argument for the output streams.** `CallInv` says that a thread past the
lock of a stream has it, so that a standby finds no writer at the pcm; the lock
of the device is not needed for that, only for `CallsReturn`. `CardInv` says
that one stream at most plays. `FrameInv` says that a stream that plays has
counted what has left the kernel and what is queued, modulo `Modulus`, and that
nothing is queued when none plays, which is why a start after a standby does not
disturb the position. `CountsOn` says that an unsigned int that is incremented
stays the remainder of what it counts, and `PositionOfSum` what is left of the
difference when the wrap lies in what is queued. The assumption on `Modulus` is
that the buffer of the kernel is smaller than 2^32 frames; how many are written
has no bound.

**The argument for the layout.** `LayoutInv` says that a buffer is what one
allocation made of one request with the capabilities of now, which never change
after the first allocation, and that what a client was told of it is what
`lock_ycbcr` makes of its handle. The rest is about the operators. Each size function
has a lemma (`RgbHolds`, `Yv12Holds`, `Afbc420Holds`, ...) that its layout has room
for the picture and its headers (`Holds`); `LayoutsHold` puts them together along the
switch of `alloc_device_alloc`. They rest on a few facts about numbers: rounding up
loses nothing (`AlignsUp`), the alignments of compressed pictures are whole blocks
(`WholeBlocks`), whose headers then have room (`BlocksHold`). `LinesOfPlanes` and
`PlanesFit` compare the lines the allocator made, aligned to 16 or 128, with the ones
`lock_ycbcr` takes them to have, aligned to 16: the half of a line is never shorter
than the client is told. `BestFormat` says that whatever modifiers are chosen are in
the capabilities of the blocks that were asked, `Selected` that no other way leads to
a compressed buffer whose format the client did not choose.

These proofs found two properties too strong that TLC had passed with the dimensions
and usages it had: a compressed 10 bit picture of odd height does not fit, and there
are blocks that nobody asks. Both are now said where the property is stated, and the
instance has a dimension and usages that show them.

**The argument for the download.** Frames in flight can be of any number and age, so
`LineInv` says of each that it was written for this image at the place its number
says, or for the image before. `RomInv` holds once the head of the image was taken
(`HeadTaken`) and as long as fewer frames were left out than the numbers tell apart:
the ROM stands at a frame that was begun, all frames behind that one were left out
(`Position`), nothing on the line is ahead of it (`WireAhead`), and a frame whose
answer is on its way, or in the input of a read that waits, is one it has
(`AckedInv`). A number is read modulo 256: two frames with one number are at least
256 apart, and between the place of the ROM and the script there are no more frames
than were left out, which is why the bound is on `skipped`.

**What stays with TLC.** Liveness (`StopCompletes`, `NoticedDataIsServed`,
`EveryPacketDelivered`, `EverySendReturns`, `DeadClientsSessionEnds`,
`CloseReturns`, `BoostEnds`, `CallsReturn`, `DriverIsServed`, and the fairness half of `ImplementsDispatcher`):
the prover has no rules for fairness and `ENABLED`. Every other property of a run is
a theorem.

`BluetoothHci` assumes of its watcher what `FdDispatcher` says.
`AsyncFdWatcher` is shown to give it when callbacks do not stop the watcher
(those of `BluetoothHci` do not, except through a client that calls `close` from
within a callback, which is not modelled) and when pipes can be made.

## Where code and comments disagree

The models show these; no property of a run claims what the code does not keep.
Where a property would be touched, its comment names the exception.

| The code | The comment or check |
|---|---|
| `WatchFdForNonBlockingReads` adds a descriptor without a notification (`async_fd_watcher.cc:42`): a thread asleep in `select()` without a timeout does not wait for it | "Wait until there is data available to read on some FD" (`:133`) |
| a payload of no bytes is read with a length of 0, which returns 0 | `CHECK(bytes_read > 0)` (`hci_packetizer.cc:75`) |
| `POWER_HINT_LOW_POWER` sets the frequencies as if the display were on (`power_hikey.c:436`) | "Lower maximum frequency when screen is off." (`:356`) |
| the handle of a framebuffer that cannot flip does not pass `validate()`: the lock in `fb_post` fails, which is not looked at, and the copy goes to address 0 (`gralloc/framebuffer_device.cpp:173`) | the regular buffer "will be memcpy'ed to the main" screen (`gralloc/alloc_device.cpp:290`) |
| a YUV format with `MALI_GRALLOC_USAGE_NO_AFBC` is allocated all the same when the CPU uses the buffer, or when it is a flexible 4:2:0 format, which is NV12 by then (`mali_gralloc_formats.cpp:615`, `:625`) | clients "must never allocate YUV formats. The latter is strictly enforced" (`mali_gralloc_formats.h:261`) |
| without a VPU a compressed 10 bit 4:2:0 picture is given the blocks of its height halved, rounded down (`gralloc960/alloc_device.cpp:731`): at a height of 33 the last row has no room | the height used in the size calculation "must also be AFBC-aligned" (`:720`) |
| the size functions of the camera formats refuse dimensions and `alloc_device_alloc` does not look (`gralloc960/alloc_device.cpp:1062`): size and stride are what the stack held | |

## What is not modelled

- In the parts that are modelled: logging, error codes beyond success and
  failure, the contents of packets and buffers, names of files; torn reads of
  unlocked containers; failures of writes to sysfs; calls of `close` from within
  a callback.
- `gralloc`: the device objects and `ion_client`; `Gralloc960` has them for the
  other allocator.
- `gralloc960`: the contents of the attribute pages (inline functions that
  nothing here calls), the mode of the display and the strides that come from
  it, the libraries that report capabilities, which slot is on the screen.
- Audio: the input streams, which have no state, the `devices` field, which
  nobody reads, and functions that return constants.
- `uim`: the parsing of arguments and of the address, which is a constant.
- `hisi-idt.py`: the checksum, which stands behind the line's choice between a
  frame that arrives and one that does not; the address in the head frame;
  `sendstartframe`, which nobody calls; the command line.
- The image generators of `l-loader`: arithmetic on a file at build time, with
  no state.
- The memory tracker, the sensor lists, `debug-hifi`, `start.S`: no state, or a
  straight line from input to output.
- Board configuration, SELinux policy, build and flashing scripts, kernel
  headers, and the binaries and models of `ai`, `hikey970` and `bootloader`: not
  programs, or not in source.

## The plan

1. Bluetooth: `AsyncFdWatcher` and `FdDispatcher`, `H4Receive` and
   `PacketChannel`, `H4Send`, `BluetoothHci` over `FdDispatcher`. *Done.* It is
   the part with the most concurrency.
2. `PowerHal`. *Done.*
3. `Gralloc`. *Done* for handles, the framebuffer and, in `GrallocLayout`, the
   sizes.
4. `Gralloc960`, `GrallocFormats`, `GrallocLayout`. *Done.*
5. `AudioOut`, with its safety properties proved. *Done.*
6. `Uim`. *Done.*
7. `IdtDownload`. *Done.*
8. Proofs of the safety properties of the watcher, both halves of H4, the HAL's
   life cycle, `PowerHal`, both allocators, `AudioOut` and `Uim`. *Done*, each
   with its invariant checked by TLC first.
9. Proofs of `ImageArrives` and of the layouts. *Done.*

Parameters stay constants with named assumptions, an operation stays one action
per place where another thread may step in, and modules with proofs use
recursive functions in place of recursive operators.
