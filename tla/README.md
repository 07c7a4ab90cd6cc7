# A TLA+ model of the PS5 Mario Kart Wii port

`mkwii-ps5` runs a statically recompiled Wii game on the PS5. WiiCompiled (patched by
`patches/Wiicompiled.patch` and `ps5/patches`) turns PowerPC code into C++; this repository adds
the platform: a GX back end on the PS5's GPU (`ps5/gpu`), the runtime services (`ps5/runtime`),
input (`ps5/input`), audio (`ps5/sdl`) and a lean replacement of Aurora's GX front end
(`dependency-additions`).

This directory models the part of it that is hard to get right and hard to test: the CPU, the
GPU, the display and the guest all act on the same memory, and what is correct depends on the
order in which they do. Every module is a translation of the C++ in `src/`; `PROJECT.json` ("map")
names the lines of each definition.

Contents: [the system](#the-system), [the plan](#the-plan), [the modules](#the-modules),
[the runs](#the-runs), [fairness](#fairness), [the proofs](#the-proofs),
[what is not modelled](#what-is-not-modelled).

## The system

### How the parts interact

```
 guest code --GX calls--> front end --bytes--> FIFO --drain--> register decoder
     |                                                              | draws
     | loads, stores                                                v
     v                                        GxFrameRenderer: GxRenderer --> AgcGxDraw --\
 Memory: deferred reads <--publish-- GxCopyStore <-- texture copies                        \
     |                                    |          display copies ----> AgcBlit ---------> GPU queue
     |  materialize: wait for blits,      v          VideoPresenter -----/    |
     \--encode the GPU image        copy texture cache      |                 | fences, labels
                                                            v flips           v
                                                         VideoOut       gpu_wait_slice
                                                                              |
                                               guest's timing callback <------/
```

One thread issues all GX work; `renderer_gpu_mutex()` guards the receivers. Concurrency comes
from the GPU, which executes submissions in order and asynchronously and may hang; from
VideoOut, which latches and scans out flips by itself; and from the guest's timing callback,
which `gpu_wait_slice` runs *inside* every wait and which may load and store guest memory or
throw, but may not reenter Aurora.

### Inventory

For each component: its state, its operations, what makes it hard, what makes it correct, and
the module that models it (or that is planned to).

**GX draw queue** (`gpu/agc_gx_draw.cpp`) - `AgcGxDraw`
- State: a ring of 4 batches (command buffer, upload arena, owners, last serial, submitted flag),
  the open batch, serials, one end-of-pipe label, a failed flag.
- Operations: `draw`, `submit`, `finish`, the non-blocking `retire`, bounded waits, destruction.
- Hard: the GPU reads a batch long after `draw` has returned; slots come round; the driver may
  reject a submission it has taken; a batch whose commands overflow is dropped with the serials
  it has handed out; a wait may time out on a GPU that is merely late, or be interrupted.
- Correct: no storage or owner is touched before the fence; `finish` really joins; after a
  failure everything is kept; all calls return.

**Blitter** (`gpu/agc_blit.cpp`) - `AgcBlit`
- State: 16 arenas with a label each, the serial, the shared 1x1 fill constant.
- Operations: copies, clears, depth fills, `finish`, destruction; `claim`, `retire` and `wait` inside.
- Hard: arenas are reused when the caller outruns the GPU; the fill constant is rewritten by the
  CPU while earlier clears may still sample it; a destructor that must free or retain.
- Correct: as above, and no fill constant changes under an unfinished clear.

**Presentation** (`gpu/video_presenter.cpp`) - `VideoPresenter`
- State: two scan-out buffers, current slot, outstanding flip, previous viewport per slot.
- Operations: `submit`, `present`, `retire_pending`, `current_target`, `close`.
- Hard: a flip is asynchronous, its status is read in pieces, and the next frame is copied while
  the last flip may be on its way; letterbox borders depend on what a buffer held two frames ago.
- Correct: the GPU never writes what VideoOut shows or is about to show; frames appear whole, once
  and in order; borders are black.

**EFB copies in Wii RAM** (`gpu/gx_copy_store.cpp`, `gx_copy_deferred.cpp`, the copy texture cache
and the deferred reads of `patches/Wiicompiled.patch`) - `GxCopyStore`
- State: the registry of deferred reads, the store's tracked ranges, the sampled views, RAM itself.
- Operations: `publish`, `prepare_write`, guest loads and stores, `ResolveDeferredReads`,
  `CancelDeferredRead`, eviction.
- Hard: a copy stays on the GPU until a guest access needs its bytes; copies overlap in part;
  a materialization waits, so guest code runs inside it; each step can throw.
- Correct: guest code cannot tell a deferred copy from one written at once, no view is stale.

**Page marks of deferred reads** (`patches/Wiicompiled.patch:3676-3807`, `4491-4750`) - `DeferredPages`
- State: the registered ranges, which of them are being materialized, a count per 4 KiB block, a flag and
  a bias per 1 MiB page.
- Operations: `RegisterDeferredRead`, `RegisterDeferredRamRead`, `CancelDeferredRead`,
  `ClearDeferredReads`, `ResolveDeferredReads`; the fast paths of loads, stores and resolved ranges.
- Hard: an access that begins before a range reaches into it from another block or page; ranges share
  blocks and pages and go one by one, also from inside each other's callbacks.
- Correct: no fast path goes past the registry where a byte is pending, and none stays closed for nothing.

**Frames and EFB copies** (`gpu/gx_frame_renderer.cpp`, `gx_texture_copy.cpp`,
`gx_display_copy.cpp`, `gx_renderer.cpp`) - `GxFrame`
- State: the FIFO, the open batch, the renderer of the current extent, pools of copy targets, the
  frame's display copy, in-frame/failed/closed flags.
- Operations: `begin`, `end`, `close`, `GXCopyTex`, `GXCopyDisp`, readback, draining.
- Hard: texture copies only *submit* the draws before them while display copies *join* them;
  targets are pooled under asynchronous work; a change of extent replaces the renderer; anything may
  fail in between.
- Correct: what is sampled, read back and shown is what immediate execution would give; nothing is
  released under GPU work.

**Fast clock** (`runtime/fast_clock.h`, `fast_clock_ps5.cpp`) - `FastClock`
- State: a sequence lock over an anchor {counter, nanoseconds}, a flag for the thread that replaces
  it, the last value returned.
- Operations: `now_nanos`, on any thread; `resync` inside it.
- Hard: readers never block, so a reader may be preempted between any two loads and re-anchor with an
  old counter value; the two time sources drift apart; reading the kernel's clock may fail.
- Correct: no torn anchor; time never goes back, within a thread or across threads; whatever lead the
  clock has over the kernel's is bounded and not passed on from anchor to anchor.

**Register decoder** (`gx/register_decoder.cpp`, `register_state.hpp`) - `GxRegisterMap`, `GxRegisters`
- State: the decoded fields of `GXRegisterState`, three register banks, each with a cache of the last
  word, a mask for the next BP write, the generation of the shader configuration.
- Operations: a BP, CP or XF load, an Aurora packet.
- Hard: the caches drop a write of the word a register already holds, although other registers, other
  banks and Aurora packets write fields computed from it.
- Correct: a dropped write loses nothing (XF), or nothing but a field another writer owns (BP, CP);
  a change of the configuration advances the generation, whichever register made it.

**Command streams and merged draws** (`gx/register_dispatch.cpp`, `gpu/gx_draw.cpp`,
`gx_geometry.cpp`) - `GxFifo`, `GxGeometry`
- State: the place in the stream, the group of draws being merged, its range of vertex-array indices.
- Operations: one packet of a stream (draws, register and memory writes, ignored and malformed ones);
  a raw draw from outside the stream.
- Hard: a group may only grow over packets that change nothing; streams end inside a packet;
  a draw throws halfway; the array is copied from the least to the greatest index.
- Correct: merging is invisible, every fetch lies inside the copy.

**Draw packets and their shading** (`gx_draw_packet.cpp`, `gx_direct_material.cpp`,
`gx_tev_program.cpp`, `shaders/tev_direct_probe.c`, `tev_stage.h`) - `GxMaterial`, `TevStage`
- State: a packet, the snapshot of one draw's registers; the shader's stage, registers, coordinates.
- Hard: what the shader loads is provided by three places that decide for themselves what is needed;
  the combiner is an integer unit, evaluated in floats with channels packed into one number.
- Correct: every load was provided for; the combiner computes what the integer unit does.

**Copies, viewport and video** (`gx_copy_commands.cpp`, both copy plans, `gx_viewport.cpp`,
`gx_video_state.cpp` and their back ends) - `GxCopyPlan`, `GxEfb`
- State: the copy parameters, assigned at once *and* queued as words; viewport, scissor, offset;
  the extent of logical EFB and render target.
- Hard: the two ways a parameter travels overtake each other, with the decoder's cache in between;
  rectangles are rounded and clipped after scaling; the mapped viewport has five inputs.
- Correct: a copy uses what the latest calls say, clears what it copied, leaves no seam; draws are
  clipped by the present state; an XFB is large enough for its lines.

**Textures** (`gx_texture_cache.cpp`, `gx_memory_sources.cpp`, `gpu_texture.cpp`,
`texture_layout.cpp`) - `GxTextures`, `TextureLayout`
- State: entries keyed by a digest, a memo of digests per address, a byte budget, an LRU clock; the
  registered host vectors.
- Hard: a digest stands for bytes that change under it; eviction, budget and clock wrap-around meet.
- Correct: what is shown is what is in memory, but for writes the guest has not told of.

**Guest memory** (`guest_memory_ps5.cpp`, `guest_flat_memory_ps5.cpp`) - `GuestMemory`, `GuestFlat`
- State: the arena, backings of direct memory, aliases; the layout of regions over them.
- Operations: reserve, map, unmap, close; `Initialize` and `~State`, built from them.
- Hard: every kernel call may fail, also the ones that undo another; others allocate addresses too.
- Correct: no handle and no address dangles; a failed start leaves nothing; RAM and mirrors agree.

**Input** (`native_pad.cpp`, `virtual_pad.cpp`, `aurora_input.cpp`, `pad_autopilot.cpp`) -
`NativePads`, `AuroraInput`, `PadAutopilot`
- State: four pad slots with their handles and motors; virtual SDL pads; Aurora's controllers; a
  diagnostic script with a cursor.
- Hard: users sign in and out; a driver handle outlives its user; SDL calls the rumble back for a pad
  whose slot has passed to another user; the pilot's presses overlap.
- Correct: no motor runs unowned, a game reads this poll's samples, rumble reaches only its user.

**Runtime services** - `AsyncLog` (`async_log.cpp`), `HostContexts` (`host_context_ps5.cpp`,
`context_x86_64.S`), `AudioOut` (`sdl/audio_ps5.c`)
- The log: a bounded queue and a writer that swaps it out. No line is lost uncounted, none is slept on.
- Contexts: the fibers of the guest's scheduler on one owner thread. No stack is shared, resumed after
  its end, or freed while in use.
- Audio: two buffers the device reads in place. Neither is rewritten or freed under the device.

**Other components**

| Component | State and operations | Why it is not modelled |
|---|---|---|
| GPU waits (`gpu_wait_service.cpp`) | callback, thread-local `servicing`; slices, deadline waits | its outcomes are steps of the modules above |
| GX front end (`frontend.cpp`) | none: encodes calls | stateless; calls that keep state are in `GxEfb` |
| Lighting, fog, matrices, blending, samplers | none: converts one draw | floating point, or copies of fields |
| Target layouts, descriptors, shader binaries | none | formats of the hardware |
| C++ platform, DNS, files, locale, random | thin adapters, `pthread_once` | system calls |
| Bootstrap, timing, lifecycle, present history | start-up order, ring of 512 samples | order of calls, statistics |
| Profilers, thread placement | measurement | does not change what the game computes |
| Build scripts, tools, diagnostics, tests | - | not part of the program |

The hazards of this code, with the line where each bites and the property that would catch it, are
listed in `PROJECT.json`.

## The plan

The order follows what the game's picture depends on most.

1. `AgcGxDraw` with its abstract specification `DrawStream`. *Done, checked and proved, the refinement
   included.*
2. `AgcBlit`. *Done, checked and proved.*
3. `VideoPresenter` with `FrameScreen`. *Done, checked and proved, the refinement included.*
4. `GxCopyStore` with `GuestRam`. *Done, checked and proved, the refinement included.*
5. `GxFrame`, the composition of 1 to 4 over one GPU queue, with `GxImmediate`. *Done, checked and
   proved, the refinement included.*
6. `FastClock`: any number of readers, one action per atomic access. *Done, checked and proved.*
7. The way from a command to a draw: `GxRegisters`, `GxFifo` with `GxGeometry`, `GxMaterial` with
   `TevStage`. *Done, checked; `GroupContinues` proved.*
8. The way from a call to a copy: `GxEfb` over `GxCopyPlan`. *Done, checked.*
9. `GxTextures` with `TextureLayout`. *Done, checked and proved, but for `TexelsApart`.*
10. The runtime: `GuestFlat` over `GuestMemory`, `AuroraInput` over `NativePads` and `PadAutopilot`,
    `AsyncLog`, `HostContexts`, `AudioOut`. *Done, checked; all but `AuroraInput` proved.*
11. `DeferredPages`: the page and block marks of deferred reads, and the fast paths that ask them.
    *Done, checked and proved.*
12. `AuroraRuntime`: initialization and shutdown that fail halfway, and what is kept then.

What the provers cannot reach of the rest is said under "Model-checked only".

## The modules

Each module names its state after the code's members. Where a helper could plausibly be written
wrong, the wrong form stands before it under a comment that starts with "Slip"; nothing uses it in
the specification, and `PROJECT.json` ("mutants") records that putting it in the place of the right
one breaks the named property.

### AgcGxDraw and DrawStream

`batches`, `open`, `cursor`, `serial`, `submittedSerial`, `failed` and `label` are the members of
`AgcGxDraw::Impl`. `gpu` is the GPU's queue: each entry carries the slot it reads, the fence it will
write and the draws as they were at submission, so that a later change of the slot shows. A call is a
sequence of steps (`call.at`), with the GPU free to move between any two: `draw` may first submit a
full batch, then begin another (retiring, taking the ring slot, waiting for it), then record.
Failures: a submission is rejected although the driver may have queued it; a command buffer
overflows and the batch is dropped, its serials reported lost; a wait times out; the timing callback
throws out of a wait. `wait_until` is modelled with its outcomes (label reached, timed out,
interrupted), not with its 13,192 iterations.

`DrawStream` is what callers rely on: consecutive serials, in-order execution, everything a draw
reads pinned until it has run or been reported lost, nothing accepted or unpinned after a failure.
The mapping takes the label as progress and the union of the batches' (draw, owner) pairs as pins.

### AgcBlit

Per arena its memory, label, serial, owners and the serial of the commands written in it. `claim` is
modelled with its order: retire, then a free arena, then a new allocation, then a wait for the
oldest. The 1x1 constant is an identity from `Constant` with a colour in `colours`; it may be
rewritten or replaced only as its use count allows, which is computed from the arenas that hold it.
`finish` loops over the oldest submission, and the destructor frees or retains.

### VideoPresenter and FrameScreen

`video` is VideoOut: what it scans out and, separately, the status it reports. A flip is first
latched (reported in the count and the argument), then shown, so the fields of a status read can
disagree as they can on the console. `buffers` records the image, the viewport and where the buffer
is not black. Memory starts with arbitrary contents. `FrameScreen` says what a player sees: whole
frames, each once, in order, the next one offered only when the last is on screen.

### GxCopyStore and GuestRam

RAM is a row of cells; a copy or store writes its own number to all of its cells. `reads` is
Memory's registry, `executing` the mark on the registration whose callback runs, `ranges` the
store's tracked ranges, `views` the sampled-copy cache. `publish` first resolves predecessors it
covers in part, then, in a step that cannot fail any more, registers, installs the view and retires
the predecessors. `ResolveDeferredReads` takes one registration at a time and runs its callback
outside the lock; meanwhile the guest's timing callback may load and store (`CallbackAccess`),
resolve another registration (`CallbackResolves`) or meet the executing one and be refused
(`CallbackRefused`). `prepare_write` is called by tests and diagnostics only, but is part of the
store's interface and is modelled.

`GuestRam` is RAM without deferral: the n-th write writes n to its cells at once, a read returns
what is there. The mapping takes, for each cell, the pending copy that covers it or else RAM.

### DeferredPages

`GxCopyStore` takes for granted that every access asks the registry. `DeferredPages` is why: `pending`
holds the registered ranges with their tokens, `running` the tokens whose callbacks are under way, one
inside the other, `marks` is `g_deferredReadCoveredSubPages`, `covered` and `fast` are the pages whose
`g_deferredReadCoveredPages` and `g_fullReadablePageBias` are not zero. `Adjusted` counts a registration's
ranges up or down in the blocks they mark; `Refresh` judges their pages anew by what is then registered. The
three fast paths are predicates of an access: `LoadsFast` does not even know its length, which is
why ranges are marked from seven bytes ahead on.

### GxFrame and GxImmediate

The composition. The queue and the blitter stand here for what their own modules establish: work
runs in submission order, a join returns only when its work has ended, unfinished work holds its
targets. An image is the number of the last command that changed it, so "which picture is this" is
one number. `Drain` decodes the FIFO, `SubmitBatch` is the full batch. `CopyTexture` submits the
draws and queues the copy and its clear; `CopyDisplay` joins the draws, then `CheckPool` may join the
blits when three targets (`Displays`) are all in use, then `TakeDisplay` copies (or throws, with the target
already in the pool: `TakeDisplayFails`). `ReadCopy` is a readback through the completion wait. `Begin` replaces the renderer on a change of extent. Each join
can time out (its queue is then broken for good) or be interrupted, each allocation can fail.
`lingering` holds the targets of blits that have ended but whose arenas have not been retired: a
target in it is not free although the GPU is done with it.

What the EFB will show is not stored anywhere: `After` takes it from the work, as the stamp of the last
job that paints, and `Due` is that over the GPU's queue, the open batch and the FIFO. A draw carries the
image its texture had when the FIFO was decoded; `SamplesKept` asks that the target it reads still has
that image when the GPU gets there, although copies to recycled targets are queued meanwhile.

`GxImmediate` executes each command when it is issued. Two points of the code show in it: draws
issued before a frame belong to it and lie *above* its opening clear (the FIFO prefix that the
comment at `gx_frame_renderer.cpp:196` speaks of), and a frame that is given up may leave its open
batch to the next one, if the extent stays the same.

### FastClock

One action per atomic load or store of `now_nanos()` and `resync()`; `pc` names the next one and
`local` holds what the call has read. The acquire loads and release stores keep this order, and the
compare-exchange may fail spuriously. `Tick` moves both sources of time, the kernel's clock at most
`Skew` from the counter's; a failing kernel call reads as 0 (`KernelFails`), after which the clock
holds still until the next anchor. `Tick` also bounds how long a thread stays between its first and
its last reading of the counter (`MaxCall`), in which an anchor may become old and be replaced:
without such a bound an arbitrarily old counter value becomes the middle of the next anchor, and the
code promises nothing. `result`, `returned` and `floor` are history variables. The module stands for
one clock that exists: a frequency of 0, for which the code stays with the kernel's clock, is
excluded by `ClockAssumption`. Counters are unbounded in the model; `scale()` computes in 128 bits.

### AsyncLog

A line is a number, its bytes are pairs of that number and a position, so that a torn, lost or
repeated byte shows; `accepted` is the set of the bytes the queue took. `LogCall` is `push` under the mutex, `NotifyOne` what follows it; the writer
checks the queue, sleeps, waits out its delay, swaps, and writes in pieces that `write` chooses. A
write that fails gives up the rest of the batch without counting it (`lost`); a slow one is reported
by the writer through its own queue. Wake-ups may be spurious.

### HostContexts

A thread is the stack it executes, its floating-point control word and the step of the call it is in;
`saved` is what each context's `savedSp` points to: the stack, where it continues, and the control
word. `Switch` pushes the caller's frame and pops the destination's; `EntryReturns` is the end of a
fiber, which leaves a frame that must never be popped (`trap`). Any thread may call any function.
`OnSchedulerThread` is all that keeps a second thread off the fibers' stacks. `modes` is history: the
control word the code of each stack relies on.

### AudioOut

The device holds the block it was last given, in the driver's own buffer, until it accepts the next;
`content` records what each buffer holds, half-mixed blocks included. An error of a native call
leaves it open whether the device took the block; SDL then closes the driver, which keeps the memory
if the port did not drain or close. `MaxOpens` and `MaxBlocks` are bounds.

### GxRegisterMap and GxRegisters

The map lists, register by register, the fields each word decodes to. A word is abstracted to two
groups of bits, low and high, and a field to the group it is decoded from, which is what the caches
can tell apart; the arithmetic of a field is not modelled. `GxRegisters` is the decoder with its caches,
the BP mask, loads of consecutive XF registers, the invalidation of one bank's cache by another, and
the fields computed from several registers. A behaviour writes one `focus`: every register alone,
every two registers that touch a field, and larger groups that compute one field together.

### GxGeometry and GxFifo

`GxFifo` decodes one stream, one packet a step, and keeps the group of draws as `handle_draw` does.
The register state is a version number with the two facts that decide what a draw does. Streams end
anywhere, in a packet too; malformed packets and refused draws throw. `GxGeometry` builds what is
submitted: vertices, triangles, lines, points, and the range of the array that is copied.
`DrawsAsIssued` compares the submitted primitives with those each command would draw alone.

### TevStage and GxMaterial

`TevStage` translates the shader's stage and, beside it, the integer combiner it imitates
(`tev_integer.h`). Numbers are eighths of a byte and exact. `GxMaterial` builds the packet of one draw
- TEV program, coordinates, bindings, uploads, refusals - and then runs the shader over its stages.
With indirect coordinate 8 the shader reads the next array's word as a scale, and multiplies zero by it:
such a load is not demanded by `LoadsProvided`. A packet is a snapshot, so it is built between streams,
in the first state of `GxFifo`.

### GxCopyPlan and GxEfb

`GxCopyPlan` is the arithmetic of copies, viewport, scissor, video state and XFB lines, in whole and
exact fractional numbers where the code has `float`. (Edges up to a hundredth of a texel
off count as whole, as in `plan_gx_texture_copy`.) `GxEfb` makes calls: each assigns fields and queues
words (`Assigns`, `Words`), a drain decodes them through the cache, a copy plans from the state, a
frame takes the VI settings, and every input of the viewport maps it again. `asked` is history, the
argument each call stands for. Policies other than "fit" are modelled without a scale of their own.
What a copy finds depends on history: a copy width of 641 is the same register word as 640, so it stays
641 when that word was decoded before and dropped now, and becomes 640 otherwise (`register_decoder.cpp:332`);
`aa` with the default pattern makes a texture copy throw or not in the same way. `CopyAsAsked` allows
these two outcomes, the call as given or as its own words decode (`Registered`), and no other: no
mixture of both and nothing of an earlier call.

### TextureLayout and GxTextures

RAM is two cells and a host vector is one. A digest is the bytes themselves, so no two contents
collide. Writes, cache operations, EFB copies and the end of a vector come between any two resolves,
and a plain write may race a resolve until its bytes have been read; after that callers keep them
unchanged, as the header asks (`gx_texture_cache.h:20`). `ServesCurrent` states precisely what a memo
may miss: bytes the guest changed without telling. A miss under such a memo stores the *new* pixels
under the digest of the *old* bytes; if the old bytes come back, the new pixels are shown until they
are evicted. `TextureLayout` gives each texel and mip a place.

### GuestMemory and GuestFlat

Operations take the memory and return the set of what may come of them, so that `GuestFlat` can call
them as the C++ does, one kernel call a step. `m.space` is what the kernel has at each unit of the
guest's addresses. A mapping that the kernel puts elsewhere is unmapped again, and that call's result
is not looked at: what stays behind then is `stray`. `m.linked` is the arena's list of aliases, whose order
nothing depends on. The sections of a layout are stated rather than built: a region leads a section if no
region before it shares one with it, a section's number is that of its leader among the leaders, and it
reaches to the end of its last region, which is what the loop of `Initialize` computes. `use` is the orderly use by `Initialize` and
`~State`, or any calls in any order, as in the diagnostics.

### NativePads, PadAutopilot and AuroraInput

One thread polls; users, SDL's rumble callback and others that open pads come in between.
Axes are left out, buttons are a set. Time moves between polls, and matters to the pilot only. An
exception of `poll` is not caught by the runtime, so nothing polls after it. The pilot's cursor skips
presses in the order of their starts.

## The runs

All runs end with the full state graph. Where the constants need no definitions of their own, TLC runs
on the component's module itself; otherwise an `MC` module adds them. Deadlock checking is off where the system stops by itself: it is
destroyed or closed, fails for good, or reaches the bound on its serials, stamps, calls or lines.

| Run | Module | Distinct states | Properties |
|---|---|---|---|
| `draw_queue` | `AgcGxDraw` | 119,000 | `InFlightIntact` `FreedOnlyIdle` `CallsEndWell` `ImplementsStream` |
| `blitter` | `AgcBlit` | 374,000 | `InFlightIntact` `CallsEndWell` |
| `presenter` | `VideoPresenter` | 6,000 | `DisplaySound` `ImplementsScreen` |
| `copy_store` | `MCGxCopyStore` | 907,000 | `StoreAgrees` `PagesAgree` `ImplementsRam` |
| `frame` | `MCGxFrame` | 442,000 | `DisplayServed` `WorkSupported` `ImplementsImmediate` |
| `fast_clock` | `MCFastClock` | 5,431,000 | `LeadBounded` `AnchorWhole` `NeverBackwards` `LinesKept` |
| `gx_registers` | `MCGxRegisters` | 19,000 | `XfCacheVouches` `DropLosesOnlyShared` `PipelineStamped` |
| `gx_fifo` | `MCGxFifo` | 118,000 | `DrawsAsIssued` `GroupContinues` `SnapshotCovers` `LoadsProvided` `CombinerAgrees` |
| `gx_efb` | `MCGxEfb` | 161,000 | `CopyAsAsked` `ClearFollowsCopy` `RenderCurrent` `LinesFit` |
| `guest_memory` | `MCGuestFlat` | 93,000 | `MemorySound` `RamServed` `ContextsSound` `SoundIntact` |
| `input` | `MCAuroraInput` | 945,000 | `MotorsAccounted` `ShownIsCurrent` `RumbleOwnPad` |
| `gx_textures` | `MCGxTextures` | 1,433,000 | `BudgetKept` `TexelsApart` `ServesCurrent` |

Type invariants and closely related invariants are conjuncts of one property: `InFlightIntact`,
`DisplaySound`, `StoreAgrees`, `PagesAgree`, `MemorySound`, `DisplayServed` and `WorkSupported` name their parts.

What each shows, and why its bounds are enough:

- **draw_queue**: a ring of two batches of two draws with five serials. Three batches can be
  recorded, so each slot is reused while the other is in flight, a batch fills and is submitted by
  the next draw, an open batch is submitted early, and serials run out. More slots add distance
  between reuses and no new relation; the theorems below hold for any number. Two resources tell an
  owner that is held from one that is not.
- **blitter**: two arenas, three serials. `claim` allocates the second arena, reuses a retired
  one and waits for the oldest. Three constants: one held per arena, and a new one. Two colours
  tell whether a constant was rewritten.
- **presenter**: five frames over two buffers, so that each buffer is reused at least twice, with the
  same viewport, another letterbox and the full screen.
- **copy_store**: three cells give equal, nested, straddling and disjoint ranges; four copies or
  stores let one copy straddle two others and be written to afterwards.
  The same run has the page marks, in behaviours of their own: blocks of four bytes, pages of four
  blocks, scalars of up to four bytes, two windows of which one ends in the middle of a page, and a
  page that is not mapped. Ranges of one, two and five bytes lie at, before and behind the ends of
  blocks and pages; up to three registrations are pending at a time.
- **frame**: two copy destinations over three targets, a display pool of two, two draws in the FIFO
  and batch together, four commands (draws, copies and clears), two renderers. With five commands the
  run takes several minutes and finds nothing more. Destinations and targets are symmetric. Four
  commands are too few for a target that was published, sampled by an open batch and then replaced
  to come up for reuse: that case rests on `WorkSafe` and `ImmediateImplemented`, which have no such bound.
- **fast_clock**: two threads, one of which replaces the anchor while the other reads it, finds the
  flag taken, or follows with an older counter value. In four ticks an anchor gets too old (two ticks)
  twice, and a call may span two. Two ticks make five nanoseconds, so that `scale()` rounds. Threads
  are symmetric.
  The same run has the log, with two callers, a queue of three bytes and four lines of one or two bytes:
  lines are refused, a batch is written in pieces while the next one fills, and buffers swap at least
  twice. Clock and log do not touch each other, so a behaviour exercises one of them.
- **gx_registers**: 254 BP registers, 256 CP and 96 XF registers and 27 Aurora packets, every pair that
  shares a field and six larger groups, with every word of the two groups. The generation counts
  modulo `EpochBound`: only whether it moved matters.
- **gx_fifo**: all streams of two packets, all of three of the packets that matter to merging, all of
  four mergeable draws and of five; limits of 10 vertices and 12 bytes make a group end at either. And
  packets of one to three TEV stages that differ in what they depend on, all operations of the combiner
  on inputs of every kind, and the states a build refuses.
- **gx_efb**: the game's sizes, sources at the edges of the EFB and beyond, thinner than a texel, widths
  that are no multiple of 16, and scales that divide nothing. Calls are grouped by what they share (12
  topics of two to four calls); six words may be queued.
- **guest_memory**: seven layouts of which three are refused; four granules of addresses and a pool too
  small for the largest layout; two backings and three aliases. A free use makes any calls. The host
  contexts have three fibers and two threads, so a fiber switches to a second while a third is finished;
  the audio device is opened twice, with four blocks, so that each buffer is used twice. Each of the three
  has its own behaviours.
- **input**: two slots, two users, two handles that pass from one to the other, and scripts of
  overlapping presses. `MaxTime`, `MaxPresses` and `MaxStart` bound the script.
- **gx_textures**: three scenes: two textures of one address and different size, one with a palette,
  one in host memory and over the budget. One memo, a clock that wraps after three stamps.

The bounds are named in the modules: `MaxSerial`, `MaxStamp`, `MaxFifo`, `MaxCores`, `MaxTick`, `MaxCall`,
`MaxLines`, `EpochBound`, `QueueBound`, `MaxStores`, `MaxWrites`, `MaxOpens`, `MaxBlocks` and those named
above. `MaxSerial` is also real: the code refuses a serial after `UINT64_MAX`, and so are `QueueLimit`,
`MergeBytes`, `MergeVertices`, `MemoLimit`, `ClockLimit` and `Budget`, limits of the code that the runs
make small.

## Fairness

Only `CallsReturn`, a conjunct of `CallsEndWell`, needs fairness, in `AgcGxDraw` and `AgcBlit`: `FairSpec` adds weak fairness of
`CallStep`, the next step of the call in progress. The code justifies it: a call is straight-line
code on a running thread, each wait is a loop of bounded length around a bounded sleep, and its time
limit is one of the step's outcomes. Nothing is assumed about the GPU, which may hang for ever, nor
about the exceptions of the timing callback (`WaitInterrupted` is outside the fair step, so that no
call returns merely because it is interrupted in the end). The other modules check safety and
refinement only and assume no fairness.

## The proofs

| Module | Invariants | Action properties | Refinement |
|---|---|---|---|
| `AgcGxDraw_proofs` | `TypeOK` `InFlightIntact` `FreedOnlyIdle` | `FinishJoins` `FailureRetains` | of `DrawStream` |
| `AgcBlit_proofs` | `InFlightIntact` | `FinishJoins` | |
| `VideoPresenter_proofs` | `DisplaySound` | | of `FrameScreen` |
| `GxCopyStore_proofs` | `StoreAgrees` | | of `GuestRam` |
| `GxCopyStore_proofs` (page marks) | `PagesAgree` | | |
| `GxFrame_proofs` | `DisplayServed` `WorkSupported` | | of `GxImmediate` |
| `GxDraws_proofs` (textures) | `BudgetKept` | `ServesCurrent` | |
| `GxDraws_proofs` (groups) | `GroupContinues` | | |
| `GuestFlat_proofs` | `MemorySound` `RamServed` | | |
| `HostServices_proofs` (clock) | `TypeOK` `LeadBounded` | `AnchorWhole` `NeverBackwards` | |
| `HostServices_proofs` (log) | `LinesKept` | | |
| `HostServices_proofs` (contexts) | `ContextsSound` | | |
| `HostServices_proofs` (audio) | `SoundIntact` | | |

Each inductive invariant was first checked by TLC on the run of its module.

### The draw queue

`AgcGxDraw_proofs` proves, for every ring size, batch size, serial limit and set of resources:

| Theorem | Statement |
|---|---|
| `Invariance` | `Spec => []IInv` |
| `TypeCorrect` | `Spec => []TypeOK` |
| `InFlightSafe` | `Spec => []InFlightIntact` |
| `DestructionSafe` | `Spec => []FreedOnlyIdle` |
| `SerialsAccounted` | `Spec => []SInv` |
| `FinishSafe` | `Spec => FinishJoins` |
| `FailureSafe` | `Spec => FailureRetains` |
| `StreamImplemented` | `Spec => ImplementsStream` |

The only assumption is `ConstantsAssumption` of `AgcGxDraw`: a ring and a batch have at least one
place, `MaxSerial` is a natural number, `None` is no slot.

None of the safety properties is inductive. `StorageStable` is lost if a slot is recycled, which
`begin_batch` does when the label has reached the serial *the batch remembers*; so the invariant has
to tie each unfinished submission to its batch. `IInv` says of every entry of the GPU's queue: its
batch is still marked submitted and is not the open one; the batch's serial is the entry's fence;
storage and owners are as at submission; the fence is ahead of the label and not beyond
`submittedSerial`. Fences increase along the queue, so one slot has at most one entry, and the label,
which takes the fence of the head, stays below the rest. A batch with a fence the label has reached
is then in no entry (`RetiredFacts`), which is what retirement, the wait for a slot and the
destructor rely on. There is one lemma per action, with a step for each conjunct the action can
disturb; `NextKeepsIInv` puts them together.

`IInv` says nothing of *which* draws run. `SInv` adds it: the serials of each submission follow those of
the one before without a gap, those of the open batch follow the last submission, and a serial that is
missing has been reported lost (`Consecutive`); what the label has passed has run or was lost
(`Settled`); a batch that is neither open nor submitted owns nothing but lost draws' (`Loose`). With it
every step is one step of `DrawStream` or none: the GPU's end of a submission is the execution of the
next serials in order, retirement unpins only what has run, a dropped batch is a reported loss.

### The blitter

`AgcBlit_proofs` proves, for every number of arenas and serials and any targets, constants and colours:

| Theorem | Statement |
|---|---|
| `Invariance` | `Spec => []IInv` |
| `InFlightSafe` | `Spec => []InFlightIntact` |
| `FinishSafe` | `Spec => FinishJoins` |

`BlitAssumption`: there is an arena, targets and constants are distinct, and neither is `None`.
An arena is handed out again because *its label holds its serial*, which says something about the GPU
only if an unfinished blit is alone in its arena (`OneEach`) and ahead of its label, with commands,
targets and the colour of its constant as at submission (`InFlightBound`). `CallOk` follows a call from
`claim()` to the submission: the arena is not submitted, its label was cleared, its commands are those
of the next serial.

### The presenter

`VideoPresenter_proofs` proves, for every number of frames and any set of viewports:

| Theorem | Statement |
|---|---|
| `Invariance` | `Spec => []IInv` |
| `DisplaySafe` | `Spec => []DisplaySound` |
| `ScreenImplemented` | `Spec => ImplementsScreen` |

`PresenterAssumption`: the values that stand for "no viewport", "torn" and "nothing" are none of the
others. The copy goes to the buffer that `current` leaves free, so `IInv` has to say when `current` is
what VideoOut scans out (`InSync`: whenever no flip is outstanding), and to follow a frame from the copy
(`WritingOk`, `FrameOk`) over the flip (`FlipOk`) to the screen (`ShownOk`). `RectsOk` ties the
remembered viewport of a slot to what is lit in its buffer, except while the slot is copied to and after
a failure.

### The copy store

`GxCopyStore_proofs` proves, for any size of RAM and any number of copies and stores:

| Theorem | Statement |
|---|---|
| `Invariance` | `Spec => []IInv` |
| `StoreSafe` | `Spec => []StoreAgrees` |
| `RamImplemented` | `Spec => ImplementsRam` |

`StoreAssumption`: RAM has a cell. `IInv`: pending ranges are disjoint, tokens are handed out once and
every view has its tracked range (`Tokens`), the registration whose callback runs is still there
(`Marked`), what a call has left to resolve is what its range asks for and nothing overlaps it once it is
resolved (`CallOk`), and a range that is no longer pending is in RAM but for stores since (`Written`).
The mapping to `GuestRam` takes each cell from the one pending copy that covers it or else from RAM.
Materialization changes nothing there, because the bytes it writes are those that were shown; `publish`
is one write, in the step that cannot fail; an access by the timing callback inside a materialization is
an access like any other.

### The page marks

`GxCopyStore_proofs` also proves, for any numbers of addresses, sizes of blocks and pages, width of a scalar,
windows, banks and ranges:

| Theorem | Statement |
|---|---|
| `PagesInvariance` | `PagesSpec => []PagesInv` |
| `PagesSafe` | `PagesSpec => []PagesAgree` |

`PagesAssumption`: sizes are positive, RAM lies in every window within the addresses, and callers name
addresses. The code's sizes are powers of two and a page is whole blocks; neither is needed.

`PagesInv` says that the tables are functions of what is pending: a block's count is the number of
ranges that mark it (`MarksCount`, kept because registrations come and go whole: `MarkingJoins`), a page is
covered when a range touches it and otherwise has its bias (`CoveredTrue`). `Refresh` judges a page by
`RangesOverlap` but only the pages from `From` to `Upto` of what came or went; `TouchedPages` shows that no
other page can change. From there the three parts of `PagesAgree` are arithmetic: an address in a range's extent is
in a block it marks and on a page it covers (`Inside`), a scalar that reaches a range begins in its extent, and
a resolved range that reaches one has an address in both.

### The frame

`GxFrame_proofs` proves, for every number of destinations and targets, every pool of two targets or more
and every bound on draws, commands and renderers:

| Theorem | Statement |
|---|---|
| `Invariance` | `Spec => []IInv` |
| `DisplaySafe` | `Spec => []DisplayServed` |
| `WorkSafe` | `Spec => []WorkSupported` |
| `ImmediateImplemented` | `Spec => ImplementsImmediate` |

`FrameAssumption`: the pool has at least two targets and there are more identities of display targets
than it holds; the sorts are disjoint.

The heart of `IInv` is a promise. A target `t` is *promised* the image `v` by the work on the GPU if the
one copy to `t` in that work finds `v` in the EFB when its turn comes, or, if there is no such copy, `t`
holds `v` already (`Promised`). `Kept` says that everything that refers to a target - a published copy,
the frame's display copy, a draw in the open batch, a draw on the GPU - is promised the image it expects,
that a target has at most one copy under way, and that a draw stands behind the copy it samples.
Submitting draws adds no copy, so promises stand (`KeptWithoutCopies`); a new copy takes a target that
nothing refers to, so it breaks none and makes one, for the image that is due (`KeptWithCopy`); and when
the oldest job ends, a promise of its copy becomes the content of its target (`KeptByTail`). The last
three are lemmas about any sequence of jobs. `Presented` does the same for the scan-out buffer, `JobsOk`
bounds the stamps and binds unfinished draws to the renderer in use, `Joined` and `CallOk` say what a call
may rely on after its joins, and `Served` that a display copy about to be made has a target.

`WorkSafe` follows because the draw at the head has no copy before it, `DisplaySafe` because, once the
blits are joined, only the display copy holds a target of the pool. For the refinement, each step is
either one command of `GxImmediate` or leaves `Due`, the textures, the display copy and the output as
they were; a readback sees `memory`, which is what was promised since no blit is left.

### The clock

`HostServices_proofs` proves of the clock, for every number of threads, frequency, interval and rate of
drift:

| Theorem | Statement |
|---|---|
| `ClockInvariance` | `Spec => []IInv` |
| `TypeCorrect` | `Spec => []TypeOK` |
| `AnchorSafe` | `Spec => AnchorWhole` |
| `MonotonicTime` | `Spec => NeverBackwards` |
| `AnchorsBehind` | `Spec => []LeadInv` |
| `LeadStays` | `Spec => []LeadBounded` |

The only assumption is `ClockAssumption`: the constants are natural numbers, and neither the
frequency nor the interval is 0. `IInv` consists of four parts beside the types. `WriterAlone`: the
flag keeps all but one thread out of `resync()`. `Parity`: the sequence is odd exactly while that
thread stores, so an even sequence means that nobody does. `ReaderCurrent`: the half of the anchor a
reader has loaded is the one in force *if the sequence has not moved since*, which is what the
check at the end of its loop finds out; and no thread's counter value is ahead of the counter, so the
middle of a call is well defined. `ValuesOrdered`: nothing returned exceeds `last`, and the `previous`
of a call about to return is at least what had been returned when it began. `AnchorSafe` combines the
first three, `MonotonicTime` rests on the last.

`LeadBounded` needs a second invariant, because a lead that was passed on from one anchor to the next
would grow. `LeadInv` says that every pair of a counter value and a time is *behind*: the time is one of
the kernel's, at most what the clock showed at the counter value plus `Slack`, half a call
(`AnchorBehind`); and the same of the pair a thread has loaded or is about to store (`ThreadBehind`).
Then what a reader adds to an anchor's time never exceeds what the counter alone would give by more
than the slack and the drift. `Scale` is a whole quotient of a product; the lemmas on it
(`QuotientOfSum` and those around it) bound what its rounding adds to one nanosecond.

### The log

`HostServices_proofs` proves of the log, for any number of callers, sizes of lines, queue limit and lines:

| Theorem | Statement |
|---|---|
| `LogInvariance` | `LogSpec => []LogInv` |
| `LogSafe` | `LogSpec => []LinesKept` |

`LogAssumption`: a line has bytes, and the bounds are natural numbers. `LogInv` adds to `LinesKept` that
the batch is empty when the buffers are swapped (`BatchEmpty`), without which old bytes would be queued
again; that no byte in the queue is of a line still to come (`LinesNumbered`), so that a push goes to the end of
the order; and that only accepted bytes are given up (`LostTaken`).

### The host contexts

`HostServices_proofs` proves of the contexts, for every number of fibers and host threads:

| Theorem | Statement |
|---|---|
| `HostInvariance` | `HostSpec => []HostInv` |
| `HostSafe` | `HostSpec => []ContextsSound` |

The only assumption is `HostAssumption`: there is a control word, and fibers, host threads, the
scheduler's context and `Nobody` are distinct. `ContextsSound` is not inductive: a switch goes where
the saved frame says, and `ContextsSound` says nothing of frames. `HostInv` adds three parts.
`FramesOk`: the frame of every context that may be switched to leads back to that context's own
stack with that stack's control word; the frame of a finished fiber need not, for `finished` keeps it
from being popped. `Counted`: `workerCount` is the number of contexts, which is why the shutdown of a
scheduler without workers leaves no mapping behind. `InCall`: only the owner is inside `Create()`,
with a mapping that is no context yet.

### The audio device

`HostServices_proofs` proves of the audio driver, for any number of openings and blocks:

| Theorem | Statement |
|---|---|
| `AudioInvariance` | `AudioSpec => []AudioInv` |
| `AudioSafe` | `AudioSpec => []SoundIntact` |

`AudioAssumption`: the bounds are natural numbers. `SoundIntact` is kept by `GetDeviceBuf` only if the
buffer it hands out is not the one the device reads. `HeldLast` says where that is: a port holds the last
block it took, which is in the buffer not handed out next while a block is awaited, and in the other one once
the buffers have been turned. `BlocksCounted` numbers the blocks taken and played; `HeldIntact` says
that a later opening has taken nothing yet, so that an old port, closed with its device still
reading, keeps its own memory.

### The texture cache

`GxDraws_proofs` proves, for any cells, textures, values, budget, memo limit and width of the clock:

| Theorem | Statement |
|---|---|
| `CurrentInvariance` | `Spec => []CurrentInv` |
| `ServesSafe` | `Spec => ServesCurrent` |
| `BudgetInvariance` | `Spec => []BudgetInv` |
| `BudgetSafe` | `Spec => []BudgetKept` |

`ShapesAssumption`: a shape is one `TextureLayout` accepts. `TexturesAssumption`: cells and values are
natural numbers, no cell of RAM is the host vector's, a texture has at least one cell, and the clock
counts at least one stamp before it wraps (the code's has 64 bits).

`ServesCurrent` follows a digest from the memo to the entry. `MemoTrue`: a memo's generation is never
ahead of its cells', and one that *is* theirs is of their bytes, but for cells the guest has not told of
(`Tellings` shows why: whatever is told moves the generation of every range over it). `CallTrue` says the
same of a resolve on its way: what it sampled, as long as it stands, is a generation whose memo misses at
most what `unsaid` lists (`SampleTrue`), and the bytes it has read do not change until it ends
(`RaceKeeps`). `EntriesTrue`: an entry is what its key says, or was made while bytes were missed.

`BudgetKept` is kept by an upload only if the entry just made is not the one that goes. `StampsBehind`
says that no stamp is ahead of the clock; so the next one is ahead of all (`NextStampAhead`), also when the
clock wraps and the others are reset, and `NewestKept` shows that evictions from the oldest on, of which each was
necessary, leave it. `UsedTrue` equates the blocks accounted with those the entries own. The size of a
texture is a number by `BlocksTyped`, whatever its mips.

### The groups of draws

`GxDraws_proofs` also proves, for any streams, vertex formats and merge limits:

| Theorem | Statement |
|---|---|
| `GroupInvariance` | `FifoSpec => []GroupInv` |
| `GroupSafe` | `FifoSpec => []GroupContinues` |

`StreamsAssumption`: a stream is a sequence. `GroupInv` adds to `GroupContinues` that the group is of
packets of the stream and that the decoder stands at a position. `next_draw_joins` looks for its packet behind
NOPs; `AfterNopsSkips` and `AfterNopsAt` show that it stays the same packet while the NOPs are
decoded and is then the next one, and `GroupWaits` that the packet next is therefore a NOP or the draw
that joins: nothing else is ever decoded over a group, and no stream ends, throws or stops over one.

### The guest memory

`GuestFlat_proofs` proves, for any handles, address range, pool, granularity-respecting arguments and
layouts, whichever kernel calls fail:

| Theorem | Statement |
|---|---|
| `FlatInvariance` | `Spec => []FlatInv` |
| `HandlesSafe` | `Spec => []NothingDangles` |
| `UnwindComplete` | `Spec => []FailureLeavesNothing` |
| `MemorySafe` | `Spec => []MemorySound` |
| `RamIsServed` | `Spec => []RamServed` |

`MemoryAssumption` and `LayoutAssumption`: sizes and addresses are natural numbers, and there are as many
handles as a layout has regions and sections. `MirrorAssumption`: a region of MEM1 or MEM2 ends before
the next mirror begins, as all regions of the engine do (`guest_flat_ps5_test.cpp:132`); `Validate` does
not demand it, and without it two regions of one section could show it shifted. Only `RamIsServed` uses it.

`MemoryTrue` is what the handles owe each other beside `NothingDangles`: `aliases` of a backing counts
the aliases that name it, which is why a backing is released only when no address shows it; aliases
do not overlap, which is why unmapping one takes nothing from another; an address is an alias's, reserved
or the outside's. `ControlTrue` and `UnwindTrue` say what `~State` still has to take down at each of
its steps - aliases from the last, then backings, then the arena - so that none of its calls is refused
for its order. Each operation of `GuestMemory` has one lemma, for every memory that is `MemoryTrue`, which
serves the orderly use and the free one.

`RamServed` speaks of whole layouts. `ServedTrue` follows `Initialize`: which regions are mapped so far and
where in their section (`RegionServed`), and that sections opened are zero until the game writes.
`SectionShared` says that regions of one kind share a section, `WithinMirror` that two addresses which
are equal under the mask are equally far from the beginning of their regions' sections; `MirrorsAgree` and
`PointerServed` follow.

### Model-checked only

- liveness (`CallsReturn`), which is out of the prover's reach, and with it `CallsEndWell` as a whole;
- `XfCacheVouches`, `DropLosesOnlyShared` and `PipelineStamped` (`GxRegisters`), `LoadsProvided` and `CombinerAgrees`
  (`GxMaterial`), the properties of `GxEfb`, and `TexelsApart`: they compare tables or computations over
  data, which are folds and recursions, and induction over data is out of reach;
- `DrawsAsIssued` and `SnapshotCovers` (`GxFifo`), for the same reason: what is submitted is a concatenation
  of what each draw's vertices make;
- `MotorsAccounted`, `ShownIsCurrent` and `RumbleOwnPad` (`AuroraInput`): a refresh and a close go through
  the slots one by one, and the model folds over them.

## What is not modelled

Inside the modelled components:

- `AgcGxDraw`: a failing `push_back` of the owners after the packets are written
  (`agc_gx_draw.cpp:262`, heap exhaustion), which would leave a draw in the command buffer without
  them; packets, registers and descriptors; calls rejected before they change anything.
- `AgcBlit`: rectangles, formats, register values; a constructor that throws after its first
  allocation.
- `VideoPresenter`: opening and registering buffers; the content of rectangles; `close()` leaves
  `outstanding` set, and what a later retirement does with it is modelled only as far as the flags.
- `GxCopyStore`: addresses (the three windows on a cell are one cell) and `ClearDeferredReads`, which are in
  `DeferredPages`; protections (a no-op on the PS5); the encoding of a copy.
- `DeferredPages`: a new layout of memory while ranges are pending (`RefreshFastPathTables`), executable
  guards and MMIO, more than 65,535 ranges over one block (`Countable`, a bound).
- `GxFrame`: a texture copy's scaled and native target are one; copies and clears cover the whole
  EFB; the alpha clear before a copy; batches that overflow and a drain that throws midway
  (`AgcGxDraw` has the former); screenshots and `wait_idle`, which change nothing here.
- `FastClock`: the count of re-anchorings, other clock ids, overflow of a 64-bit counter.
- `AsyncLog`: the slowest write of the statistics.
- `HostContexts`: general registers, the profiling variant, two threads that initialise at once
  (`ownerThread` is a plain variable; the header asks for one thread), a handle used after its
  destruction.
- `AudioOut`: statistics, formats, the refusal of a buffer or a block of the wrong size.
- `GxRegisters`: the numeric decoding of a field.
- `GxFifo`: what a sink does with a draw; the renderer refuses lines and points (`GxMaterial`).
- `GxMaterial`: fog, the arithmetic of coordinates, blend, depth and sampler words; float rounding of
  packed comparisons between fractions (`CombinerAgrees` speaks of whole bytes).
- `GxEfb`, `GxCopyPlan`: gamma and filter weights; float rounding; `LinesFit` holds, and is stated, for
  XFB heights above half of the EFB's.
- `GxTextures`: decoding of formats, collisions of the 64-bit digest.
- `AuroraInput`: axes; Aurora's controller that stays open when a removal fails
  (`aurora_input.cpp:123`), which no property covers.

Not covered at all: the components marked so in the inventory, with
their reasons.
