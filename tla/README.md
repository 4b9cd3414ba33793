# A verification development for qemu-3dfx

TLA+ models of the pass-through of Glide and OpenGL from a Windows guest to the host's
libraries, the TLC configurations that check them and theorems that TLAPS checks.

## The system

A program in the guest loads a wrapper DLL in place of `glide2x.dll` or `opengl32.dll`. The DLL
and a QEMU device share memory; the DLL puts calls into it and writes registers of the device,
and the device executes the calls in the host's library.

    guest program ── wrapper DLL ── shared memory: call FIFO, data area, output page
                        │                 │             window (one-copy buffers, LFB)
                        └── registers ── device ── context stack / Glide library ── window (SDL)
                                          │
                                          └── KVM slots (zero-copy buffers)

| Part | Source | State | Operations |
|---|---|---|---|
| call FIFO, guest side | `wrappers/3dfx/src/glidedll.c`, `wrappers/mesa/src/wrapgl32.c` | `mfifo[0]`, `mdata[0]`, the words behind them | `fifoAddEntry`, `fifoAddData`, `FIFO_GRFUNC`, `FIFO_GLFUNC`, `FIFO_FLUSH` |
| call FIFO, device side | `glidept_mm.c`, `mesapt_mm.c` | position in FIFO and data area, `datacb`, `FRet` | `processFifo`, `processArgs`, `processFRet`, register writes |
| GL context life | `wrapgl32.c`, `mesapt_mm.c`, `mglcntx_linux.c`, `mglcntx_mingw.c` | `currDC`, `currGLRC`, `level`; `mglContext`, `mglCntxCurrent`; `ctx[]`, attribute cache, activation | the WGL entry points, registers 0xFFC, 0xFF8, 0xFF4, 0xFE4, 0xFDC, 0xFD8, 0xFBC |
| mapped buffers | `mesapt_mm.c`, `mglmapbo.c`, `mesagl_impl.c` | `BufIdx`, the table of `mapbufo_t`, `szUsedBuf`, the window | bind, map, flush, unmap, delete, context creation |
| KVM slots | `00-qemu92x-mesa-glide.patch` | memory slots of the area MBUFO | `kvm_update_guest_pa_range` |
| render window | the patch (`ui/sdl2.c`), `glidewnd.c`, `glide2x_impl.c` | `scon_cb`: one timer, `res`, `gui_saved_res`, `render_pause`, `glide_on_mesa`, `winctx` | prepare, release, stat; `sched_wndproc` in the main loop |
| display timer, crash detection | `mesapt_mm.c`, `mglcntx_mingw.c` | `dispTimer`, `ts`, `last`, `crashRC` | schedule, fire, cancel |
| guest attach | `DllMain` of `wrapgl32.c`, register 0xFE4 | `mfifo[1]` as sentinel, `mdata[1]` as reference count | attach, detach, death of a process, recovery |
| pbuffers | `wrapgl32.c`, `mglcntx_linux.c` | `currPB`; `hPbuffer[]`, `PBDC[]`, `PBRC[]` | create, context of a pbuffer, destroy |
| client arrays | `wrapgl32.c`, `mesapt_mm.c`, `mglvarry.c` | a copy of the array state on each side; the vertex cache | pointer, enable and bind calls; `PushVertexArray` on each side, `LookupVertArry` |
| linear frame buffer | `glidept_mm.c`, `glidedll.c` | `lfbDev`, `lfb_dirty`, the copy in shared memory, mapped pages | `grLfbLock`, `grLfbUnlock`, `grBufferSwap` |
| sync objects, Glide state list, Glide textures | `mglmapbo.c`, `gllstbuf.c`, `glidept_mm.c` | lists by handle | |

Not the system's own logic: Wine's Direct3D (`wined3d-windows`), drivers and shims
(`freeaddons`), build recipes (`virgil3d`, `scripts`), generated tables, `mesagl_blit.c`
(drawing only), the guest's drivers and code patches (`fxlib`, `drv`: machine I/O).

### How the parts interact

Guest and device run in turn: a register write traps, and the vCPU that wrote it executes the
handler to its end under QEMU's global lock. So memory needs no lock and a handler sees what the
guest stored before. Concurrency comes from the main loop's timers (window, display timer),
from several processes and threads in the guest, and from the distance between queuing a call
and executing it. What is hard:

* the two sides compute positions, sizes, levels and handles **independently** and never
  compare them: data offsets in the FIFO, the level of a context, the client array state;
* calls are executed **later** than they are made, maybe in another context, and the space
  that holds them is tested late;
* the device keeps **one** of something that OpenGL has many of (`BufIdx`, one window stack);
* the program decides the order in which resources are given back, and may not give them back.

### What makes each part correct

* FIFO: every call is executed once, in order, in its context, with the words it was made with;
  both sides agree on the position of data; nothing is written outside the mapping.
* contexts: a handle denotes the context it was given out for; what was made current is current;
  nothing survives the program.
* buffers: mappings alive at one time do not share memory; the guest reads what it or the library
  wrote last; writes reach the buffer; what is unmapped is given back.
* render window: opening ends, with a window that is alive and has the size asked for; no call
  through a released callback; a window that is given back is QEMU's again, with nothing left.
* processes: whoever attaches after a death finds its own registers and no call of the dead; the
  last to go unloads everything; a screen that a dead program holds is given back.
* client arrays: both sides agree on what a draw carries; a draw reads what the program had in its
  arrays when it made the call, though it is executed later.
* linear frame buffer: whichever way a buffer is shown, the program sees what was rendered, and what
  it writes is not lost and loses nothing.

## Modules

| Module | Models | Composed with |
|---|---|---|
| `CallQueue` | the promise: a queue of calls, delivered once and in order, a blocked caller is released | abstract specification |
| `CallFifo` | the shared memory and both its sides, with Mesa's current context | refines `CallQueue` |
| `CallFifoProofs`, `CallFifoQueueProofs` | theorems about `CallFifo`; that it implements `CallQueue` | extend it |
| `MappedBuffers` | buffer mappings, one-copy and zero-copy, KVM slots | calls arrive in order: `CallFifo`'s result |
| `GLContexts` | WGL in the guest, the device's context registers, the host's stack | the same |
| `RenderWindow` | the window of the display, a Glide and an OpenGL program with their devices, the main loop's timers | the programs of `GLContexts`, reduced to choose, draw, leave |
| `GuestAttach` | processes of the guest over one shared memory, their deaths, the timers that give the screen back | `CallFifo` reduced to who made a call, `GLContexts` to one context, `RenderWindow` to whether the GUI is paused |
| `FrameBuffer` | the promise: a lock shows the buffer itself | abstract specification |
| `GlideLfb` | the linear frame buffer in the three ways the device has | refines `FrameBuffer` |
| `ClientArrays` | vertex arrays in client memory, buffers and vertex array objects, on both sides of the FIFO | the queue of `CallFifo`, one entry per call |
| `MappedBuffersProofs`, `GLContextsProofs`, `RenderWindowProofs`, `GuestAttachProofs`, `GlideLfbProofs`, `ClientArraysProofs` | theorems about the module of the name; `GlideLfbProofs` that it implements `FrameBuffer` | extend it |
| `MCCallFifo`, `MCMappedBuffers`, `MCGLContexts`, `MCRenderWindow`, `MCGuestAttach`, `MCGlideLfb`, `MCClientArrays` | constants for TLC | |

**CallFifo.** `depth` and `dtop` are `mfifo[0]` and `mdata[0]`; `i` and `j` are `processFifo`'s.
`CallQueued`, `CallTrapped` and `CallRejected` are the three ways a stub ends (`FIFO_GRFUNC`
queues or writes 0xFC0; Mesa's device refuses without a context). `MagicWrite` is any register
write of the Mesa DLL with a current context; `DrainOne` is a turn of the loop of `processFifo`;
`DrainDone`, `ExecTrapped` and `Return` are the rest of the handler. A memory word is
`<<call, part>>`; the sizes of data are bytes, rounded on each side by its own arithmetic
(`AddData`, `DataCb`). `CallQueued` in Glide and Mesa are one action: they differ in `Gated`.

**MappedBuffers.** `bound`, `mapped`, `value`, `hostMem` are the library's; `BufIdx`, `listed`,
`ahead`, `bufo`, `szUsedBuf` the device's (`listed` and `ahead` are the linked list: what is in
it and what stands in front); `slots` KVM's; `window` and `guest` what the program sees.
Each action is the whole handler. `accel` is the configuration: one-copy, zero-copy, or zero-copy for
pixel-unpack buffers only. `LastBound` and `Programs` say what programs do. A buffer that goes away
while it is mapped (`Forget`) takes its host range with it, and leaves its entry in the table.

**GLContexts.** A handle `MESAGL_MAGIC - n` is the number `n`, the handle of a pbuffer's context
`Pb(i)`. The host's GLX contexts are numbered by creation, so that a replaced context is not its
predecessor. `program` is what the program holds, `using` what it made current, `pbuffers` the
pbuffers it was given; `currPB`, `hPbuffer` and `PBRC` are the slots of the DLL and of the host.
`CreatePbuffer` has the two ways it fails: no configuration, and no slot (then the DLL takes the
width for one).

**RenderWindow.** `scon` is `scon_cb` and `scon->winctx`; `scon.armed` is its timer waiting. An operator named
after a function of the patch gives the next `scon_cb`. `sched_wndproc`, `DeactivateDeferred` and
`RefreshGui` are the timers; the other actions are register handlers, named for what the program
does. A size is a model value; `glideAlive` and `mesaAlive` say that the native window a library
holds still exists, `opened` counts what the Glide library opened, `lost` that a GL context was
dropped. `ts` is the one timer that deactivation and refresh share. `Die` is a program that ends
without its detach.

**GuestAttach.** `sentinel` and `refcnt` are `mfifo[1]` and `mdata[1]`, the only things one process
leaves for another; `page` is where a process maps the registers. `queue` holds who made each call.
`arrays` stands for all client state of the device, `ctx0` for the host's context, by the process
that made them. `stray` counts timers that `dispTimer` pointed to once: `CreateAttribs` clears
`mglCntxCurrent`, and the next `MakeCurrent` allocates another. `Recovered` is the end of register
0xFE4, `Silence` the passing of `MESAGL_CRASH_RC` ms. `strayed` and `foreign` record what a call met
when it was executed; client state that a process left without ending its context is excepted
(`abandoned`), because `wglCreateContext` does not start anew then (see the hazards). The count is
kept in a byte of shared memory and taken modulo 256; `MayAttach` has fewer than 255 processes at a time.

**GlideLfb.** `glfb` is the copy in shared memory, in two halves; `slot` how the pages of a buffer
are mapped. A value of `cfg` is one configuration of `glidept_mm.c`. `Copied` and `Mapped` are the end of
`processFRet` at a lock. `FrameBuffer` has one array of pixels per buffer; the refinement mapping
`Visible` says where the pixels of a buffer are at each moment: in the copy while it is locked for
writing or waits to be merged, else in the library. What waits is merged at the next swap, over
what the program draws to the back buffer before (`MayDraw`). `rest`, the pixels that a program locked in a
wide format and has not written, are still those of the library.

**ClientArrays.** `guest` and `device` are the two copies of the array state, changed by two handlers
at different times: `GuestTracks` is the DLL's, when the program calls, `Tracked` the device's, when the queue is
executed. They differ for `glEnable` and `glDisable` of an attribute (`GL_VERTEX_ATTRIB_ARRAYi_NV`): the
device decodes it (`mesapt_mm.c:1894`, `:1910`), the DLL does so in `glEnableClientState` and
`glDisableClientState` only (`wrapgl32.c:2644`, `:3290`). After such a call the two disagree, so
`InStep` speaks of the other programs. Those of style `caps` do so; orderly ones draw their attributes from
buffers only (`MayDraw`: the DLL does not know of the others and would not send them).
`program` and `library` are the client state of OpenGL itself on each side (external). An address
is a tagged tuple: a client address, a place in the vertex cache, an offset in a buffer. A draw
queues the names and data of the arrays that `guest` says (`Carried`), the device takes those that
its copy says, and `drawn` records both and what the draw read. `InOrder` is the order in which both
go through the arrays. A draw uses a `part` of its arrays: `first` bytes from their addresses on, `size`
bytes long, the same for all of them (`cbElem*start` and `n << 2` of the code, for arrays of equal stride);
the device copies it to that place of the entry and cuts it to half a cache (`Cut`), with a warning
(`reported`). Where it is copied is not part of that test: a draw far from its first vertex is
written past its entry in silence, which `client_arrays_overflow` shows, and `MayReach` keeps programs from.
Interleaved arrays are drawn whole by orderly programs, as they are sent once (`MayDraw`).
Arrays that the code treats alike are one; a block of client memory is one
value, half a cache long, and there are finitely many, so finitely many entries of the cache. Blocks do
not overlap. The entries do, and a draw may copy to several; but a block's place is always in the first
entry that serves it.

**Rules.** The code relies on programs in ways that it does not enforce. With `Orderly` programs keep
the rules named `May...`, each with its comment; `PROJECT.json` and the
list of further hazards below say what happens without. For every rule of
`GLContexts`, `RenderWindow`, `GuestAttach`, `GlideLfb` and `ClientArrays` TLC was run with the rule, or
each part of it that matters, dropped, and found one of the properties violated: none is there without need.

## Runs

Every passing run explores all reachable states within its bounds.

| Run | Shows |
|---|---|
| `fifo_glide` | Glide, five calls of four kinds (no data, one block, two blocks of odd size, trapping), a FIFO that fills after two or three: words, order, positions, the window; refines `CallQueue` with its liveness |
| `fifo_mesa` | the same with a context that comes and goes twice, flushes, refused calls, and ungated ones with and without a context |
| `buffers_one_copy` | two buffers, three mappings in any order of unmapping, deleted or lost with their context while mapped, their names used again; sizes that `ALIGNBO` rounds |
| `buffers_zero_copy` | whole pages at host addresses that collide modulo `MBUFO_SIZE`, for all targets, or for pixel-unpack buffers with the others one-copy |
| `buffers_contention` | *violation*: two targets bound before either is mapped ("GL buffer object contention") |
| `contexts` | six contexts on a stack of four, or four with two pbuffer slots, two attribute lists, activation and swaps at any time |
| `contexts_unhandled` | *violation*: deleting a shared context is a register write nobody handles |
| `window` | two sizes, six windows, Glide alone, OpenGL alone and Glide on OpenGL, activation and passthrough at any time, OpenGL programs that die |
| `attach` | four processes that attach, use a context, detach or die |
| `glide_lfb` | eleven configurations, three buffers of two pixels, locks of both types and formats: refines `FrameBuffer` |
| `client_arrays` | seven kinds of program, two contexts, up to two queued calls, draws from the first vertex and from later ones, and one longer than half a cache |
| `client_arrays_overflow` | *violation*: a short draw far from the first vertex is written past its entry without a warning |

**Bounds.** `MaxCalls` of 5 (Glide) and 4 (Mesa) exceed what the FIFO holds, so it fills and is drained at least
once within a behaviour; the data area fills with two texture calls. `MaxContexts` 2 (Mesa) lets a call
be queued in one context and executed after the other began. `MaxMaps` 3 has every order of
unmapping two buffers and one used again. `MaxWrites` counts versions: one write per behaviour
tells a lost write from a kept one, two an old version from a new one under a name used again.
`MaxCreated` 6 with `MaxLevel` 4 has the whole stack in use, replaced and begun again, but never asked for
one more: the shift of a full stack (`mglcntx_linux.c:763`), which `HostCreateShared` has, is out of reach
under `MayShare`. With pbuffers (`Kits`)
four contexts are enough to have a pbuffer's context beside a shared one, and three requests for
two slots. `MaxOpens` 6 has each kind of program come, go and come again, after its own kind, after the other
and after a death. `MaxProcs` 4: two processes at a time, one that dies, and one that finds what
is left; `MaxQueue` and `MaxStray` 2 have a call behind another's and two timers lost. Two pixels
tell a pixel that was written from one that was not, two values old from new; the three buffers are
all there are. `Size` 4 and `PageSize` 1 with blocks at 3 and 8: the first block lies where a range
would start below address zero, and each is in the range of the other, too close to its end. Half a cache is two bytes then: a draw is of both, of
the second alone, or of five, which are cut. A kit of `ClientArrays` has the entry points that act on one
another.
The code's `MAX_LVLCNTX` is 6, its FIFO has 0xc0000 words (Mesa), its vertex cache is chosen by an
option; nothing in the definitions depends on the size but the comparisons that the small sizes
already cross.

**What programs do.** `GuestObeysGL`: without a current context a program makes no call with data; the ungated
one (`OHST_DMESG`, `glDebugMessageInsertARB`) is the DLL's own and is made at any time.
`LastBound`: a program maps and unmaps the buffer it bound last. `MayUnmap`: it flushes a
mapping it said it would flush, and rewrites a pixel-unpack buffer it maps for writing. Zero-copy
runs have mappings of whole pages, and host addresses away from both ends of the MBUFO area
(at either `SlotsDisjoint` fails).
Each is what the code relies on; `buffers_contention` drops `LastBound`.

**Fairness.** `CallFifo`: weak fairness of the device's steps. A trapping access
does not return before the handler ends, and the vCPU thread that runs the handler is scheduled
by the host. The guest is never forced to make a call. `RenderWindow`: weak fairness of its three timers, which
QEMU's main loop runs when they are due, of the display timer when no program is there to put it off, and of the polls, which the wrappers repeat until they
are answered; no program is forced to open, close or leave. `GuestAttach`: the display timer and the
timer of the deactivation when no process is in. The other modules state safety only.

**Deadlock.** The FIFO runs stop when `MaxCalls` is reached and `attach` when all its processes are
gone, so deadlock is not checked there; what it would say of the FIFO, that the guest is never left
waiting, is part of `CallQueue`. It is checked in all other runs.

## Proofs

Every theorem holds for all values of the constants that satisfy the assumptions of the model's
module and those in its own `ASSUME`; types hold of every program unless said otherwise. Each invariant below
was checked with TLC, as an invariant of the module's run, before it was proved.

**CallFifo** (`CallFifoProofs`, `CallFifoQueueProofs`), of `SafeSpec`, for every set of functions, all sizes
and any number of calls and contexts:

| Theorem | |
|---|---|
| `TypeCorrect` | `[]TypeOK` |
| `CallsKeepTheirWords` | `[]OwnWords`: the k-th execution is the k-th call with its own arguments and data |
| `HostFindsTheData` | `[]PositionsAgree` |
| `DataStaysMapped` | `[]DataInWindow` |
| `CallsKeepTheirContext` | `[]OwnContext`: a call made in a context is executed in it |
| `NothingLeaks` | `[]NoDataLeak` |
| `ImplementsQueue` | `SafeSpec => Q!SafeSpec`: the initial states and the steps are those of `CallQueue` |

Assumptions, named in the module: `ArgsFit` (a function's arguments fit into the words before
`FIRST_FIFO`), `DataFits` (the data of one call fit into the slack between `MAX_DATA` and the end
of the mapping; Glide's slack of 64 KiB is less than a mipmapped 256 x 256 texture, so there it is a fact
about the calls of the program and not about the constants), `Lawful` (`GuestObeysGL`, or a device without the gate).

None of the properties is inductive. `IInv` adds what the code never says: the queued calls
stand in the FIFO one after another from `FIRST_FIFO` to `depth`, and their data one after another
from `DataBase` to `dtop` (`ChainInv`); `i` and `j` are at the entry and the data of the call to
be executed next (`ProgressInv`); each position is even, and within the areas (`BoundsInv`); and
the words there are still those of the call (`MemoryInv`). That positions are even is what makes
the guest's rounding (to an even word after a block) and the host's (to eight bytes before
dividing) agree: lemma `Rounding`. `CInv` adds that a call that waits was made in the context that is still
current (`ContextInv`), which is so because every register write drains before it changes the
context.

**MappedBuffers** (`MappedBuffersProofs`), for any buffers, sizes and host addresses:

| Theorem | |
|---|---|
| `TypeCorrect` | `[]TypeOK`, whatever the program does |
| `RegionsApart` | `[]OwnRegion` |
| `Reclaims` | `[]Reclaimed` |
| `SlotsApart` | `[]SlotsDisjoint` |
| `GuestReadsCurrent`, `NoWriteLost` | `[]ReadsCurrent`, `[]NoLostWrite` |
| `RoomSuffices`, `PlaceSuffices`, `OneCopyNeedsNoPlace` | `[]HasRoom` and `[]HasPlace`, under which the others stand |

They assume `LastBound`; beyond it `SlotsApart` assumes `Paged` (tidy programs, whole pages, and no mapping at the
very end of the MBUFO area), the two about contents `OneCopy \/ Paged`. Two things are hypotheses on the behaviour because the code
does not ensure them: `[]HasRoom`, that the regions fit into the window (the code clamps the stack and
goes on; nothing is said of the mapping that did not fit), and `[]HasPlace`, that `MapBufObjGpa` did not
answer 0. The last three theorems say when they hold: a window as large as all the mappings of a behaviour;
host addresses that lie, modulo the area, above all of them; no zero-copy at all. The bounds of
the first two are not tight, since a behaviour that unmaps gives room back.

`OwnRegion` is not inductive: an unmap gives a region back only when it is the topmost, so between the live
ones there are gaps that nobody owns. `StackInv` says that each live region lies between `mused`, which its entry
remembers, and `Top`, that all end below `szUsedBuf`, and that two of them are apart. `SlotsDisjoint` needs every
slot to be that of a mapping that the table lists (`TidyInv`), so that `MapBufObjGpa` has seen all of them, and
`PlaceInv`: the ranges of the mappings themselves are apart, page-aligned, and in `slots`. `ReadsCurrent` and
`NoLostWrite` need each other, and which of the two copies is good at each moment (`MemInv`): the library's except after a
store to the window until the flush; the window's except for a pixel-unpack buffer until the first
store.

**GLContexts** (`GLContextsProofs`), for a stack of any depth, any pbuffers and attribute lists: `TypeCorrect`; with `Orderly`
`HandlesDenote` (`[]HandleDenotes`), `CurrentIsHonoured` (`[]CurrentHonoured`), `NothingIsLeft`
(`[]NothingLeft`, which is about the unloaded DLL: the context of the window outlives the deletion of the last context). The properties speak of the program and of the host and say nothing of the DLL in between.
`GInv` does: the guest's `level` is the last place taken on the host's stack (`StackInv`), `currDC`, `currGLRC` and
the pixel format tell what the device has (`DcInv`, `Formatted`), both sides forget a pbuffer together (`PbInv`), and
a handle of the program that was not overtaken is within the level (`HeldInv`).

**RenderWindow** (`RenderWindowProofs`), for any resolutions and any number of windows: `TypeCorrect`; with
`Orderly` `CallbackIsOwn` (`[]OwnCallback`), `GlideDrawsInItsWindow` (`[]GlideHasWindow`), `MesaDrawsInItsWindow`
(`[]MesaHasWindow`), `NoContextLost` (`[]NoneLost`), `DisplayShown` (`[]GuiShown`). `scon_cb` has no field
that says whose the window is. `Hands` names the combinations of its fields that occur, as the phases of a
window that is asked for, lent and given back, by a Glide program alone (`GlideOnly`) or with an OpenGL
program (`MesaToo`); `ShownInv` says who shows the frames when no timer is on its way.

**GuestAttach** (`GuestAttachProofs`), for any number of processes and queued calls: `TypeCorrect`; with
`Orderly` `LastOneUnloads` (`[]LastUnloads`), `RegistersReached` (`[]TrapsReach`), `CallsRunAtHome`
(`[]CallsStayHome`). `CountInv` says what the reference count counts: the processes that are there, and the deaths that
nobody has made good. The rest of `AInv`: one process at a time has a pixel format (`UserInv`), its registers are
at the sentinel (`PageInv`), and what is queued is its own and is drained before its context goes (`QueueInv`).

**GlideLfb** (`GlideLfbProofs`), for every size of the buffers and every set of pixel values, with `Orderly` and `Combined`
(`LfbMapBufo` overrides `LfbWriteMerge`, and `LfbHandler` is not combined with `LfbNoAux`; the configurations of the run
satisfy it): `TypeCorrect`, which includes that no load goes to an unmapped page;
`PagesFollowLocks` (`[]MapsHeld`); `ImplementsPromise` (`Spec => ImplementsFrameBuffer`), all of the refinement, as
`FrameBuffer` states safety only. `LInv` says which copy is the library's at each moment (`CopyInv`), what may wait to
be merged (`MergeInv`), and what the device knows of the locks (`LockInv`, `MapInv`).

**ClientArrays** (`ClientArraysProofs`), for any memory, buffers and vertex array objects and any length of the queue:
`TypeCorrect`, whatever the program does; `DecideAlike` (`[]InStep`), for every program that does not switch attributes
with `glEnable` and `glDisable`, orderly or not; with `Orderly`, `Near` (the rule `MayReach`) and `NoCaps` (no program switches
attributes that way) `CopiesStayInside` (`[]CopiesFit`), for every first vertex and every size. `InStep` compares a decision of the DLL with one that the device takes later, from another copy. What
keeps it is a chain of states (`Chain`), one for each queued call, that leads from a state `Alike` to the device's (the same
arrays enabled, the same addresses null, though the others differ) to the DLL's own copy; each draw was decided in
its state of the chain. For `CopiesFit` the chain also remembers that each call kept the rules (`OrderedChain`),
and that the device's addresses are places from which half an entry fits (`DeviceInv`).

With the same assumptions also `DrawsReadRight` (`[]DrawsRight`), for any contents of memory: what a draw reads on the host is,
in every byte that it uses, what the program had when it called, unless it was cut with a warning. The invariant (`DInv`) makes each state of the chain larger (`Course`): to the DLL's
copy it adds the program's client state and, for every block, the value that the vertex cache is to show. Four
statements hold it together. `Begins`: the first state is the library's, with a buffer where the program named
it and a block's place in the cache where it named a block (`Sourced`, `Pointed`), and the cache shows the values of that
state in every byte (`Shows`). `Leads`: a call changes the state as it changes the copy and the client state; a draw leads to a
state that shows the blocks it sends, and what it was to read is what that state shows. `Ends`: the last state is the program's, with
every array of client memory that is not lost where the DLL will find it, or in the cache already, as for
interleaved arrays after their draw (`Linked`). And between contexts, when no state is left, the cache is empty and the library's
client state is the initial one but for the sources of arrays that are switched off. The step of the proof is that copying the
data of a draw changes what the cache shows to what the draw brings (lemma `CopiedShows`): two blocks that are
copied to one entry do not meet there, because they do not in memory, and a block that no draw sent
is not written over. A lookup that adds an entry moves no block (`ServingKept`), because the first entry that
serves an address stays the first.

Only model-checked:

* the liveness of `CallFifo` (the part of `CallQueue` beyond `Q!SafeSpec`), `RenderWindow` (`CallsReturn`, `GuiRestored`) and
  `GuestAttach` (`ScreenReturned`): liveness under fairness is out of the prover's reach;
* `MappedBuffers` for programs that map a buffer they did not bind last, which the run `buffers_contention` shows to
  break, for programs that delete a buffer with a zero-copy mapping, and for mappings that are not whole pages;
* `CopiesFit` and `DrawsRight` for programs that switch attributes with `glEnable` and `glDisable`.

## Findings

The warnings in the code name states that should not occur; two of them do: `buffers_contention`
(`mesapt_mm.c:1850`, `:1927`) and `contexts_unhandled` (`wrapgl32.c:17269`: `MGLDeleteContext` of `mesapt_mm.c:2348`
is never reached). A third warns of less than occurs: `client_arrays_overflow` (`mesapt_mm.c:219`, `:220`: the
first vertex is in the address that is written and not in the test for room). `PROJECT.json` quotes the lines.

## Further hazards

`PROJECT.json` lists the hazards that matter most. These were met while modelling as well. Those
under a rule are what the rule excludes, the others are outside of the models.

* FIFO: calls queued while no context is current are not drained by the next MakeCurrent
  (`mesapt_mm.c:2265`; `GuestObeysGL`).
* Mapped buffers: a mapping moved down is put at `addr_lo - bufo_sz`, which is not rounded to pages
  (`mglmapbo.c:226`); one-copy entries count as occupied room above, so a collision close to the start of the
  area gets address 0 (`mglmapbo.c:222`; `HasPlace`); a mapping that folds to the very end of the area reaches beyond it
  (`mglmapbo.c:209`; `Paged`); a region that does not fit into the window is not refused (`mesapt_mm.c:1933`; `HasRoom`); the device enters a region though the library cannot map
  (`mesapt_mm.c:1930`); a pixel-unpack buffer is not filled with its contents (`mesagl_impl.c:151`; `MayUnmap`).
* Contexts: with `MAX_LVLCNTX` contexts the next evicts `ctx[1]` (`mglcntx_linux.c:763`; `MayShare`);
  `TmpContextPurge` stops at `n = 1` (`mglcntx_linux.c:347`; `MaySetFormat`);
  `wglCreateContextAttribsARB` with nothing to share releases what is current (`mglcntx_linux.c:749`; `MayReplace`);
  the detach destroys pbuffers only when a context is current and none is shared (`wrapgl32.c:17587`; `MayDetach`);
  with `MAX_PBUFFER` pbuffers the DLL takes the width for a slot (`mglcntx_linux.c:832`; `MayDetach`); `wglCreateContext` of
  a pbuffer with no context current returns the handle of the window (`wrapgl32.c:17210`; `MayCreatePb`);
  a pbuffer slot is lost when there is no configuration (`mglcntx_linux.c:837`);
  `wglShareLists` of a pbuffer answers 1 whatever the contexts are (`mglcntx_linux.c:628`);
  two sync objects may have one CRC (`mglmapbo.c:77`).
* Window: a prepare before the main loop ran overwrites a release (patch, line 590; `MayOpen`, `MayChoose`); Glide over
  an OpenGL program that is deactivated destroys its window (patch, line 561; `MayOpen`); a process that dies
  before its first frame leaves the window prepared and no timer to give it back (`MayDie`).
* Processes: only the first to attach has the window hook (`wrapgl32.c:17548`).
* Linear frame buffer: a second lock reads the copy again over writes that were not flushed, with LfbLockDirty or
  after a swap (`glidept_mm.c:362`, `:348`; `MayLock`); with LfbWriteMerge a lock of another buffer replaces
  `lfb_dirty`, and what waits is never written (`:369`; `MayLock`); a lock in a format of 32 bits does not load the copy
  (`:787`; `MayFlush`); LfbHandler with LfbNoAux (`:816`); pages stay mapped after a death (`:698`); `grLfbBegin` does not
  recompute `lfb_dirty` (`:526`); a lock the library refuses still sets the pointer (`:738`).
* Client arrays: interleaved arrays are sent with one draw only (`mesapt_mm.c:212`) and their
  enables are not noted (`wrapgl32.c:6410`; both `MayDraw`); one copy of the state stands for all vertex array objects
  (`mesapt_mm.c:1877`; `MayName`), and with one bound no array of client memory is sent (`:1882`; `MayDraw`); `glLockArraysEXT` and `glArrayElement` send arrays with a
  buffer bound (`:1196`; `MayDraw`); an attribute of a texture unit
  selects the unit in the copies only (`:172`); the repair of an unreadable texture array changes the active unit
  (`wrapgl32.c:284`); `glPopClientAttrib` is followed by neither copy (`wrapgl32.c:8667`); one client state for all
  contexts that share (`mesapt_mm.c:2203`).

## Plan

1. **Core** (done): `CallFifo`, `CallQueue`, `MappedBuffers`, `GLContexts`, `RenderWindow`, proofs of the FIFO.
2. **More of the system** (done): `GuestAttach` with the display timer, deaths in `RenderWindow`,
   pbuffers in `GLContexts`, `GlideLfb` with `FrameBuffer`, `ClientArrays`.
3. **Proofs** of every invariant that a run checks and of the safety of both refinements (done).
   Next: tighter forms of `RoomSuffices` and `PlaceSuffices`, in terms of what is mapped at one time, for programs that
   unmap in the reverse order.
4. **Left**: sync objects and the Glide state list (one list by handle), the locks of Glide 2.11,
   arrays of different strides and sizes, abstract specifications for the window (one owner at a
   time) and for handles (a map to contexts).

## Not modelled

The models cover the protocol between guest and device; most of the repository is something else.
Of its lines of C more than eight in ten are Wine's Direct3D (`wined3d-windows`, vendored), and most
of `wrapgl32.c`, `mglfuncs.h` and the dispatch tables are stubs generated from a list of
functions, which differ in the names and sizes of arguments: one definition with the constants
`Funcs`, `NumArgs`, `HeadBytes`, `BodyBytes` stands for all of them. So the lines that the models
stand for are few against the size of the tree, and stay so however much of the protocol is added.

Further left out: what each API function does in the library, and drawing (`mesagl_blit.c`); sync objects, the Glide
state list and Glide textures (`guTex*`, 3DF files); Glide programs that die; the variants of the context module for Windows and
SDL; scaling and cursors; WHPX; the guest's drivers and code patches (`fxlib`, `drv`), the DOS
wrappers; threads of a guest program that call at the same time (the wrappers take no lock).
`PROJECT.json` gives the reason for each component.
