# Verification of the qemu-3dfx pass-through

qemu-3dfx lets a Windows (or DOS) guest use the host's OpenGL and Glide.  A DLL
in the guest (`wrappers/`) stands in for `opengl32.dll` or `glide2x.dll`, a
device in QEMU (`qemu-0/hw/3dfx`, `qemu-1/hw/mesa`) makes the calls on the host,
and between them lie a page of registers that trap and a piece of shared memory
that does not.  This directory holds TLA+ models of that machinery, the TLC
runs that check them on small instances, and TLAPS proofs for every instance.

## 1. Inventory

| Part | Where | State it keeps | Operations |
|---|---|---|---|
| Mesa call FIFO | `wrapgl32.c` (`fifoAddEntry`, `fifoAddData`, `FIFO_GLFUNC`, `FIFO_FLUSH`), `mesapt_mm.c` (`processFifo`, `mesapt_write`) | `mfifo[0]`, `mdata[0]` and the words behind them | queue a call, add its data, flush, drain, trap with an answer |
| Mesa session | `wrapgl32.c` (`mgl*Context`, `wglSetPixelFormat`, `DllMain`, `CallWndProc`), `mesapt_mm.c` (registers 0xFBC, 0xFD8-0xFFC) | guest: `currPixFmt`, `currDC`, `currGLRC`, `level`, the hook; host: `mglContext`, `mglCntxCurrent`, `dispTimer`, `crashRC`; shared: `mfifo[1]` (trap address), `mdata[1]` (reference count) | create, bind, delete, pixel format, load, unload, activate |
| Client vertex arrays | `wrapgl32.c:140-382`, `mesapt_mm.c:97-534`, `mglvarry.c` | `vtxArry` twice, once on each side | pointer, enable, draw (push here, take there), reset |
| Mapped uploads | `wrapgl32.c:620-818` | slots, staging memory, tracked bindings | map, flush range, unmap, bind, delete, abandon |
| Mapped buffers | `mglmapbo.c`, `mesapt_mm.c` | table of buffer objects, `szUsedBuf`, guest regions | map, unmap, keep, remove |
| Sync objects | `mglmapbo.c:55-127` | table of 32-bit names for host pointers | add, look up, delete |
| Call data | `mesapt_mm.c` (`processArgs`, `processFRet`), `szgldata.c` | `datacb` of the call at hand | size of the data of each function |
| Host contexts | `mglcntx_linux.c`, `mglcntx_mingw.c`, `mglcntx_sdlgl.c` | `ctx[]`, remembered current context, window | create, bind, restore, activate |
| Presentation | `mesagl_blit.c`, `mesagl_frametap.c` | scaled drawable, frame tap page | blit, tap |
| Flight recorder | `mesagl_flight.c` | ring of events | record, flush |
| Glide FIFO and session | `glidedll.c`, `glidept_mm.c`, `glidewnd.c`, `gllstbuf.c` | as the Mesa FIFO; `grGlidePresent`, `initDLL`, the OpenGLide context | `gr*` calls, open, close, shutdown, load, unload |
| Glide linear frame buffer | `glidedll.c`, `glidept_mm.c` | `lock[2]`, `lfbPtr`, `lfb_dirty`, copies in shared memory, mapped pages | `grLfbLock`, `grLfbUnlock`, `grLfbWriteRegion`, swap |
| Window hand-over | `00-qemu111x-mesa-glide.patch` (`ui/sdl2.c`), `mglcntx_linux.c`, `glidewnd.c` | `scon_cb`, one timer, two devices' callbacks | prepare, stat, release, take over, Ctrl+Alt+R |
| ICD driver | `icddrv.c` | list of context handles | `Drv*` over `mgl*` |
| Guest helpers | `wrappers/fxlib` | patched import tables | hooks, timers |

How they interact.  An OpenGL call in the guest writes its data behind
`mdata[0]` and its function number and arguments behind `mfifo[0]`, and returns.
When it has an answer, or there is no room, it writes its number to a register
instead; that traps, and while the vCPU waits the host runs every queued call,
then the trapped one, and declares both streams empty.  Every other register
that matters (swap, create, bind, delete, pixel format, activate, flush) drains
the FIFO the same way before it acts, **if** the host has a current context.
Each side counts words by tables of its own; the stream itself has no lengths.
Buffers, arrays, sync objects and uploads are layered on top of this stream:
their guest half decides what is pushed and their host half what is taken.

What is hard:

- two streams that only stay in step because two programs compute the same
  lengths;
- the reset of both indices by every trap, against local copies of them;
- processes that die anywhere and leave the memory, a reference count and a
  host context to the next process;
- a host that may fail to create or bind a context while the wrapper believes it
  has one;
- limits tested with `<`, `>=` and in different places, before or after the data
  is written;
- one window for the 2D screen, an OpenGL and a Glide program, handed over by
  timers while the guest polls, gives up or dies;
- copies of the frame buffer that are fetched and put back whole, around drawing
  that goes on.

What makes each part correct: the FIFO runs the application's calls in order,
once, each with its own bytes, whatever overflows, dies or is switched; the
session keeps guest and host agreed on whether a context is current; client
arrays push exactly what the host takes; a mapped upload reaches the buffer that
was bound when it was mapped; a mapped buffer's memory is nobody else's while it
is mapped; a sync name stands for one fence; a Glide frame buffer lock shows the
locked buffer and loses nothing drawn into it; the window is never taken from a
program that draws into it, and comes back to the 2D screen when none does.

## 2. Plan

| Step | Modules | State |
|---|---|---|
| the call FIFO | `DirectCalls`, `CallFifo`, `MC_CallFifo`, `CallFifo_proofs` | done |
| buffer maps kept in the guest | `MappedUploads`, `MC_MappedUploads`, `MappedUploads_proofs` | done |
| buffer maps on the host | `HostMaps`, `MC_HostMaps`, `HostMaps_proofs` | done |
| client vertex arrays | `ClientArrays`, `MC_ClientArrays`, `ClientArrays_proofs` | done |
| what each call pushes, takes and answers | `DataSizes`, `PixelCalls`, `CallData`, `MC_CallData`, `CallData_proofs` | done but for section 6 |
| the Glide FIFO and session | `GlideCalls`, `MC_GlideCalls`, `GlideCalls_proofs` | done |
| the Glide frame buffer | `GlideLfb`, `MC_GlideLfb`, `GlideLfb_proofs` | done but for section 6 |
| the window | `WindowShare`, `WindowShare_proofs` | done |

How they compose.  `CallFifo` shows that queued calls run in order, each with its own
words, if both sides count the same words.  `CallData` and `ClientArrays` show
for which functions they do, and take the order from `CallFifo`: their FIFO is a
sequence.  `MappedUploads` takes from it that a queued upload arrives.
`GlideCalls` has the abstract specification, `DirectCalls`, in common with
`CallFifo`.  `WindowShare` takes from the FIFO modules only that register writes
come one after the other.

## 3. The modules

**`DirectCalls`** is the abstract promise: calls are posted (no answer) or asked
(answer); the host runs the oldest one that has not run; whoever asks goes on
only when everything has run; a death may lose calls until the next process has
started, never later.

**`CallFifo`** is the code.  One variable per piece of shared, guest and host
state, named after it.

| Model | Code |
|---|---|
| `fifo0`, `mfifo`, `data0`, `mdata` | `mfifo[0]`, the FIFO words, `mdata[0]`, the data words; a data word is known by the call that wrote it |
| `warm`, `refs` | `mfifo[1]` holds the trap address; `mdata[1]` |
| `gpc`, `gcall`, `gj`, `gleft` | where the rendering thread is in an OpenGL stub, and its locals |
| `todo` | register writes a wgl function still has to make |
| `hpc`, `trap`, `hi`, `hj` | where `mesapt_write` is, the register, `i` and `j` of `processFifo` |
| `BeginCall`, `PrepFlush`/`PrepNoFlush`, `fifoAddData_*`, `fifoAddEntry_*`, `TrapCall` | one stub: room, data, then the entry or the trap |
| `RegWrite` and the wgl actions | `mglCreateContext`, `mglMakeCurrent`, `mglDeleteContext`, `wglSetPixelFormat`, `wglCreateContextAttribsARB`, `wglSwapBuffers` and the like |
| `Attach`, `Detach*`, `Kill`, `Activate` | `DllMain`, death of the process, `CallWndProc` |
| `Trap`, `processFifo_*`, `Act*` | `mesapt_write`: the drain, then what the register does, then the reset |

Data is abstracted: a call is the words each side counts for it (`Args` and
`Pushed` for the guest, `HostArgs` and `Taken` for the host); `CallData` says where
those numbers come from.  Control is not:
`fifoAddEntry` and `fifoAddData` are two steps each, because their local copy of
the index is what an interrupting trap makes stale.  A guest step needs
`hpc = "ready"`: the vCPU that trapped stands still, and the process is pinned to
one vCPU.  The words of an entry that the host reads as a function number when it
is out of step (`processFifo_Misread`) may name any function.

`processFifo` subtracts `j` from `mdata[0]`; its callers compare the rest with the
trapped call's data for the "FIFO data leak" message and then set `mdata[0]` to
its start.  The model keeps the reset and states the message's condition as
`DataAllTaken`.

Four modes are constants, so that what the FIFO needs is explicit:
`StrayCalls` (calls without a current context), `HostMayFail`,
`RenderThreadOwnsWindow`, `DiesInDetach`.  `Unconditional` are the calls that the
host runs without a context too (`glDebugMessageInsertARB`); `misread` has one, with
a host that fails.

**`MappedUploads`** is the write-only map that never leaves the guest
(`wrapgl32.c:620-816` and the stubs that call it).  Three parties share the state:

| Model | Code |
|---|---|
| `current`, `bound`, `vao`, `elem`, `alive`, `data`, `hostMap` | OpenGL (external): contexts, bindings, the element array binding inside the vertex array, what buffers hold, which are mapped on the host |
| `tracked` | `trackedBindings`, a function of the target; its size limit is `TrackedMax` |
| `slots` | `mappedUploads` with their staging memory |
| `map`, `wrote`, `promised`, `named` | the application: its maps, what it has written, what OpenGL then promises, the targets it has bound itself |
| `BindBuffer`, `BindBufferNV`, `BindBufferOffset`, `BindVertexArray`, `DeleteVertexArrays`, `MakeCurrent`, `DeleteBuffers` | the stubs of these names, with `binding_note`, `binding_forget`, `binding_forget_all`, `mapped_upload_forget_buffers` |
| `MapInGuest`, `MapOnHost`, `MapBuffer`, `FlushMappedBufferRange`, `UnmapInGuest`, `UnmapOnHost` | `glMapBufferRange` (both outcomes, `VirtualAlloc` failing included), `glMapBuffer`, the flush and `glUnmapBuffer` |

An upload takes effect when it is queued: that queued calls run in order with
their own data is `CallFifo`'s theorem.  A byte in a range handed back that the
application did not write counts as undefined, which is what the comment at
`wrapgl32.c:728` takes OpenGL to say.  Invalidating the whole buffer is treated as
invalidating the range, the stronger promise.  Four constants say what the
application does: `RebindsToMap`, `RebindsToUnmap` (it calls `glBindBuffer` first),
`Respecifies` (`glBufferData` on a mapped buffer), `UntrackedBinds`.

**`HostMaps`** is what the host does with the maps that reach it: the list of
`mglmapbo.c` (`pbufo`, in list order, because `MapBufObjGpa` looks only at the
entries before), `szUsedBuf`, the kept region of `mglcntx_linux.c` (`kept`) and the
regions KVM has (`kvm`, external).  `MapBuffer` and `UnmapBuffer` are `processArgs`,
the call and `processFRet` in one step, since the vCPU waits.  Addresses are small
numbers, but pages, `ALIGNBO`, the window and the texture area are computed as the
code does.  A one-copy mapping's `gpa` is a host address (from
`FbtAddress`, which is `fbtm_ptr`, on), far above the window, and the list does not
tell it from a place in the window.  A setting says how zero copy is switched on
(`accelAll`, `accelUnpack`) and whether a region is kept (`keep`, `FVM3DX_BUFO_KEEP`); the
initial state picks one.  The application binds a buffer right before it maps,
flushes or unmaps it, because `BufIdx` is the buffer bound last on any target.

**`ClientArrays`** is the client array state on both sides and what a draw sends.

| Model | Code |
|---|---|
| `guest`, `host` | `vtxArry`, `Interleaved`, `arrayBuf`, `elemArryBuf`, `vao`, `texUnit` in `wrapgl32.c` and in `MesaPTState` |
| `gl` | OpenGL (external): the client arrays of the host's context, the slices in the vertex cache |
| `fifo`, `data` | the calls queued, and the words the draws among them will read |
| `mgl` | `mglContext`, `mglCntxCurrent`, `clientArraysResetPending` |
| `glClientState`, `glPointer`, `glVertexAttrib*`, `glInterleavedArrays`, `glClientActiveTexture`, `glBindBuffer`, `glDeleteBuffers`, `glBindVertexArray`, `glDeleteVertexArrays` | the stubs: the guest's record first, then the queue |
| `glDraw`, `PrepDisable*`, `FinishDraw` | `PrepVertexArray` (an array whose memory has gone is switched off with calls of its own), then `PushVertexArray` |
| `HostCall` | `processArgs` for these calls, with the host's own copy of the same functions |
| `SetPixelFormat`, `mglCreateContext`, `wglCreateContextAttribsARB`, `mglMakeCurrent`, `Release`, `mglDeleteContext`, `Load`, `Unload`, `Die` | what resets which record, and the answer of 0xFFC |

A slice of an array stands for its bytes; size, type and stride travel with the
pointer.  Which of two arrays comes first is `Order`, read from the push function, and
`Slices` is the sequence a draw puts into the data.

**`WindowShare`** is QEMU's one window.

| Model | Code |
|---|---|
| `s` | `scon_cb` in `ui/sdl2.c` (of the patch): request, takeover, callback, timer; the window, its GL context and its 2D renderer |
| `m` | OpenGL: the program's progress, `win`, the remembered drawable, `mesa_on_glide`'s counterpart, `dispTimer`, the deferred deactivation |
| `g` | Glide: the program's progress, `GlideWindow`, OpenGLide's context |
| `thread` | which context is current on the vCPU thread, on which drawable |
| `sched_wndproc` | the timer that serves a request, all its branches |
| `dispTimerProc`, `deactivateOneshot`, `deactivateGuiRefOneshot` | the watchdog and the delayed deactivation |
| `wglPixelFormat`, `ChoosePolls`, `mglMakeCurrent`, `MGLSwapBuffers`/`SwapEnds`, `MesaReleases`, `mglDeleteContext`, `MesaUnload`, `MesaDies` | the register handlers of `mesapt_mm.c` with `mglcntx_linux.c` |
| `grSstWinOpen`/`OpenPolls`, `GlideDraws`, `grSstControl`, `grSstWinClose`/`ClosePolls`, `GlideUnload` | those of `glidept_mm.c` with `glidewnd.c` |
| `sdl_return_display` | Ctrl+Alt+R |

A handler holds the big lock and is one step; a swap lets go of it and is two.
Each drawable is "live" until the GUI destroys its window.  `upset` is a history
variable: the key pressed, a request overwritten before it was served, or the key
pressed in the middle of something, whichever is the worst so far; the properties
say which of these they exclude.

**`GlideCalls`** is `glidedll.c` and `glidept_mm.c`, the other FIFO: the wrapper
never flushes, the call without room traps itself; a library that finds its own
trap address in the memory joins what is there and writes no register.  Any number of
processes have the library at a time, load it, fail to, unload it and die; their `DllMain`
is cut where the shared memory or the device changes (`Stages`), since a process
may die there.  One of them uses Glide, from its `grGlideInit` to its `grGlideShutdown`.

| Model | Code |
|---|---|
| `fifo0`, `queue`, `data0`, `mdata`, `pt0`, `refs` | `mfifo[0]` and the entries, `mdata[0]` and the words, `mfifo[1]`, `mdata[1]` |
| `procs` | the live processes: how far each is in `DllMain`, and where it has `ptm` mapped |
| `user`, `gpc`, `gcall`, `todo`, `present`, `wnd` | the one that uses Glide: in which stub, `grGlidePresent`, `grGlideWnd` |
| `deaths` | (not in the code) the dead that `mdata[1]` still counts |
| `hpc`, `trap`, `hj`, `initDLL`, `crashRC`, `context` | the device |
| `fifoAddData`, `fifoAddEntry`, `Trap` | a stub; `FifoHasRoom` is the test in `FIFO_GRFUNC` |
| `processFifo_Entry`, `processFifo_End`, `Act`, `Return` | `glidept_write`: drain, the function, the reset |
| `AttachFinds`, `AttachJoins` | `DLL_PROCESS_ATTACH` with its own address in `mfifo[1]`, and `(*refcnt)++` |
| `AttachMaps`, `AttachCounts`, `AttachLoads` | the same without: `mfifo[1]` and the indices, `mdata[1] = 1`, the register write and its answer |
| `DetachNotLast`, `DetachLast`, `DetachShutdown`, `DetachUnloads`, `DetachClears` | `DLL_PROCESS_DETACH`: the count, `grGlideShutdown`, the register write, `mfifo[1] = 0` |
| `Dies` | death between two of those steps, or anywhere outside a trap |

**`GlideLfb`** is `grLfbLock` and `grLfbUnlock` under every choice of the options
that change how a locked buffer is reached.  `host` are the real buffers, `glfb`
the two copies, `lock`, `lfbPtr`, `grBuffer`, `lfb_dirty`, `mbufo` the device,
`held` the program, and `truth` what a real board's buffers would hold, with 0 where
Glide leaves it open (a buffer after a swap).  Options are safe for some programs
and not for others, so the initial state picks options together with what the
program does (`Use`), and `Safe` says which pairs work: `redraws` (draws between
locking and swapping), `both` (reads and writes under locks at once), `swaps` (swaps
with a write lock held), `refused` (the host's Glide refuses a lock).

**`DataSizes`**, **`PixelCalls`** and **`CallData`** put each call with data together
three times: `Chunks` is what the stub in `wrapgl32.c` copies, `processArgs` what the
host says was brought and where its pointers lead, `doMesaFunc` which pointers
OpenGL gets; `fifoOutData` is what the stub copies back.  Functions with one
pattern are a family: `f` the name without number and type, `c` components, `t`
the type, `n` the count.  `parg` is kept from call to call as in the code.  Pixels
(`PixelCalls`) go through the texture area, and their size depends on three records
of the pixel store (`gpix`, `hpix`, `store`).

Counts, lengths of names, widths and row lengths of images, sizes and the area are
constants, and so are the calls made.  On some calls the sides do not
agree; `CallData` lists them in four sets, by what goes wrong (`OutOfStep`,
`WrongPointers`, `WrongAnswers`, `WrongPixels`), and `Agreed` are the rest.  The sets are
definitions over the constants, not lists of cases: `Cuts`, for instance, is the condition
on an image and a row length, for any image and any row length.

Definitions named `Wrong...` are faults put into the model on purpose, one for
each property, to see that the property notices them.

## 4. The runs

| Run | Shows |
|---|---|
| `calls` | `TypeOK`, `OwnData`, `DataAllTaken`, `InArea`, `UploadFits` and the refinement `IsDirect` for all kinds of calls mixed with context switches, activation, reloading, death and a successor on a warm FIFO |
| `misread` | `TrapReturns`: even out of step and with a failing host every trap ends |
| `maps` | `DataAsPromised`, `OwnSlot`, `TrackedTrue` for two buffers, two contexts, two vertex arrays, respecified, deleted and reused names |
| `ranges` | `TypeOK`, `DataAsPromised` for every range of a three-cell buffer whose staging holds two, with respecification and untracked binds |
| `regions` | `TypeOK`, `MeetInPartPages`, `RegionsAccounted`, `PointerRight`, `OwnArea`, `StagingFreed` for zero-copy and one-copy maps that begin and end inside pages, moved where they collide, refused ones included, in three settings |
| `arrays` | `TypeOK`; `SameRecord`: guest and host agree whenever the queue is empty; `StreamAligned`: the host takes the slices that were sent; `DrawReadsSent`: OpenGL draws from them and nothing else |
| `window` | `TypeOK`; `OwnCallback` (never OpenGL's, never NULL, while Glide waits), `GlideKeepsWindow`, `Watched` (a claimed window has a watchdog), `WaitsEnd`, `PictureReturns` |
| `glide` | `TypeOK`, `InArea`, `RefsCount` and the refinement `GlideIsDirect` with three processes, together or one after another, that may each fail to load the library, use Glide, unload or die |
| `lfb` | `TypeOK`; `FrameTrue`: nothing drawn or written is lost; `ReadsTrue`: a read lock shows the buffer |
| `data` | `TypeOK` (doubles are aligned), `InStep`, `OwnPointers`, `StringsWhole`, `AnswerRight` for all functions on which the sides agree |
| `replaced` (violated) | `TakesLive`: a window is rebuilt under the Glide program that opened on it |
| `sizes` (violated) | `RegionsDisjoint` with sizes that are not whole pages |

### Bounds

- `calls`, `misread`: a FIFO of five words, a data area of six (and two beyond it),
  entries of two and three words, data of none, two and four: both overflow within
  three calls (`MaxCalls`), which is a queue with a predecessor, a call that
  overflows and one behind it.  `MaxRefs = 2` lets a dead process's reference meet
  a live process.
- `maps`, `ranges`: one slot, so that a second map finds none free; `MaxSteps = 4`
  maps, writes and respecifications, which also gives every write its own value.  Two
  buffers are enough to confuse one with the other.  `maps` has one-cell buffers
  and `ranges` three cells, staging of two and one context: what goes wrong with
  bindings does not depend on ranges, and the other way round.
- `regions`: pages of 4, a window and a texture area of 64 and 24; addresses that begin
  inside a page, of which two share a page and two collide modulo the window, and 0 for a
  map that is refused; a size of a page and one of a page and a half.  Three buffers
  and three maps: three live regions, so that the third finds the other two, or two and
  the kept one.  `MaxMixed = 2`: no more at a time where one-copy mappings mix in (below).
- `arrays`: a conventional array, a texture coordinate in two units, attributes 6
  (with an array of its own) and 9 (which the records keep as the second unit's
  texture coordinate), one pointer gone bad, a queue
  of two calls and four calls in all: switch, point, reset or bind, draw.
- `window`: no bound; the state is finite.
- `glide`: a FIFO of six words, data of four, six calls and three processes: open,
  overflow and close; two that live while a third joins, one that lives with two deaths to
  be taken back, and a late query with one alive and one dead.
- `lfb`: two pixels (one that is written and one that must survive), four
  writes or refused locks.
- `data`: one or two calls with their settings (`MaxWeight = 4`: a call weighs two, a
  setting one), so that a wrong size shifts a successor and a stale pointer
  has a predecessor; counts of 1 to 3, names of 1, 2, 7, 8, 9 and 16 letters around
  the rounding to 8, row lengths of 0 and 8, images of 1, 3 and 4 pixels a row that fit an
  area of 256 and of 70 that may not, buffers of 5, 16 and 300 bytes.  `Calls` is
  `Agreed`.

`CHECK_DEADLOCK FALSE` where an application may stop calling for good (`calls`,
`misread`, `arrays`, `glide`, `data`) or the rest of the program only polls, which
changes nothing (`window`).  In the others the application can always bind or
draw, or its bound leaves a read, so deadlock is checked.

### Fairness

- `CallFifo`: `WF_vars(Host)`.  The vCPU thread that executes `mesapt_write` runs it
  to the end; nothing is assumed of the application.  `IsDirect` includes the
  liveness half of `DirectCalls` (whoever asks is answered), `misread` that the
  drain of garbage ends.
- `GlideCalls`: `WF_vars(Device)`, for the same reason.
- `WindowShare`: weak fairness of the main loop's timers, of the polls of a program
  that waits (the wrappers read the register in a loop) and of the end of a swap
  (the refresh it waits for comes).  Nothing makes a program open, close, die or
  draw.

The other modules have no liveness properties, every operation being one step.

### What the passing runs take for granted

Each condition is a constant, a set of calls in `CallData` or a guard, and each is needed:
changing it makes TLC find a behaviour that breaks the property.  Where the property is not
one a run checks, its definition is in the module.

| Change | Breaks | Because |
|---|---|---|
| `calls`: `Calls = {"fence", "upload"}`, `MaxFifo` and `MaxData` 10, `DataTop` 12, `MaxCalls` 2 | `UploadArrives` | `glSetFenceNV`, `glFinishObjectAPPLE` and `glTextureBufferEXT` queue an argument less (`wrapgl32.c:10526`, `:3821`, `:11537`) than `mglfptbl.h:2096`, `:591`, `:2314` count |
| the same with `"clear"` for `"fence"` | `UploadArrives` | `glClearBuffer` of depth or stencil pushes a padded word (`wrapgl32.c:1570`) and the host takes one (`mesapt_mm.c:1015-1020`) |
| the same with `"getloc"`, in `Sync` and `StrayCalls` | `UploadArrives` | a call without a current context is dropped and its data stays (`mesapt_mm.c:2798-2801`) |
| the same with `"vertex"`, `RenderThreadOwnsWindow = FALSE` | `UploadArrives` | the activation hook's trap resets the FIFO under the local index of a rendering thread (`wrapgl32.c:17895`) |
| `calls`: `HostMayFail = TRUE` | `UploadFits` | after a context the host failed to bind, a flush makes no room (`mesapt_mm.c:2804`) |
| `calls`: `DiesInDetach = TRUE` | `IsDirect` | a process that dies in its own detach leaves count 0 and a warm FIFO (`wrapgl32.c:18047`) |
| `maps`: `RebindsToUnmap = FALSE` | `DataAsPromised` | an unmap through a binding the wrapper has forgotten goes to the host, and the bytes stay (`wrapgl32.c:12328`) |
| `maps`: `UntrackedBinds = {"element"}` | `DataAsPromised` | `glBindBufferOffset` changes the binding and not the table (`wrapgl32.c:1064-1071`) |
| `ranges`: `TrackedMax = 1` | `DataAsPromised` | a target that finds the table full is not tracked, however often it is bound (`wrapgl32.c:665-674`) |
| `maps`: `Abandoned` taken out of `MayMap` (a buffer respecified while mapped is bound before it is mapped again) | `DataAsPromised` | a host map through a forgotten binding does not abandon the old slot (`wrapgl32.c:738-743`) |
| `regions`: checking `PointerExact` | `PointerExact` | a mapping that is moved gets a place without the offset its host address has in its page (`mglmapbo.c:225-228`), and nothing puts it back (`mglcntx_linux.c:152-154`): the pointer misses the first byte |
| `regions`: `Hvas = {32, 96}`, `Sizes = {2}` | `RegionsAccounted` | mappings that fill no page may be given the same page, and KVM knows regions by place and pages |
| `regions`: `MbufoSize = 16` | `MeetInPartPages` | no room: `gpa` falls back to 0, on top of another mapping (`mglmapbo.c:224`) |
| `regions`: `MaxMixed = 3` | `RegionsAccounted`, `MeetInPartPages` | after a one-copy mapping `hi` lies above the window, so that there is room below the others only; two refused maps, whose place is 0, leave none |
| `regions`: `MbufoSize = 32`, `Hvas = {0, 28}`, `Sizes = {4}` | `PointerRight` | after a one-copy mapping `lo` and `hi` lie above the window, and a mapping that reaches its last page is moved to `MBUFO_SIZE - 1 - size`, where no page begins (`mglmapbo.c:211`, `:222-226`) |
| `regions`: `DeletesMapped = TRUE` | `StagingFreed`, `RegionsAccounted` | a deleted buffer stays in the list with its region and its staging (`mesapt_mm.c:2363`) |
| `regions`: `FlushesElsewhere = TRUE` | `RegionsAccounted`, `OwnArea` | the flush changes the target of the mapping, and with it what the unmap takes away (`mesapt_mm.c:1871`) |
| `regions`: `EndsMapped = TRUE` | `RegionsAccounted`, `MeetInPartPages` | the list is emptied and the region stays (`mesapt_mm.c:2728`) |
| `regions`: `FbtSize = 12`, with `MaxMaps = 5`; with `MaxMaps = 4` | `InsideTextureArea`; `OwnArea` | staging is given back only from the top, so alternating maps walk out of the texture area (`mesapt_mm.c:2458`, `977-980`, `2444`) |
| `arrays`: `FormatInContext = TRUE` | `AfreshAnswered` | a pixel format set with a context kept makes the host start afresh without saying so (`mglcntx_linux.c:595-613`, `mesapt_mm.c:2824-2828`, `wrapgl32.c:17534`) |
| `arrays`: `Names = {"Weight"}` | `DrawReadsSent` | `MesaResetClientArrays` leaves `GL_WEIGHT_ARRAY_ARB` on in a context that is used again |
| `arrays`: `DiesInContext = TRUE` | `SameRecord` | the next process starts afresh, the host's record does not until a context is made |
| `window`: `OneThread = FALSE` | `OwnCallback` | OpenGL prepares its window while Glide waits for its own |
| `glide`: `DataFirst = TRUE` | `GlideIsDirect` | a function with data before `grGlideInit` leaves it in the area (`glidedll.c:113-119`) |
| `glide`: `QueriesLate = TRUE` | `RefsCount` | a board queried more than three seconds after the last query takes off a process that lives, when there are two (`glidept_mm.c:243-246`), and the next to unload the library unloads the host's |
| `glide`: `DiesIn = {"mapped"}`, or `"counted"`, `"failed"` | `RefsCount` | a process that dies between `glidedll.c:117` and the answer to its register write at `:1123`, or with a load that failed, leaves an address to join and no host library |
| `glide`: `DiesIn = {"quitting"}` or `{"unloaded"}` | `RefsCount` | the same between the unloading at `:1136` and `mfifo[1] = 0`, and after a failed load |
| `glide`: `DllMainsOverlap = TRUE` | `RefsCount` | a library that finds the address before the other has counted itself counts, and is then overwritten with 1 (`glidedll.c:1106`, `:1110`); one that leaves unloads what another has just joined |
| `glide`: `AddressesDiffer = TRUE` | `RefsCount` | a library mapped elsewhere does not know the address for its own and sets the memory up under the process that lives (`glidedll.c:113-117`) |
| `glide`: checking `OwnContext` | `OwnContext` | a library that joins after a death writes no register, so the device keeps the dead process's context, against `glidept_mm.c:942-945` |
| `lfb`: `redraws` without `lockDirty` | `FrameTrue`, `ReadsTrue` | the copy fetched before the drawing is put back over it |
| `lfb`: `merge` with `lockDirty` or `redraws` | the same | the copy put back at the swap is older than the drawing |
| `lfb`: `swaps` or `lockDirty` with `both` | the same | the second lock fetches over what the first has written |
| `lfb`: `mapBufo` with `both` | the same | the read lock's region replaces the writable one |
| `lfb`: `refused` without `lfbHandler` or `mapBufo` | the same | the device counts a refused lock as held, and the next swap puts a stale copy back |
| `data`: `Calls` with `OutOfStep` | `InStep` | `glTexCoord1*v`, `glVertexAttribs*vNV`, `glRequestResidentProgramsNV` and `glColorTableParameter*` have no case in `processArgs`; `glClearBuffer` of depth or stencil is a word short; `glTransformFeedbackVaryings` measures `varys[i]+1` (`wrapgl32.c:11767`, `:11776`), which is short for names of 8k or 8k + 1 letters; `glShaderSourceARB` leaves 4n bytes where the host looks past 8n |
| `data`: with `WrongPointers` | `OwnPointers`, `StringsWhole` | `glDrawElementsIndirect` sets `parg[1]` (`mesapt_mm.c:1367-1371`) and `doMesaFunc` takes `parg[2]` (`mesagl_impl.c:869`); `glRect*v` sends an element per corner, which is in step by rounding and half of what `double`s need; `glClearBufferData` sends eight bytes though a pixel may have sixteen; `glBindFragDataLocationIndexed` copies the wrong argument (`wrapgl32.c:1106`); several names in `glTransformFeedbackVaryings`; the offset of the lengths in `glShaderSource` with several strings, and of the list with three |
| `data`: with `WrongAnswers` | `AnswerRight` | `glAreTexturesResident` copies 4n bytes for n booleans; `glGet*InfoLog` copies from the start of the answer; `glGetActiveUniform*` copies whole words past the caller's buffer |
| `data`: with `WrongPixels` | `OwnPointers`, `AnswerRight` | rows that OpenGL pads; `GL_PACK_ROW_LENGTH`; `glPixelStoref`, which neither side notes (`wrapgl32.c:8780`); `glBitmap` rows; images wider than the row length, a sub-image counted with the pixels it skips; whatever is longer than the area |

The last four rows are exact for the run's constants: of the 202 calls not in `Agreed`,
each of the 199 that are not settings, made alone or after settings, violates the property
of its row, and each of the three settings makes a later call on which the sides
otherwise agree do so.

`UploadArrives` states what `wrapgl32.c:620-621` says of uploads.

## 5. The proofs

`CallFifo_proofs!TypeCorrect`: `Spec => []TypeOK` for every call table, layout and
mode.  `TypeOK` says more than types: `mfifo[0]` is an index of the FIFO and the
entry about to be stored fits before the data area, so it is where
`FIFO_GLFUNC`'s test is used.  One lemma per part of the state.

`CallFifo_proofs!CallsInOrder`: `Spec => [](OwnData /\ InArea)` under
`Disciplined`: both sides count the same words (`StreamAgrees`), a call's data fits
(`PushesFit`), no call without a context, no failing host, the hook in the
rendering thread.  These are exactly the conditions that section 4 drops one at
a time.  Dying inside the detach is *not* excluded.  The number of calls, of
processes and the layout are arbitrary.

`OwnData` speaks of calls already run and is not inductive.  The strengthening is

- `QueueInv`: the queued calls are those between `Len(run)` and the last one sent,
  their entries and their data back to back from where the host will look;
- `MemoryInv`: the words of each still hold what was stored;
- `CallInv`: how far the call under way has come, and that a trapped call's data
  lies behind the queue's;
- `OrphanInv`: data beyond the queue without a call under way belongs to a dead
  process, whose context the host still has and whose reference still counts; it
  is gone before the next process has a context;
- `SessionInv`: the wrapper's idea of its context against the host's, between and
  during register writes.

`SessionInv` is inductive by itself; the rest follow together.  Steps that leave
the queue alone go through the frame lemmas `QueueFrame`, `QuietFrame` and
`TrapFrame`; there is one lemma per remaining group of actions.

The last part of `CallFifo_proofs` draws the consequences, all under `Disciplined`:

- `UploadsQueued`: `Spec => []UploadFits`, if an upload has no answer and its entry fits
  an empty FIFO (`UploadsPosted`; `glBufferSubData` is such a call).  `UploadInv` adds
  the room for the entry, which nothing uses up between `mapped_upload_queue`'s look
  and the entry's storing: a flush in between leaves both areas empty.
- `DataTaken`: `Spec => []DataAllTaken`.  Needed besides: the call under way is newer
  than all handed over (`NewerInv`), so what a dead process has left of its call is
  data of none of them (`LeftoverInv`); the leftovers stay as they are until the next
  drain, or an attach to a cold FIFO, drops them.
- `StreamsInArea`: `Spec => []InArea`.
- `FifoIsDirect`: the safety half of `IsDirect`, if also `DiesInDetach = FALSE`.  `Sent`,
  `Asked` and `Alive` map the state; an entry stored is `Post`, a trapped call `Ask`, any
  other write that drains `Barrier`, each pass of `processFifo`'s loop and the trapped
  call `Run`, the end of a trap `Answer`, all else a stutter.  `Answer` asks that
  everything sent has run.  After a drain it has; where nothing is drained, `LeftInv`
  says that nothing was queued: whatever is in the queue has a context on the host and
  somebody who drains it before that goes, namely the process that has the context
  current, a wgl function with a draining write ahead, or a dead process's reference.  A
  process that dies inside its detach has given its reference back and not drained;
  section 4 shows `IsDirect` fail then.

`GlideCalls_proofs!RefsCounted`: `Spec => []RefsCount` for any functions and layout and any
number of processes that live together, join, leave, fail to load and die.  It needs
`AddressAssumption` (no process maps the device at 0, which is what `DllMain` takes for an
empty FIFO) and `Orderly`, which says of the constants what the code relies on without
looking: one address for all, no `DllMain` within another's, no death inside one where it
would cut what belongs together, and no late query that has nobody dead to take back; section 4 has a
behaviour that breaks `RefsCount` for each.  The invariant, `LibraryInv`, is that of two
processes one is always `up`: so whoever sets the memory up or takes it down is alone.
`GlideCalls_proofs!AreasKept`:
`Spec => []InArea` if `DataFirst = FALSE`, that is for a program that calls `grGlideInit`
before any function with data.  `fifoAddData` looks at no room, so the invariant,
`AreaInv`, is that a function with data starts below `MAX_DATA`: whoever filled the
area has trapped, and the trap has emptied it.

`GlideCalls_proofs!RunsInOrder`: the safety half of `GlideIsDirect`, under both
conditions.  Here the invariant says it as sequences: what was sent is what has run, then
the queue, then the call that traps (`SentInv`); the queue's data lies back to back from
where the device will look, and behind it the data of the call under way or what a dead
process has left, which no call with data follows (`DataInv`).  With `DataFirst = TRUE`
the next process's data comes to lie behind the leftovers, and section 4 shows
`GlideIsDirect` fail.

`GlideCalls_proofs!GlideTyped`: `Spec => []TypeOK`, under the same conditions, from the
same invariants and one for the control state.

`MappedUploads_proofs!BindingsTracked`: `Spec => []TrackedTrue` if `UntrackedBinds`
is empty; section 4 says what happens otherwise.  `BindingInv` adds the types of
the bindings, and says of a target the application has bound itself (`named`) that the
table is right about it whatever was bound behind the wrapper's back.

`MappedUploads_proofs!SlotsOwned`: `Spec => []OwnSlot`, for any number of slots, buffers
and contexts, any sizes, and whatever the application does otherwise, if
`UntrackedBinds` is empty or else buffers are bound again before they are mapped and
unmapped (`Rebinds`).  The argument: a slot is found or taken
through the tracked binding, which is the real one (`BelievedBound`); so a slot that is
begun, refused, abandoned or given up is free or belongs to the very buffer the call
is about (`TakenSlot`, `FoundThroughTarget`), and no other mapping is disturbed
(`SlotFrame`).  `SlotInv` adds the types of slots and maps.

`MappedUploads_proofs!UploadsTyped`: `Spec => []TypeOK`, unconditionally.

`MappedUploads_proofs!UploadsArrive`: `Spec => []DataAsPromised`, for any buffers, slots,
sizes, ranges and access bits, under `Careful`: `Rebinds`, a bind before a flush or
an unmap, and no more targets than the table of bindings holds (it has 16
entries).  Section 4 drops these one at a time.  `DataAsPromised` speaks of unmapped buffers only.  The
invariant, `BufferTrue`, follows each byte through the map: what the application has
written and not yet handed back is in the slot, at its place in the range; a range
that will be uploaded whole was invalidated, so nothing is promised of what was not
written; what is promised is in the buffer meanwhile; and a buffer the host has
mapped has no slot (`OneSlot`, `LeftOverFound`: one left over from an earlier map is
found and given up when the buffer is mapped again).

`HostMaps_proofs` is about any number of buffers and maps and any sizes and addresses.
The order of `pbufo` matters to `MapBufObjGpa` and to nothing else, so the proofs see the
list as the set of its entries (`Entries`; `EntryPut` and `EntryFreed` say what
insertion and removal do to it).

- `MapsTyped`: `Spec => []TypeOK`, unconditionally: whatever was mapped, a zero-copy mapping is
  placed inside the window.
- `StagingFreedAlways`: `StagingFreed`, if a buffer is unmapped before it is deleted
  (`UnmapsFirst`).  Invariant: the list holds exactly the buffers mapped (`Listed`).
- `OwnAreaAlways`: `OwnArea`, if besides no flush goes through another target
  (`FlushesInPlace`) and the staging in use fits the texture area (`StagingFits`).
  Invariant: areas are stacked (`Above`), and host and application compute the same
  place (`InStaging`).  That the staging fits is a hypothesis about the behaviour, because
  the code does not see to it: the row on `FbtSize` in section 4.
- `RegionsAccountedAlways`: `RegionsAccounted` in every mode, at any addresses, with any sizes
  and any number of mappings, if besides everything is unmapped before a context goes
  (all three are `Orderly`), each mapping fills a page (`FullPages`) and the window has room
  for what is mapped (`RoomFound`, of the behaviour: `MapBufObjGpa` has not come to its
  fallback).  Invariant, `KvmInv`: the regions standing are those of the live zero-copy
  mappings and the kept one; each lies behind or before each other up to the last page
  it fills (`Separate`), the kept one included (`KeptBeside`).  `PlacedBeside` is the
  arithmetic: the place found is below all that is mapped, or above it, or where
  the mapping came from and clear of both.
- `MeetInPartPagesAlways`: `MeetInPartPages`, on the same conditions.  With whole pages
  (`EndsWithPage`) no regions meet at all (`RegionsDisjointAlways`); without them they may, as
  `sizes` shows.
- `PointerRightAlways`: `PointerRight`, if besides no natural place is at the window's end where
  one-copy mappings mix in (`EndClear`).  The pointer leads to the first byte's page in every
  case; to the byte itself it does not where the mapping was moved and has an offset in its
  page, which is the code's doing (`PointerExact`, section 4).

`ClientArrays_proofs` is about any arrays, pointers, buffers, units and draws and any
number of calls.

- `ArraysTyped`: `Spec => []TypeOK`, unconditionally.  The FIFO's bound needs `RoomInv`, which counts
  the calls that a draw under way still has to put in to switch off arrays.
- `SameRecordAlways`: `SameRecord`, if no process dies with a context (`NoDeath`).  The
  property is about an empty queue; the invariant, `JoinInv`, says that the queued calls
  lead from the host's record to the guest's, each from where the one before it leads.
  Guest and host functions are shown to compute the same (`RunsTo`), with
  `PrepVertexArray`'s extra calls among them.  `SessionInv` covers the times without
  a context.
- `StreamAlignedAlways`: `StreamAligned`, under the same condition.  `DataInv`: the data is what the
  queued draws will take, one behind the other.
- `DrawReadsSentAlways`: `DrawReadsSent`, if besides no pixel format is set with a context
  (`NoFormat`) and the weight array is not used (`NoWeight`).  `GLInv` relates
  OpenGL to the host's record: what is on is noted, and what was given is noted as it
  was given (`Agree`).

`GlideLfb_proofs` is about any number of pixels and steps.  `LfbTyped`: `Spec => []TypeOK`,
for all options.  `FrameTrueAlways` and `ReadsTrueAlways`: `FrameTrue` and `ReadsTrue`, if
every pair of options and program meets `Safe`.  `Safe` is exact: of the pairs it excludes,
TLC finds a lost pixel or a wrong read for each (section 4 has them in groups).  The
invariant, `Known`: while a buffer is locked nothing is queued (`Holding`); what `lfb_dirty` says is so
(`Dirt`); the copy of the buffer locked last is good unless it is about to be fetched
(`CopyTrue`), and a real buffer is, once the queue is drained, unless something is to be put
back to it (`HostTrue`).

`WindowShare_proofs` holds for one thread of the guest and for several, except where
`OneThread` is named.  Its state is finite, and the run `window` covers it
for one thread; what the proofs add is the case of several threads, which no run has, and
the reasons.  The devices only change the console's request and owner, the
GUI's timer alone the window: each operator on the console gets a lemma saying so
(`SameWindow`, `SameOwner`, `Claim`, `Yields`), and the invariants use only these.

- `WindowTyped`: `Spec => []TypeOK`, unconditionally.
- `CallbackOwned`: `OwnCallback`, if `OneThread`.  `CallbackInv` extends it back to the
  request: the property starts when the window exists.  OpenGL asks for nothing
  meanwhile, because the one thread is Glide's (`OneAsks`); section 4 has what two do.
- `GlideWindowStays`: `GlideKeepsWindow`, unconditionally.  `HoldInv`: from its request on
  Glide holds the window, or is next in line with the timer set; `WindowInv`: a window with
  a context is there and can do OpenGL, so the GUI does not rebuild it.
- `ClaimWatched`: `Watched`, unconditionally.  `WatchInv`: the watchdog exists as long as a
  context has been current, so every claim finds it and sets it.

`CallData_proofs` is about any counts, lengths, widths, row lengths and sizes, any area and
any number of calls, queued and trapped in any way.

- `CallsTyped`: `Spec => []TypeOK`, unconditionally: also out of step every call's data starts
  on an even word.
- `SidesInStep`: `InStep`, if no call of `OutOfStep` is made.  `StepInv` says of the calls on
  their way (`Pending`) that each starts where the one before it ends, with the record it
  leaves (`Chained`), from where the host is to where the guest is.  What is left is one fact for
  each call, `InStepCall`: what the stub copies comes to what `processArgs` takes.  There is
  one lemma for each kind of function, by the arithmetic of rounding (`AlignedFacts`,
  `AlignedTwice` and the like).  Where chunk k lies is a recursive function of k; its facts come
  from induction over the *set* of places where they hold, which the provers can instantiate.
- `PointersOwn`, `AnswersRight`, `ListsWhole`: `OwnPointers`, `AnswerRight`, `StringsWhole`, if only
  calls of `Agreed` are made.  `DataInv` says that the three pixel records agree as far
  as sizes go (`Records`, `Agrees`), that the texture area holds the pixels of the call the guest
  waits for (a queued call has none there), and, `RanInv`, that the call run last was given what
  `processArgs` sets for it by the record the guest used.  Again each property comes down to
  one fact for each call: `PointersRight`, `CopiesRight`, `ListRight`.

The conditions are about the calls made, not about the state, and `Agreed` is as large as
it can be on the run's constants (section 4).  The proof found one case that had been left
out of them: a sub-image that skips a pixel needs a row length for both.

Only model-checked: liveness, which is out of the prover's reach.  That is the fairness half
of `IsDirect` and `GlideIsDirect`, `TrapReturns`, `WaitsEnd` and `PictureReturns`.

Every hypothesis above is met by the run that checks the property.  That an
application meets it is another matter: OpenGL asks nobody to bind a buffer again
before unmapping it, or to unmap a buffer before deleting it, and nobody sees to it that the
window has room.
The theorems say what such an application can rely on, section 4 what happens to others.

## 6. Not modelled

*Mapped buffers.*  The copies between staging and the mapping (`wrFillBufObj`,
`wrFlushBufObj`); texture transfers that use the same end of the texture area as a
mapped buffer's staging (`mesapt_mm.c:2436`, `wrapgl32.c:11292`); the Windows and SDL
variants of `MGLUpdateGuestBufo`; applications that map, flush or unmap without
binding first; named-buffer flushes.  Of the guest's maps: the option that switches
them off, and bindings changed by `glPopClientAttrib`; `glGenVertexArraysAPPLE` and
`glDeleteVertexArraysAPPLE` (`wrapgl32.c:2859`), which hand the host the guest's own pointer and
have no case in `processArgs` or `doMesaFunc`, so that no program can work with them.

*Arrays.*  `glEnable(GL_VERTEX_ATTRIB_ARRAYn_NV)`, which the host notes
(`mesapt_mm.c:2395`) and the guest does not (`wrapgl32.c:3570`); `GL_WEIGHT_ARRAY_ARB`,
which the reset leaves on.  Vertex array objects, attributes that share an array
and interleaved arrays are in the model but not in `DrawReadsSent`: OpenGL
keeps more of them than either record.

*Call data.*  Evaluator map orders beyond one dimension of strides, answers longer
than three pages, values of `szglname` entry by entry, `glGetPixelMap*`,
`glVertexWeight*EXT`, attributes restored by `glPopClientAttrib`.

*Session and window.*  Shared contexts and pbuffers (`level`,
`sharedLevelZeroHandleCount`), the trap address and its repair by 0xFE4; a Glide
process that dies with its window open (no watchdog takes that window back); the
Windows and SDL back ends; the picture itself.

*Glide.*  Two processes that both have called `grGlideInit`; the width of the count, which the
wrapper keeps in a byte and the device decrements as a word; aux locks with `LfbHandler` and `LfbNoAux` together, which return an address
in the shared copy; the 8888 write mode, which is put back whole without having been
fetched; a window closed with a lock held, which leaves `lock[]` set until
`grGlideInit`; two locks on different colour buffers, which share one copy;
a repeated lock of the same kind; the 2.11 and 3.x wrappers and the MMIO translation.

*Whole parts.*  Sync objects, presentation, the flight recorder, the ICD driver, the
guest helpers and the other wrappers: `PROJECT.json` gives the reason for each.
Generated tables (`mglfptbl.h`, `mgldefs.h`, `tokglstr.c`), demos, scripts and the
binary guest drivers have no protocol of their own; they are a large part of the
repository's lines, as are the some two thousand stubs of `wrapgl32.c` that queue
their arguments and nothing else, and which all are the one call "vertex" of
`MC_CallFifo`.
