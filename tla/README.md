# A verification of the 528-byte sector emulation

The repository makes SAS SSDs that are formatted with 528-byte sectors usable
as 512-byte disks: a patch of the Linux `sd` driver
(`kernel-patch/wvg-sd-528.patch`), scripts that bring the patch to different
kernel trees, a user-space alternative (`tools/sector528_shim.py`) and a few
tools that look at the firmware's configuration block. This directory holds
TLA+ models of those parts, TLC configurations that check them on small
instances, and proofs of the properties that matter most for every size.

## 1. The system

| Part | State it keeps | Operations | Hard because |
|---|---|---|---|
| **Emulation of a request** (patch 392-541, 563-628) | the context of a request (original data buffer, chunks), `cmd->sdb`, two global mempools, `emulate_512_from_528` of each disk | set up, pack, issue, complete, unpack, uninit | requests of all disks share the pools and interleave; a command may be requeued, sent again or set up again; the device may fail in the middle; the disk may be revalidated meanwhile |
| **Geometry** (65-98) | none | chunks of a request, size limit, depth cap | rounding, overflow, zero as "no limit" |
| **Limits and parameters** (10-31, 142-193, 655-663) | three runtime parameters, flags, `queue_depth` and `max_dev_sectors` of each disk | write a parameter, revalidate | a revalidation reads parameters in several places, at different moments; the depth only goes down |
| **Packing over scatterlists** (195-390) | cursors in two lists | copy host sectors into 528-byte slots and back | host segments, chunks and sectors end at different places |
| **Block-op restriction** (123-140, 636-638) | provisioning and WRITE SAME flags | clear them | stock code that runs later sets them again; a port moves the call |
| **Pools in `init_sd`/`exit_sd`** (671-710) | the two pools | create, unwind, destroy | error paths, which each port writes in its own form |
| **`port_universal.py`, `apply_manual_hunks.py`, `port_to_68.py`** | the text of `sd.c` | find a marker, find an anchor, edit | some hunks have landed and some have not; a marker of one piece may be in another; run twice |
| **`rebase_pve_528_patch.py`** | a copy of the tree | read the hunks, relocate them, produce a diff | the same; it finds functions by counting braces in C text |
| **`sector528_shim.py`** | a descriptor per thread, the disk and its cache | `pread`, `pwrite`, `flush` | parallel requests, read-modify-write, splitting, commands that fail in the middle |
| **`patch_ibm_lock.py`** | a dump | find the block, change the descriptor, seal the block | wrong lengths, several descriptors, counts that do not divide |
| **`diff_config_records.py`, `classify_regions.py`, `map_lod_to_flash.py`** | none | compare two dumps by records or by blocks | boundaries |
| **`dump_config_block.py`, `hba/`** | none | print a block; documentation and vendor images | - |

How they interact: the block layer calls the `sd` driver's setup hook, which
takes a context and chunks from the pools and swaps the data buffer of the
command; the host adapter moves 528-byte sectors between the disk and the
chunks; the mid-layer calls `sd_done`, which swaps the buffer back, and then
ends the request, sets it up again or sends the same command again; it calls
`sd_uninit_command` when it is through with a command. A revalidation reads
the module parameters and sets the limits that keep requests within what the
setup hook accepts and the pools hold. The port scripts decide where in the
driver these calls end up, and with that which error paths, block operations
and queue depths the built driver has. The shim replaces all of it: nbdkit
calls `pread`, `pwrite` and `flush` from several threads, and they send
READ(10), WRITE(10) and SYNCHRONIZE CACHE(10) through the `sg` driver. The
other tools work on dumps of a disk's flash: one changes the sector size in the
configuration block, the others show how two dumps differ.

What makes each part correct:

* emulation: a sector is written where it belongs, with its trailer zeroed; a
  successful read returns the sectors asked for; a successful write is on the
  disk; chunks and contexts are conserved whatever happens; every request is
  answered;
* limits: a request within the limits is never refused by the setup hook; a
  queue full of the longest requests fits in the reserve; the queue stays open;
* packing: every byte in its place for every way to cut the two lists, and no
  failure but for a host buffer that is too short;
* port scripts: a second run changes nothing; the pieces agree with the way the
  kernel passes queue limits; the driver that is built destroys each pool once,
  never discards with WRITE SAME and caps its queue depth; a piece is inserted
  in the function it is for;
* shim: no byte is misplaced, no write is lost, a flush covers what was
  answered, every request returns;
* flash tools: what is written is sealed and differs only where it should, and
  a comparison shows every difference once.

`PROJECT.json` lists the components with their modules, and under `hazards`
each place in the code where these can go wrong, with the property that
covers it.

## 2. The modules

| Module | Models | Kind |
|---|---|---|
| `SdGeometry` | the arithmetic of the patch, sizes as parameters | operators |
| `SdLimits` | parameters against revalidations | state machine |
| `BlockDevice` | what a disk of 512-byte sectors promises | abstract specification |
| `SdEmulation` | the life of emulated requests | state machine, implements `BlockDevice` |
| `SgPack` | the byte walks of packing and unpacking | state machine |
| `NbdShim` | `sector528_shim.py` | state machine |
| `SdSource` | the text of `sd.c`, and `patch(1)` | shared state of the next four |
| `PatchPort` | the scripts that edit the tree in place | actions |
| `RebasePve` | the edits of `rebase_pve_528_patch.py` | action |
| `SdDriver` | `init_sd`, `exit_sd` and a revalidation of the driver that is built | actions |
| `PortedDriver` | the three above, from a stock tree to a running driver | composition |
| `PatchText` | how `rebase_pve_528_patch.py` reads a patch and C text | state machine |
| `ConfigBlock` | `patch_ibm_lock.py` and the comparisons | state machine and operators |
| `SdLimitsProofs` (with those of `SdGeometry`), `SdEmulationProofs`, `SgPackProofs`, `NbdShimProofs`, `PortedDriverProofs`, `PatchTextProofs`, `ConfigBlockProofs` | | proofs |
| `CommonFacts` | quotients and remainders, and loops as functions of the number of their turns, for the proofs | lemmas |
| `MCSdLimits`, `MCSdEmulation`, `MCNbdShim`, `MCPatchPort`, `MCPatchText`, `MCConfigBlock` | | instances for TLC |

Operators that begin with the comment `Bug:` are deliberately wrong variants
of the definition next to them; `PROJECT.json` pairs each with the property
that notices it, and no specification uses them.

### SdGeometry

`effective_max_sectors`, `blocks_to_chunks`, `segments_to_sectors` and
`queue_depth_cap` are the functions of the patch. The module parameter they
read is an argument, because *when* it is read matters to `SdLimits`. The
reserve sizes are parameters with no lower bound but one:
`port_universal.py` makes them boot parameters clamped to 1..65536.

### SdLimits

`WriteParams` is the administrator (the parameters have mode 0644). A
revalidation of a disk is three actions, one for each place that reads a
parameter, in the order `port_universal.py` gives the tree:
`sd_adjust_logical_sector_size` (from `sd_read_capacity`),
`sd_528_limit_queue_depth`, and the `emu_cap` block
(`sd_revalidate_max_dev_sectors`, with the commit of the limits). `Spec` lets
the administrator write at any moment; `QuietSpec` only while no revalidation
runs.

### SdEmulation

One request is a variable `pc` with the values

    idle -> queued -> alloc -> issued -> replied -> done -> uninit -> completed
                 \        \-> backout -> queued            \-> requeued -> issued
                  \-> completed (refused)

| Variable | In the code |
|---|---|
| `ctx`, `chunks` | `rq->end_io_data`, `ctx->chunks[0..nr_chunks-1]` |
| `sdb` | what `cmd->sdb` points at: the host's buffer or the bounce table |
| `reserve`, `ctxFree` | the elements in `sd_528_page_pool` and `sd_528_ctx_pool` |
| `page` | the device sectors in each chunk |
| `store` | the sectors of each disk, payload and "trailer is zeroed" |
| `from528` | `sdkp->emulate_512_from_528` |
| `good`, `reply`, `xfer` | `sd_done`'s result, the device's answer, sectors moved |

A payload is a record of its writer and its sector number, so a sector that
lands in the wrong place, a stale one from a recycled chunk and a byte stream
read at the wrong stride are all told apart. Chunks are taken and given back
one at a time, and the device moves one sector at a time, so the steps of
different requests interleave at each of them. The page pool never falls back
on the page allocator (`sd_528_mempool_page_alloc` refuses without direct
reclaim); the context pool is a kmalloc pool, which tries `kmalloc` first, so
`prepare_context` may or may not take from the reserve.

The mid-layer is modelled from what the driver relies on: a full queue, a busy
device or a transfer below `cmd->underflow` requeues the command (`soft`); a
medium error fails the request (`failed`); `recovered` is a success for the
mid-layer; `noSense` is a check condition whose result `sd_done` clears;
`reset` is retried with the same command and without a new setup. The token
of the disk is given back before `sd_done` is called. `Faults` says which
replies an instance has and `MaxFaults` bounds how many there are.

`BlockDevice` is the abstract disk. `Abstract` is the refinement mapping: the
payloads of `store`; the sectors the current attempt has moved; for a pending
read, what lies in its bounce chunks; for a read that succeeded, the host's
buffer.

### SgPack

`SdEmulation` says which payload lands in which slot; `SgPack` says how the
code gets it there. A buffer is a function of its linear address. The host's
scatterlist is the set of addresses where a piece ends, any set; the bounce
list follows from the length of the request, as
`sd_528_alloc_emulation_buffer` makes it. `sg` and `off` are `bounce_sg` and
`bounce_off`. One step is one `memcpy` or `memset`, or one move to the next
piece or entry, so the moves that leave the cursor behind the last byte of an
entry (packing) or at the first of the next (unpacking, after a trailer) are
told apart. `dir` chooses the walk; what the two have in common is written
once.

### NbdShim

`config_complete` refuses a disk with other sectors and sets `MAX_BLOCKS`
from the reserve of its own descriptor; each thread opens a descriptor, with
a reserve of its own, when it first needs one (`get_fd`). A request runs the
loop of `pread` or `pwrite`: each iteration computes `Lba`, `Skew`, `Span` and
`Take`, and is a read command, a write command, or both (a read-modify-write);
a flush is one command. The disk keeps what it is given in its cache, and
`stable` is what SYNCHRONIZE CACHE made of it. `seen` is an auxiliary
variable: the requests answered before this one started.

### SdSource, PatchPort, RebasePve, SdDriver, PortedDriver

The scripts work on text with markers and anchors. `SdSource` keeps, of the
text, how the kernel is written (how it passes limits, what its guard against
an offline device does, how it registers the driver), which pieces it holds,
where and in which form, and derives from that whether a marker or an anchor
is found. `apply_patch` lands any subset of the hunks that the kernel's text
admits. Wording and hunk offsets are left out.

`PatchPort` has one disjunct for each step of `port_universal.py`, the two
scripts for 6.8, a hunk applied by hand where the script asks for it, and an
older version of the script, whose test for UNMAP step 5b strengthens. The
script's own test for hunk 1 is `Infra`, a string that hunks 11 to 13 have too;
whether hunk 1 is there is `Hunk1`. Hunk 1 may come by hand before the script is
run or after it left a text that does not build, and then `runs` and `first`,
which count the runs on one text and keep what the first of them left, begin
again.
`RebasePve` has the edits of `rebase_pve_528_patch.py`, where it stops, and
what it requires of the result.

`SdDriver` runs what was built. `at` is where `init_sd`, `exit_sd` or a
revalidation is; a creation may fail, and `Unwinds` is what the code from a
label on destroys, which depends on the text. A pool is `null`, `live`,
`freed` or `freed_twice`. A revalidation is four actions in the order of the
code: the guard, `sd_read_capacity`, the stock
`sd_read_block_provisioning` and its neighbours, and the end. The stock code
is not in the repository; it is modelled from what `port_universal.py:299-305`
says of it: it "overwrites everything they set".

`PortedDriver` puts them together: a stock tree of `Trees` is patched, ported
by its recipe and, when it builds (`Builds`: a `goto` needs its label, and what
is named a declaration, `Declared`), runs.

### PatchText

`PortedDriver` takes for granted that a piece ends up where the script means
it to; `PatchText` is about that. A character is a letter of a small alphabet,
and what a regular expression matches as a whole (the signature, the guard, a
label) is one character. `find_function_span` runs a character at a time, with
the five modes of the scanner. `tokens` is an auxiliary variable: the text
before it was flattened, where a string or a comment is one token, so that
`Body` and `Meant` can say which place is meant without a scanner. `Token` says
what the tokens of C are: a comment ends at its first end, a string at its
first quote that is not escaped (`Escaped`, which is about the backslashes in
front of it). They are the language and not the script, and the `Sources` are
any sequences of them. Three things that C allows and `sd.c` does not have are
left out: a line comment that a backslash continues on the next line, a comment
or string with the signature or an anchor in it (the script would find it
there), and braces that only balance after the preprocessor.

### ConfigBlock

A dump is a sequence of bytes. `patch_ibm_lock.py` is one action for each of
its functions, with the failures of `struct` and the slices that end where the
data ends; `run_again` runs it on what it wrote. `parse_records`,
`differing_regions` (of two dumps) and `classified` (of three, by what one of
them alone has) are operators, and the properties apply them to the dump before,
the dump after, and one of which only the header of the block is as after. Dumps
that are compared are equally long, as they are of one kind of flash.

## 3. What TLC checks

| Run | Expectation | What it shows |
|---|---|---|
| `SdLimitsQuiet` | holds | if parameters are written between revalidations: limits admit only acceptable requests, queues stay open with a reserve below one request, and depth x chunks of the longest request fits in the reserve otherwise |
| `SdEmulationHandled` | holds | data properties and the refinement of `BlockDevice`, with requeues, medium errors and recovered errors |
| `SdEmulationResources` | holds | chunks, contexts and bounce buffers, with every reply and a revalidation under load |
| `SdEmulationLive` | holds | every request is answered when none needs more than one chunk |
| `SdEmulationReset`, `SdEmulationRescan` | violated | see the findings |
| `SgPack` | holds | for every cut of a host buffer: each byte in place, zeroed trailers, nothing else touched, failure only for a short buffer, and the walks return |
| `NbdShimMixed` | holds | every byte in place at any offset, no lost write of whole sectors, zeroed trailers for aligned clients, fresh reads, flushes that cover answered writes, loops that advance |
| `PatchPortIntended` | holds | idempotence of the script, the form of a ported text that declares what it names, and of the driver built from it: pools destroyed once, no WRITE SAME, capped depth; whichever hunks landed, for each recipe |
| `PatchPort68` | violated | see the findings |
| `PatchText` | holds | hunks and added runs are read as they are, and a piece is inserted in the body of its function or not at all |
| `ConfigBlock` | holds | the written block sums to zero, differs in one descriptor and the checksum only, a second run changes nothing, and the comparisons of two dumps and of three show exactly the difference |

`GenerationFits` is about texts that a compiler takes (`Declared`): what the
script makes of a tree without hunk 1 is told in section 5.
`OnlyDescriptorChanges` does not repeat the search of the tool: it says that
nothing but *some* descriptor and the checksum changed, and that it is the one in
the AIX record when no other lies before it. Where one does, as in some dumps of
the run, the tool changes that one (section 5).

A run that is expected to be violated checks what a comment or a document of
the repository says, quoted in `findings`; the trace TLC prints is the
behaviour of the code that contradicts it.

### Bounds

* *Geometry.* A host sector is 2 units and a device sector 3, so that three
  host sectors are as long as two device sectors and a transfer may be taken
  for a longer one; a chunk has 7 units, so it holds two device sectors and an
  unused rest, and requests of three sectors fill one chunk and a part of
  another. This is the smallest geometry that has a remainder in every
  division the code makes. The proofs hold for all geometries.
* *Requests.* Two requests with reads and writes of overlapping sectors, and
  three chunks, so that two long requests cannot both hold all theirs; one
  shape is longer than the driver accepts. `QueueDepth` is 2, or 1 with two
  disks in `SdEmulationLive`, where three requests wait for tokens as well as
  for the chunk.
* *Replies.* At most two (`MaxFaults`) that are not a success, enough for two
  retries of one request and for a failure of each; at most one revalidation
  under load.
* *Limits.* Three disks: 528 bytes with a segment limit that binds, 528 bytes
  without a segment limit, 520 bytes. Sizes 0, 1, one that is not a multiple of
  a chunk and one above the hard limit. The reserve has three chunks: three
  small requests, one of default size and a rest, or less than one of maximal
  size.
* *Packing.* Sectors of 2 units, trailers of 2, two sectors to a chunk and an
  unused rest: three sectors need two entries, the last of which is shorter.
  Trailers of more than one unit can be zeroed in more than one step. A host
  buffer has up to seven units, one more than the longest payload, and all 128
  ways to cut it are taken, the empty one and the too short ones included.
* *Shim.* Three sectors of two bytes; at most two sectors per command, so that
  three sectors take two commands. Three requests of any kind, of which a write
  may be in part a read-modify-write; descriptors with room for two sectors or
  one; one command fails.
* *Port.* All subsets of the seven hunks that the kernel admits; two kernels
  for `port_universal.py`, three for the rebase (one of which it refuses), a
  6.8 kernel for the recipe of its own; two runs of `port_universal.py` and two
  revalidations: the second run and the second revalidation are where a stale
  marker or a flag set too late shows.
* *Text.* Patches of two files with up to two hunks of up to three lines;
  sources with every sequence of up to three pieces after the signature, where
  a piece is a brace, an anchor, a slash, or a string, character constant or
  comment that holds a brace and the end of another kind, and with a
  declaration, other anchors, a second definition or the marker before it.
* *Dumps.* Bytes of 16 values, sectors of 33 bytes to become 32 (as 528 is to
  512), one or two records with the descriptor, a second descriptor or a bare
  name before the block, lengths that are right, one short, too long, odd or
  shorter than the header, and counts that divide, do not divide, or do not fit.

`SYMMETRY` is used for requests and chunks where only invariants or the
refinement (a safety property) are checked, never with fairness. The
`PatchPort`, `PatchText` and `ConfigBlock` configurations switch the deadlock
check off because the scripts end. The other models have an explicit stuttering step once every request is
answered (`SdLimits` never ends), and TLC checks that they do not stop before.

### Fairness

`SdEmulation!FairSpec` assumes that each request's next step is taken if it
stays possible (the kernel runs its work, the device answers), and strong
fairness for two steps that need a token of the disk, `prepare_context` and
`redispatch`: tokens come and go, and blk-mq keeps what it could not dispatch
on `hctx->dispatch` and serves that list first and in order, so a request that
can again and again have a token gets one. No fairness is assumed for the
allocation of a chunk beyond that: nothing in the code orders requests that
compete for the reserve. Hence `EveryRequestAnswered` is checked for requests
of one chunk, where a refusal means that another request is being served.
With requests of several chunks, two of them may in principle refuse each
other over and over; the code leaves this to chance, and so does this
project.
`SgPack!FairSpec` is weak fairness of the next step: a function that is not
preempted for ever runs until it returns; `Returns` is then about its loops.
`NbdShim` is checked without fairness: that its loops end is `RoundsAdvance`,
a step property.

## 4. What is proved

All proofs hold for every value of the constants allowed by the named
assumptions of the modules (`GeometryAssumption`, `LimitsAssumption`,
`EmulationAssumption`, `PackAssumption`, `ShimAssumption`, `SourceAssumption`,
`PortAssumption`, `DriverAssumption`, `TextAssumption`, `ConfigAssumption`), which TLC evaluates
in every run. Where a theorem has a further hypothesis it is named here with its
reason.

**Geometry** (`SdLimitsProofs`). From facts on division and rounding (`CommonFacts`):
`ChunksCoverBlocks` (the chunks are enough, and one fewer is not),
`ChunksFitContext` (a legal request fits in the arrays of a context),
`SegmentsRespected` (a request bounded by `segments_to_sectors` needs no more
chunks than there are segments, overflow guard included) and
`DepthCapFitsReserve`.

**Limits** (`SdLimitsProofs`). `TypeOK`, `LimitsSound` and `QueueStaysOpen`
for `Spec`, where parameters are written at any moment: each is inductive with
`TypeOK`, and the action that sets a limit is discharged by the geometry
lemmas. `DepthFitsReserve` holds for `QuietSpec` only (a parameter written
between the two reads of a revalidation breaks it) and is not inductive: between the step that sets the depth and the step
that sets the size, the depth is already that of the new parameter and the
size still that of the old. `BetweenHalves` says what holds then: the depth is
at most the cap for the value the second half is going to read.

**Requests** (`SdEmulationProofs`). `TypeOK`, `ChunksConserved`,
`ContextsConserved`, `HoldersAreActive` and `BounceCoversTransfer` for `Spec`,
for any number of disks, requests, chunks and sectors, every reply and any
number of revalidations under load. The invariant is

    IInv == ControlOK /\ DataOK /\ Holding /\ ChunksConserved /\ ContextsCounted

`ControlOK` and `DataOK` are the two halves of `TypeOK`. `DataOK` is not
inductive by itself: that a sector is moved to a place *within* a chunk needs
a request on the device to hold as many chunks as it needs. `Holding` says
that, for each location of a request: nothing is held while it waits, at most
what it needs while it allocates, exactly that while the device or the
mid-layer has it; and that a command whose buffer is the bounce table has a
context. The proof of `Holding` treats a step of one request (`OwnStep`) and
leaves the others alone (`OthersUntouched`). `ChunksConserved` is moved by two
actions only; each has a lemma (`TakingConserves`, `GivingBackConserves`), and
all others leave `chunks` and `reserve` as they are (`ChunkMoves`).
`ContextsCounted` adds to `ContextsConserved` that finitely many requests hold
a context, without which their number means nothing: a context of `kmalloc` may be put back into a
reserve that lacks one, so the requests whose contexts came from the reserve
cannot be told from the others, and only the count is kept. There may be any
number of requests, also infinitely many.

**Data of the emulation** (also in `SdEmulationProofs`). `StoredInPlace`,
`ReadsReturnTheirSectors` and the refinement of `BlockDevice` hold for every
geometry and every number of disks, requests and chunks, but not of every
behaviour of the code, and TLC shows why. The hypotheses are:

* `[]Undisturbed`: no reply is a reset and no revalidation has the flag of a
  disk cleared. Without the one or the other the driver issues a command with
  the buffer of the host (`SdEmulationReset`, `SdEmulationRescan`);
* `[]SenseGiven`, for reads and the refinement: no check condition comes
  without sense. The driver takes such a command for a complete one (listed
  under `hazards`).

Soft errors, failures in the middle of a transfer, recovered errors, refused
allocations, requeues and commands that are set up again are all allowed, in
any number. The corollary `EmulationHandled` puts the hypotheses as values of
constants, which are those of the run `SdEmulationHandled`: then the three
results hold of every behaviour. The invariant, on top of `IInv`, is

    DInv == Course /\ Stored /\ Buffers

`Course` relates where a request is to what it has moved, what it was answered
and which buffer its command has: a command on the device has the bounce
buffer, a good reply has moved everything, `good_bytes` after a recovered error
is none. `Stored` is `StoredInPlace` with the writer of a payload a *started*
write of that sector. `Buffers` is why it is kept: a write's host buffer is its
caller's; the bounce places of a command on the device hold what it writes, or
as far as it has read, payloads of the right sectors (`BounceBuffer`); and
`sd_done` has copied them (`Copied`). Requests share the pages of the reserve,
so the step that packs one request has to leave the places of the others
alone: `PlacesDistinct` (from `NoChunkShared` and the geometry: two sectors
have one place only if they are one sector of one request), `PackFacts` (what
packing fills) and `BouncedStays` (what every step leaves). A payload that is
genuine stays so (`GenuineStays`), because a write that was started stays
started.

The refinement is one lemma for each step of `BlockDevice`: `SubmitMaps`,
`MoveMaps` (a sector is moved between chunk and device: the only step that
changes the abstract disk), `FailureMaps`, `RetryMaps` (the request starts over
and has moved nothing), `SuccessMaps` (which needs `Copied`: the answer is what
was moved) and `StutterMaps` for all that `BlockDevice` does not see:
allocation, packing, issue, copying back, requeueing and freeing.

**Packing** (`SgPackProofs`). `TypeOK`, `PackedInPlace`, `UnpackedInPlace` and
`FailsOnlyWhenShort`, for every sector, trailer and chunk size, every request
and every way to cut the host's buffer. None is inductive: what the buffers
hold depends on where the cursor is, and the cursor on how much was moved. The
invariant says that between sectors and in them the cursor is at `Place` of
the next byte of payload, and in a trailer behind the payload by what of the
trailer is done; everything before the cursor has its final value and
everything after it is untouched. The lemmas on `Place` (it grows by one within
a sector and by a trailer from one to the next) and on entries (a cursor below
`devLen` is in exactly one, and entries end with a sector) are what a step is
discharged with. That the bounce list never runs out is then arithmetic: a
cursor behind the last trailer is `devLen`.

**Shim** (`NbdShimProofs`). All properties of the run `NbdShimMixed`, the step
property included, for every sector size, number of sectors, command limit,
descriptors, and set of requests at any offset and length. The invariant is

    Inv == TypeOK /\ Control /\ GenuineBytes /\ Merged /\ ZeroTrailers /\ Kept

`Control` says how far a request is at each of its locations: once it has
passed its first command it is at a sector boundary or through, and a read has
gathered exactly as many bytes as it has passed. `GenuineBytes` says of each
byte on the disk, in a buffer as far as it is filled, and in a result, that it
belongs to its place; `Merged` that a buffer that is being written holds the
payload of its request; `ZeroTrailers` is about clients that keep to the block
size, whose commands are whole sectors (`WholeCommands`). `Kept` is the order
of writes: nothing that a write has put (`Put`, which follows a command sector
by sector) is replaced by something older, neither on the disk nor in the
cache behind a flush nor in the buffer of a read. It has the hypothesis
`Apart` of the properties themselves: a write of part of a sector reads the
sector first, and two such writes in parallel do lose data. What these parts
share is where a byte is: the lemmas from `PlaceFacts` to `SectorOfRequest`
take a place apart into sector and offset with the lemmas of `CommonFacts`, and
`SectorRead`, `SectorWritten`, `BytesGathered` and `QuietSteps` say once for
each kind of step what it moves.

**Ports** (`PortedDriverProofs`). `TypeOK`, `Idempotent`, `PoolsReleased`,
`DiscardRestricted` and `DepthCapped`, for any set of trees, runs and
revalidations. `PortInv` follows the text: what each step of
`port_universal.py` guarantees for the steps after it (`Progress`), and that a
text that was ported once has every mark that a step looks for (`Marked`), so
that each step of a later run leaves it as it is. `DriverInv` follows the
driver: nothing runs before the text is built, and no script after; the pools
that are live or freed at each place of `init_sd` (`PoolsHeld`); what a
revalidation has done so far (`ScansHeld`, `DiskHeld`). `Built` joins the two:
a text that builds has its creation in the form that goes to the label, and
the labels there to be gone to.

A text whose hunk 1 was rejected has no function to restrict and no place for the
parameters, and those two steps pass it by, in each run alike; once it has the
late block and the clamp, these have the markers of both steps, also when hunk 1
is there (`Marked`, and `HandKeeps` for the hunk applied by hand). So
`Idempotent` holds there too, but what is left does not build (`Declared`).

`GenerationFits` (`FitsItsKernel`) is about texts that declare what they name and
has the hypothesis `Recommended`, which is
about the constants: `port_universal.py` on a patched tree is for kernels that
pass the limits by pointer, and the recipe that applies the hunks by hand first
is for 6.8. For other pairs it is false, which is the finding `PatchPort68`.
`Fitting`, its invariant, says of the text between two steps that each piece
that is there has the form of the kernel (`Fits`), except that before
`port_universal.py` the function of a kernel of 6.8 has still the name and the
parameters of the patch (`FitsButName`), and that there is one call (`OneForm`);
`EditsFit` says that no step of the script puts a piece of the other form in.

**Reading of text** (`PatchTextProofs`). `TypeOK`, `HunksRead` and
`InsertedAsMeant`, for patches with any number of files, hunks and lines, and
for any sequence of tokens of C of any length.

* The patch. `Reads` relates what `parse_file_hunks` knows before and after
  some lines, and is followed over the lines of a hunk, the hunks of a file and
  the files of a patch: what a file adds does not depend on the files before it, since its
  first line ends the hunk that was read. `addition_runs` counts from where a run
  begins to where it ends, and the runs before it are those that began before it
  (`Upto`).
* The types. `TextInv` has, besides `TypeOK`, that the scan began at a
  signature with a brace behind it and that a brace is open as long as it goes
  on, so that `depth` never falls below zero.
* The insertion. `TypeOK` and the depth say nothing about where the body is.
  `MeantInv` relates the scanner to the tokens. `Laid` gives each token its place
  in the text; `ScannedTo` says that the scanner is at character *c* of token
  *n*, in a mode that fits this character of this token (`InToken`), that no
  token before *n* balanced the braces of the definition, and that `depth` is
  the number of those that are open before *n*. One lemma for each kind of token
  follows a step: `ScanComment`, `ScanLiteral` (a character is escaped exactly
  when the scanner thinks so), `PairBegins` and `PairEnds`, `BraceOpens`,
  `BraceCloses` and `CharacterPasses`; `ScanMoves` puts them together. When the
  scan ends, the body is what the tokens say (`BodyFound`), the first anchor between two places is the
  first such token (`FirstPlaces`), and so the places that the script finds are
  those of the tokens that are meant (`PlacesMeant`); to insert a character there
  is to insert a token (`FlatInsert`). When the text ends first, no token
  balances the braces and nothing is meant (`BodyMissing`).

**Configuration block** (`ConfigBlockProofs`), for dumps and blocks of any
length and any size of the numbers' bytes. The invariant is

    IInv == TypeOK /\ Located /\ Progress

`Located` says that the block which is worked on is that of the dump that was
read; `Progress` how far the run is: nothing changed, the descriptor patched
(`Patched`), the checksum put (`Sealed`). Nothing of this needs a hypothesis,
and so `TypeOK` and `RegionsCover` have none. (`RegionsCover` has two parts: what
`regions` makes of any mask, and that the mask is the one meant, of two dumps
or of three, `ComparedShows` and `AloneShows`.) Neither has `SealedSumsToZero`:
`fix_checksum` makes the words of every block of eight bytes or more sum to
zero, of even or odd length, so that its assertion can fail for a shorter block
only. The others are about a dump whose descriptor may be anywhere:

* `SumsToZero` and `OnlyDescriptorChanges` have the hypothesis `BehindHeader`:
  the numbers of the descriptor do not lie in front of the block or in its
  header. There a new count could make or spoil the magic or change the length,
  and the second run would find another block. In the layout that the tools
  describe the descriptor is in a record, and the records are behind the header.
  That the descriptor is that of the AIX record when it is the first follows from
  the search finding the lowest (`FirstResized`), and is not true without it;
* `SecondRunChangesNothing` has `WellPlaced`: besides, there is no value of the
  checksum that makes a descriptor or spoils the first one
  (`SealKeepsDescriptor`). Its invariant `Second` says that the second run
  starts from a dump that is `Settled`: new numbers are in the descriptor, and
  sealing the block again gives the same block;
* `RecordsKept` has `WellPlaced` and two more: `PlainHeader`, no value of the
  checksum makes a record of the header, and `Recorded`, the numbers of the
  descriptor are in the payload of one record or behind the block. Where they
  overlap the length of a record, the walk of `parse_records` goes another way
  in what is written. The argument follows two walks in lockstep (`WalksAlike`):
  they find the same at each place where the one on the dump looks (`SameAt`),
  so that they look at the same places and find records of the same ids there
  (`Matched`). The first walk never looks inside of a record that it has found
  (`Known`, `WalkKnown`), and so never at the numbers (`LooksBeside`). Matched
  records are compared with their match and no other (`DifferingPairs`), and a
  byte that changed in one is a byte of the descriptor (`ChangedRecord`).

Of the 2020 dumps of the run, all keep their descriptor, 1348 have it behind
the header, each of these has a plain header, and 1252 of them are `Recorded`
too, 288 with the descriptor in a record; in the rest of the 1348 the end of the
block cuts the record with the descriptor. TLC finds the properties to hold for
the other dumps too, because their numbers happen to make no magic and no
record. The theorems do not claim that for every dump.

The sums, the scan of `differing_regions` and the walk of `parse_records` are
recursive functions over the number of words, blocks or bytes. What they compute is proved by induction over a
*set* of numbers (`NatSetInduction`), and that they are what their equations
say by `Iteration`. `Scanned` is the loop invariant of the scan: which regions
are closed, where the open one began, and that every block that changed is in
one of them. `IsWalk` is the walk with what it has after each byte.

The folds over the lines of a patch are recursive functions too, and so
are the texts of the tokens, with `IsFlat` for what `FlattenSeq` computes. The library's
induction theorems take an operator as a parameter, which none of the backends
used here can instantiate; hence the sets of numbers.

Only model-checked:

* `EveryRequestAnswered` and `Returns`: liveness needs `ENABLED` and fairness.

## 5. Findings

Each of these is a run that TLC finds violated; `PROJECT.json` quotes the
statement of the repository that it contradicts.

1. `SdEmulationReset`: a command the mid-layer retries without a new setup is
   sent with the host's buffer.
2. `SdEmulationRescan`: a revalidation has the flag cleared for a moment while
   requests are served.
3. `PatchPort68`: `port_universal.py` takes a patched 6.8 tree for 7.0.

Two more contradict a comment of the code. They have no run of their own, but
the runs `PatchPortIntended` and `ConfigBlock` have their behaviours in them, and
the invariants given here are violated under the constants of `PatchPort68.cfg`
and `ConfigBlock.cfg`:

* `Ported => Hunk1(tree)`. `port_universal.py:196` says "infrastructure from hunk
  1 must already be there ... require the plain patch to have landed it or bail",
  but the string that line 198 looks for is in hunks 11 to 13 as well
  (patch 679, 697, 708). On a 6.8 tree, where hunk 1 is rejected and those of
  `init_sd` and `exit_sd` land, it goes on; what it leaves names functions and
  variables that nothing declares. Applying hunk 1 by hand and running it again
  does not help: the late block and the clamp hold the markers of the restriction
  and of the parameters (275, 367), which are then taken to be there. The text
  does not build, so no driver comes of it.
* `pc = "written" /\ AixDescriptors # {} => \E p \in AixDescriptors : Resized(p)`.
  `patch_ibm_lock.py:56` says "Change the block descriptor in record 0xc8 (AIX)",
  but line 61 takes the first thing in the whole dump that looks like it. With one
  in front of the block the tool changes that one, and the block is sealed and
  written with its old size.

Others follow from the models and are listed under `hazards` without a run of
their own: a check condition without sense is reported as a complete transfer;
depth and size of a disk may come from different values of a parameter that is
written during a revalidation; a reserve below one request (which the clamp
allows) starves it; a queue depth of 0 does not bring the pool's maximum back;
in a rebased driver the first scan of a disk does not cap its depth; parallel
writes of parts of one sector through the shim lose data, which clients that
keep to the announced block size never send; the shim's command limit is that
of one descriptor, used with all; `port_universal.py` does not make up for a
rejected `exit_sd` hunk; `apply_manual_hunks.py` reports the cap as applied
when it is not; the 64 contexts are a reserve of a `kmalloc` pool and not a
ceiling.

## 6. Not modelled, and why

* The mid-layer, blk-mq, the host adapter's driver and the device are external:
  they appear as the replies, retries and tokens that the driver code relies on.
* The rounding of the residual count in `sd_done`, `RQF_SPECIAL_PAYLOAD` and
  zoned disks: stock code around the hunks that the repository does not hold.
* Within one setup or completion, a change of the flag of a disk, and the
  `-EIO` exits of the walks. The setup reads the flag in three places (patch 563,
  576, 585) and `sd_done` in two (607, 624); the model reads it when the setup
  takes its context and when `sd_done` completes the command, so that it has what
  a revalidation does between setup and completion, but not what it does between
  two reads of one function, where a command may keep the bounce table with the
  host's length, or get the host's with the device's underflow. Those are
  further ways into the finding `SdEmulationRescan`; chunks and contexts are
  the same in them. The exits 489-491 (packing) and 524-527 (unpacking) are taken
  when the host's buffer is short of the request, which `SgPack` models
  (`FailsOnlyWhenShort`) and the block layer does not let happen.
* 520-byte disks after the limits: the patch only changes what they announce
  and leaves their data path to the transport.
* The parameters and the read-only handle of the shim, and what a transport
  error leaves in a buffer whose SCSI status is good.
* `patch(1)` and `diff(1)`: which hunks are rejected is an input of the models;
  the offsets and the dry run of `rebase_pve_528_patch.py` are theirs.
* A tree in which an anchor of `port_universal.py` is missing: the step is
  skipped with a message.
* The reports: what `dump_config_block.py` prints, the search for known strings
  in `classify_regions.py` and for samples of a firmware file in
  `map_lod_to_flash.py`. Documentation and vendor images.

## 7. Plan

Done, in this order: `SdGeometry`, `SdLimits`, `BlockDevice` and `SdEmulation`
with their proofs, `NbdShim`, `PatchPort`; then `SgPack` and its proofs,
`SdSource`, `RebasePve`, `SdDriver` and `PortedDriver` and their proofs,
`PatchText`, `ConfigBlock`, and the start and the flush of `NbdShim`; then
`NbdShimProofs`, the contexts and the data in `SdEmulationProofs` with the
refinement of `BlockDevice`, `GenerationFits`, `ConfigBlockProofs` and
`PatchTextProofs`. Left:

| Step | Content |
|---|---|
| 1 | `local` trees (6.11 to 6.14) and missing anchors in `SdSource` |
