# Quark FSP in TLA+

The repository builds the Firmware Support Package of the Quark X1000 SoC: a
binary that a boot loader calls to initialise the DDR3 memory and to learn what
memory it got. This directory models the part of it where a mistake is
expensive and a test hard to write: what the memory, the saved training results
and the platform's bookkeeping look like after any sequence of boots, resumes,
failures and resets.

## 1. The system

| Component | Source (under `src/`) | State | Operations |
|---|---|---|---|
| MRC sequencer | `Library/MrcLib/{mrc,prememinit,meminit}.c` | `MRCParams_t`, controller registers, PHY, DRAM devices | `Mrc` = `PreMemInit` + `MemInit`: the 24 entries of `init[]`, each run in the boot modes of its `boot_path` |
| Training algorithms | `meminit.c` `rcvn_cal`, `wr_level`, `rd_train`, `wr_train`; `meminit_utils.c` `find_rising_edge` | per-lane delays, local search state | one call each, during a cold boot |
| Delay codecs, pointers | `meminit_utils.c` `set_*`/`get_*` | PHY registers | write or read one delay of one lane |
| Scrambler, saved timings | `meminit_utils.c` `lfsr32`, `enable_scrambling`, `store_timings`, `restore_timings`, `default_timings` | `timings`, scrambler registers | one call each |
| Host training engine | `Library/MrcLib/hte.c` | HTE registers, error latches | start a pattern, poll, read and clear the latches |
| MemoryInit wrapper | `Library/FspMemoryInit/MrcWrapper.c` | boot mode, PMSW pending bit, memory map, HOB contents | `MemoryInit`, `GetMemoryMap`, `BaseMemoryTest`, `PostInstallMemory`, `BuildHobs` |
| FspMemoryInit, PEIM | `FspMemoryInit.c`, `MemoryInitPeim/Peim.c` | stack data | `DoMemoryInit`, `MrcDone` |
| FSP 2.0 heap and HOBs | `Library/Fsp2_0Lib`, `Library/FspHobLib` | heap pointers, HOB list, stack data | `InitializeHeap`, `HobAllocate`, builders, `SaveStackData` |
| FSP 1.1 library and SEC core | `Library/Fsp1_1Lib`, `Override/IntelFspPkg/FspSecCore` | global data, temporary memory | the API entries and their order checks |
| FSP 2.0 SEC core | `Override/IntelFsp2Pkg/FspSecCore` | global data | the same |
| Serial, printing, register access, headers, assembly, build | the rest | none that another part reads | |

How they interact: the boot loader calls the FspMemoryInit entry point of the
SEC core with the boot mode and the training results it saved last time. The
call reaches `MemoryInit`, which fills `MRCParams_t`, marks the run in the PMSW
register, calls `Mrc`, splits the memory into ranges and writes HOBs. Inside
`Mrc`, each training function moves delays through the codecs, asks the Host
Training Engine to read or write a pattern and looks at what came back. The
training results go back to the boot loader in a HOB, and the boot loader keeps
them in NVS. On a resume the DRAM is in self refresh and holds the image of the
suspended OS. The firmware is one thread of control; what is concurrent is the
world: a reset or a power failure may come between any two steps, the DRAM and
the PMSW bit outlive some of them, the RMU scrubs ECC memory behind the back of
the CPU once it is told to, the training engine runs while the driver polls, and
the boot loader calls the entry points in whatever order it likes.

What is hard here, and which property watches it, is the list of hazards in
`PROJECT.json`. In short: init functions run in an order given by a table of
bit masks; the results of one boot are used by another, at another speed or
after a reset in the middle; a resume has to leave alone what all other boots
overwrite; the scrambler key and the ECC address map decide whether the old
image can be read; searches move unsigned delays one step at a time over noisy
signals, for lanes that take turns, in registers the ranks share; the engine
keeps its configuration and its errors from test to test; failures end in dead
loops or in a status nobody reads.

## 2. The modules

### MrcContract and MemInit

`MrcContract` is what a caller may rely on: a call does one of four jobs (train,
reload, resume, wake) on the memory image, returns or hangs, only training
hangs, and a resume never changes the image.

`MemInit` is the sequencer. Each entry of `init[]` is an action with the C
function's name; `Call(k)` is one iteration of the loop that runs entry `k`,
`Skip` one that does not (`boot_path` excludes the mode), `Mrc` is `PreMemInit`
plus the head of `MemInit` with the speed check. The state:

| Variable | Code |
|---|---|
| `phase`, `i` | where the program is; the loop index of `MemInit` |
| `boot_mode`, `config`, `status`, `mem_size`, `timings` | fields of `MRCParams_t` |
| `mcu` | DCO (PMICTL, IC, DRPLOCK), DTR0-4, DRFC.tREFI, DSCH.OOODIS, DPMC0.DYNSREN and the layout (DRP, DECCCTRL, SCRM) |
| `phy` | speed it is programmed for, the delay of each signal |
| `dram` | mode registers, self refresh, what it holds and under which layout that was written |

Data are abstracted to what the properties tell apart. A delay is `"reset"`,
`"default"` (a board constant), `"coarse"` (WDQ as `wr_level` leaves it) or the
speed it was trained at. The DRAM holds one content for all addresses; it reads
back only under the layout (address map, check bits, scrambler key) it was
written with. `mem_size` is counted in eighths of the populated size, which is
all `ecc_enable` (7/8) changes. A training step finds its delays only when the
memory is accessible and the delays it relies on are in place (`rcvn_cal` needs
the defaults, `wr_level` needs RCVN and the clock delay, `rd_train` RCVN and
WDQS, `wr_train` RDQS, VREF and WDQS); that is what makes the order of the
table matter. `TrainingFails` is the way into the dead loop of `post_code`. The
cold-wake bit, the ownership of the PRI port by the HTE, and IC being 0 while
DRP is written are in the actions of the functions that handle them.

`lfsr32` is the constant function `Lfsr`, assumed one to one with the fixed
point `AllOnes`, as an XNOR shift register is; `Lfsr16` is the 16-step advance.

### MemoryBoot

`MemoryBoot` extends `MemInit` with `MemoryInit` (choice of the boot mode from
the EFI boot mode, saved data, recovery, the pending bit, RESET_REQUIRED_COLD,
`BaseMemoryTest`, `PostInstallMemory`, the timings HOB) and with the platform
around it. The MRC runs inside it step by step (`RunMrc`), so a reset can fall
between any two entries of `init[]`.

What is outside the repository is modelled from how the code relies on it:
`StoreNvs` (the boot loader saves the timings HOB before it starts the OS),
`StartOs`/`ResumeOs`, `Suspend`, `ColdReset` (the answer to
RESET_REQUIRED_COLD), `Reset` (keeps PMSW, NVS and perhaps the DRAM),
`PowerFail` (keeps NVS), `LoseNvs` (the saved data do not pass the boot
loader's check) and `Reconfigure` (another speed, only between boots).

After `MemoryInit` returns, `MrcDone` runs whatever the outcome was: phases
`built` (EFI_SUCCESS) and `no_data` (RESET_REQUIRED_COLD) lead to `done` and
`cold_reset`, or to `asserted`, the dead loop of a failed ASSERT, when a debug
build (`AssertsOn`) finds no HOB list.

### MemoryMap

`GetMemoryMap`: one action per piece of the function (`LowRanges`,
`ExtendedRange`, `TrimTseg` with the HSMMC register, `TrimRmu`, `TrimTolum`,
`TrimFsp`), on the function's own variables. `Trim` is the idiom the source
repeats: subtract from `MemoryAddress`, fill in a range, shorten the extended
memory. Subtraction is that of UINT64 (`Minus`, modulo `AddrSpace`); the sizes
the caller asks for are the initial states, those that do not fit included. A
write past the end of the caller's array ends in `"overrun"`.

### HobList, HobHeap

`HobList` is what `HobLib` promises: a list that starts with the END HOB, grows
at its front and never changes. `HobHeap` is how it is kept: HOBs by address
(`heap`), the two pointers of the stack data, `InternalPeiCreateHob` with
`HobAllocate` (`Create`, in 32 bit pointer arithmetic), the first and only
effective `InitializeHeap`, and the readers `GetNextHob` and `GetFirstGuidHob`.
Reading the heap upwards (`ListRead`) is the refinement mapping.

### MemoryHobs

Composes `MemoryMap` and `HobHeap`: the end of `MemoryInit` (the copy of the
RMU binary in `PostInstallMemory`, which is made in every boot mode, the heap at
the last range, `BuildHobs` HOB by HOB in the order of the source) and
`MrcDone` (SMBIOS HOB, `HobListPtr`).

### RankLoop, RisingEdge, RankSearch, RcvnCal, WrLevel, RdTrain, WrTrain, Training

The inside of the four training functions, which `MemInit` takes as one step
each. `RankLoop` has the lanes, the loop over the enabled ranks (`NUM_RANKS`, 2 in
the code) and the WDQ registers; `Training` puts the functions together: a behaviour is one call of one
of them (`fn`). What the hardware answers is a constant: a signal says which
values a sample may have at a delay (`Level`), an eye, a window or a clock which
outcomes a test may have at a setting. Both values, or both outcomes, are
possible where it is in transition.

| Module | Code | State |
|---|---|---|
| `RisingEdge` | `find_rising_edge`, `sample_dqs`: three samples 26 PIs apart choose a direction and a place to start from, then all lanes walk one PI at a time until none moves | `delay`, `direction`, the samples, `reg` (what `set_rcvn` or `set_wdqs` programmed) |
| `RankSearch` | what `rcvn_cal` and `wr_level` share: the call of the search, the sum over the ranks and its rolling average | `final_delay`, `num_ranks_enabled` |
| `RcvnCal` | `rcvn_cal`: bursts are separated (`tCCD`), the edge found, then each lane goes back a clock at a time to the preamble | `tCCD`, `fiforst` |
| `WrLevel` | `wr_level`: the DRAM and the controller are switched to levelling, the edge found, the switches turned back, then a lane that fails the coarse test goes back a clock | `levelling`, `hte_setup` |
| `RdTrain` | `rd_train`: from four corners, RDQS moves inward until all lanes pass; where RDQS runs out, VREF moves and RDQS starts again | `x_coordinate`, `y_coordinate`, RDQS and VREF registers |
| `WrTrain` | `wr_train`: WDQ moves inward from both ends of the half clock before WDQS | `wr_delay`, the window |

Delays are `uint32_t` (`Word`): below 0 lies a number no register holds, which
`set_*` answers with a dead loop (`pc = "dead"` inside a search, `"stopped"`
elsewhere). A test returns the set of lanes that failed, since the functions act
on all of them before they test again. With one channel on a 32 bit bus there are
four lanes, and the mask the engine returns has one bit for each; the models
assume that no other bit of it is set.

### DelayRegs and DelayCodec

`DelayRegs` is what the `set_*` and `get_*` functions promise: one delay for each
signal of each lane or rank, which stays as it was last set. A call with a delay out
of range stops the firmware. A boot has phases: the defaults come first in a cold
boot, storing what was trained ends it, a reset (`PowerUp`) keeps only what was
stored, and a fast boot ends by setting each saved delay to exactly that. No step
but a reset may lose a delay. `DelayCodec` is how the bits
are kept: for each signal a pointer field (whole half clocks), a PI code and the
two dead band bits, at their offsets in registers that lanes and ranks share,
written through masks. The refinement mapping is `get_*` for the delays and the
identity for the rest, so that each step must be the one `DelayRegs` has for it.

### HteEngine

The driver of the training engine (`hte.c`) with its callers' part of the
protocol: who sets `hte_setup` or `first_run`, when the configuration is written,
when the error latches are cleared and read, the four passes of the memory test.
A boot is a sequence of stages (the tests that `MemInit`'s table leads to). The
engine is external: while it is busy lanes may fail (`HteFails`), and it ends
(`HteDone`) at any time, or before the driver has polled once.

### FspApi

The entry points of both FSP versions, called by a boot loader in any order, with
resets and the reuse of temporary RAM between the calls: the checks each one
makes and does not make, the pointer to the global data and where the data lie,
what is pushed on the stack and who looks for it. `reused` remembers that the boot
loader has used temporary RAM again since memory was initialised: the global data
are lost with it, the pointer to them is not.

### MC modules and proof modules

`MCMemInit`, `MCMemoryBoot`, `MCMemoryMap`, `MCHobHeap`, `MCMemoryHobs`,
`MCTraining`, `MCDelayCodec`, `MCHteEngine` and `MCFspApi` are the instances for
TLC. `MemInit_proofs`, `MemoryBoot_proofs`, `MemoryHobs_proofs` (with those of
`MemoryMap` and `HobHeap`), `Training_proofs` (with those of `RisingEdge` and of
each training function), `DelayCodec_proofs`, `HteEngine_proofs` and
`FspApi_proofs` have the theorems, section 4; `DataLemmas` has the lemmas about
numbers, intervals and sums over finite sets that several of them cite.

## 3. The runs

| Run | Question | Result |
|---|---|---|
| `MemInit` | From every boot mode, configuration and set of saved timings: is what `Mrc` returns usable, consistent with the timings it hands back, readable after a resume; does `MemInit` implement `MrcContract`? | holds, 4182 states |
| `MemoryBoot` | Over a platform's life with two faults anywhere: do the pending bit, the stored timings, the suspended image and the scrub engine stay consistent, and does every boot end? | holds, 186400 states |
| `MemoryBootStatus` | EFI_SUCCESS means "Memory initialisation completed successfully" (`MrcWrapper.c:653`) | violated |
| `MemoryBootDebug` | "ASSERT (StackData->HobList != NULL)" (`Fsp2_0Lib.c:88`) | violated |
| `MemoryMap` | For every combination of sizes: do the ranges partition the memory after each cut; is the SMM window TSEG? | holds, 2052 states |
| `MemoryMapRanges` | "ASSERT(NumRanges <= MAX_RANGES)" (`MrcWrapper.c:790`) | violated |
| `HobHeap` | Any sequence of builders, until the heap is full and after: are the HOBs inside, disjoint and found; is it a `HobList`, which never changes a HOB? | holds, 2422 states |
| `MemoryHobs` | Does the boot loader read in the list what the map says, and does the firmware write only into memory it reserved? | holds, 1818 states |
| `Training` | One call of each training function, two lanes, one or two ranks, odd signals: does every delay end where its signal says, does training stop only where it must, does it end? | holds, 1073288 states |
| `DelayCodec` | Both lanes of a module and the rank signals, delays on both sides of every boundary of the code: does each field read back what was put into it, by a set function, the defaults or restoring, and nothing else? | holds, 41591 states |
| `HteEngine` | Every boot's tests on up to two ranks, lanes failing at any time: does the engine run what was asked for, and is what it returns of that test? | holds, 5632 states |
| `FspApi` | Both versions, six calls in any order with resets between them: what can a wrong order reach? | holds, 1321 states |

`MemoryBootStatus`: `memory_test` records MRC_E_MEMTEST in `MrcData.status`;
`MemoryInit` does not read it.

`MemoryBootDebug`: `MemoryInit` makes no HOB list on a resume, and `MrcDone`
asks for one after every successful return. A debug build stops in every S3
resume; a release build hands over NULL. For that reason the other
`MemoryBoot` runs are of the release build.

`MemoryMapRanges`: with TSEG and a boot loader area there are seven ranges;
`MAX_RANGES` is `MAX_ROWS + 5`, and `MAX_ROWS` is 1. The seventh is written past
the end of an array on the stack of `MemoryInit`. Nothing compares the sizes with
the memory there is either. The properties of `MemoryMap` about finished maps and
their theorems are therefore stated for sizes that fit (`Fits`); of a map that
overran its array nothing is claimed.

Bounds. Four LFSR values are enough for a cycle, its advance and the fixed
point. `MaxFaults = 2` allows a reset during a boot that already follows an
interrupted one, or a lost NVS after a reset; the number of boots and suspends
is not bounded. `ScrubInterval = 1` turns scrubbing on. `MemoryMap` counts in
units of 256 KB, so that all literals of the code but 640 KB and 64 KB are
multiples of a unit and those two stay in order, and has an address space a few
times the memory: enough to wrap around. Each area is absent, small or so large
that the sum does not fit. `HobHeap` has a heap of 56 bytes at one of two
places, with lengths that do and do not need rounding: it is full after three to
six HOBs. `MemoryHobs` uses the sizes of the code in bytes.

`Training` has the delays of the code (clocks of 128 PIs, samples 26 apart, the
range of 1023) with two lanes: what a lane does to another needs no third. On
rank 0 there are also pulses as short as the distance of the samples, wide
transitions and lines that never change; edges are early, late and clocks away,
so that each search direction, each dead end and both ends of the range occur.
`SAMPLE_SIZE` is 2 instead of 6, which has ties and majorities too. A read has
24 x 24 settings instead of 64 x 64, with a minimum eye of 4 instead of 10: eyes
are diamonds, boxes and one that passes sometimes. The windows of a write lie at
both ends of the half clock, across its end, closed and blurred; WDQS is also too
small once. `DelayCodec` has the delays 17, 18, 52, 53, 71, 72, 1023 and 1024:
each side of the dead band's limits (18 and 52), of the limit of RDQS (71) and of
the pointer (1023). Two calls of `set_*` are enough for one to disturb the other.
`HteEngine` allows three tests of a stage: the first, one that keeps the
configuration and one that gives up. `FspApi`'s six calls are the four of a whole
boot and two out of order.

The theorems hold for all values of these constants.

Fairness. The firmware and the boot loader are one sequential program; it takes
its next step as long as it has one. That is `WF` of the sequencer in `MemInit`,
of `Firmware \/ Loader` in `MemoryBoot` and of `TrainingNext`. Nothing is assumed of
the environment: suspends, resets and power failures may never come, signals and
tests may say anything their constants allow, for ever, and the training engine
need not end (`WaitForHteComplete` would then wait for ever). Deadlock
is not an error where the program does stop, at the return of `Mrc`, at the end
of a training function or in a dead loop; `FspApi` and `HobHeap` are checked for
it.

Every property of a run has a mutant of the code that breaks it (`PROJECT.json`), a
conjunction of parts one for each part; the mutated forms stand just above the
definitions they change. The parts of `Training`'s properties stand in the modules
of the functions they are about:

| Property | Parts |
|---|---|
| `StopsOnlyWithoutSignal` | `DeadWithoutEdge` (search), `DeadOutsideBurst` (`rcvn_cal`), `DeadOutOfReach` (`wr_level`), `DeadOnClosedEye` (`rd_train`), `DeadWithoutWindow` (`wr_train`) |
| `StrobesPlaced` | `PreambleCentre` (`rcvn_cal`), `OnOwnEdge` (`wr_level`) |
| `SharedDelaysSuit` | `SharedInPreamble` (`rcvn_cal`), `SharedPasses` (`wr_level`) |
| `SidesNeverMeet` | `EyeOpen` (`rd_train`), `SidesApart` (`wr_train`) |
| `CentresPass` | `CornersPass`, `CentrePasses` (`rd_train`), `OneRankCentred` (`wr_train`) |

## 4. The theorems

`MemInit_proofs` proves `MrcSpec => []MrcInv`. The properties speak of the
moment `MemInit` returns; the inductive invariant has to say what each entry of
`init[]` has established by the time the loop is past it. Its parts follow the
hardware (`ControllerInv`, `DevicesInv`, `PhyInv`, `DelayInv`, `LayoutInv`),
the caller's obligations (`EntryInv`) and the seed (`SeedInv`). Each of the 27
kinds of step is one case of `MrcStepType` (types) and of `MrcStepProgress`
(the rest). `ecc_enable` and `enable_scrambling` have lemmas of their own: the
fill succeeds only because the controller, the devices and the PHY agree by
then; and since `Lfsr` is one to one and maps `AllOnes` to itself, nothing else
leads there. From the invariant follow all state properties of the run, the types, what a resume
reads back (`ResumeReadsBack`), the
action property `ResumeKeepsContent`, and that each step of the sequencer is a
step of `MrcContract` or leaves it alone.

`MemoryBoot_proofs` proves `Spec => []BootInv` for any number of faults. It
reuses `MrcInv` for the steps of the MRC (`RunMrc`) and adds: the pending bit
and what an interruption leaves (`PendingInv`), the hardware while memory is in
use (`HardwareInv`), which timings exist where (`TimingsInv`: at most one set
is stored, and a resume runs with exactly that one), what is known of the DRAM
while the platform waits to wake up (`ImageInv`), and the check bits (`EccInv`).
The link between them is the interesting part: a suspended image is readable
because the timings in NVS describe the hardware whenever the OS runs, and a
reset during a resume cannot spoil this because the pending bit keeps the next
run from using timings for devices in an unknown state. The types, `MemoryUsable`
and `PendingBitMarksMrc` are only proved.

`MemoryHobs_proofs` proves `MapSpec => []MapInv` for all sizes and any width of
the addresses. `RangesPartition` is inductive once the invariant says where the
extended memory is: from 1 MB to `MemoryAddress` exactly, with room for the cuts
still to come (`Layout`, `ToCut`), every range cut off lying above. That the
room is enough is where `Fits` comes in, and with it no subtraction wraps. A cut
moves the addresses above the new `MemoryAddress` from the extended range to the
new one (`TrimPartition`). `RmuCopyReserved` and `FspAreaIsLast`, which are only
proved, say where the copy of the RMU binary and the area of the FSP are. The SMM window is exact because TSEG and the memory
are multiples of the register's granularity: `SmmOK` says which addresses were
written to it, and three lemmas about quotients turn that into a statement about
every address. `RmuOK` remembers where the range for the RMU binary is.

The same module proves `HeapSpec => []HeapInv`: the HOBs lie between `HobList`
and the top, and are disjoint. That needs that a subtraction from `HobList` does
not wrap, hence the assumption that a length is less than the address of the
heap. From one lemma about a HOB put below the others (`PutKeeps`) follow the
three state properties and the action property `HobsStay`.

Reading the list is proved too. `GetNextHob`'s walk is a recursive function on the
addresses of the heap; that it exists follows because every HOB ends above its
start, so that a walk meets larger and larger addresses (there is no least address
it fails at). Of such a walk the module shows what a search by name returns
(`GuidHobAlwaysFound`: the newest HOB of that name, or nothing) and that the list
read upwards grows at its front and never changes: each step of the heap is a step
of `HobList` (`HeapIsAList`), a builder that finds no room included.

`WritesAlwaysReserved` puts the two together: what the firmware itself writes, the
copy of the RMU binary and every HOB, lies in a range the map keeps from the OS.
Its invariant says of the time before the heap exists that the ranges are those of
a finished map (`Early`), and afterwards where in the last range the heap is
(`Late`).

`RangesAlwaysReported` and `OwnersAlwaysReported` are what the boot loader learns:
exactly the map, whose areas are whose, and the NVS and SMBIOS data. `TellInv` says
after each HOB of `BuildHobs` which part of it has been told; that nothing is
dropped on the way is a sum of lengths, which `HobsAssumption` says the heap has
room for (with the code's sizes, 744 of its 1024 bytes).

`Training_proofs` begins with a search, for all signals, lanes and
sizes. `EdgeInv`: a lane that looks forward could be sampled 0 where it is or one
step behind, a lane that looks back 1. A vote only counts values the signal had
(`VoteIsLevel`), so the property holds of noise as well. `DeadInv` remembers that
a lane has seen the level it came from at every delay it walked over; a lane that
leaves the range has therefore seen all there was on its way. `StepValue` is the
unsigned arithmetic: one step below 0 is a delay the register refuses. For a clean
signal the three samples also tell that the walk does not begin behind the edge it
is to find, so the search ends at the nearest one (`SearchFindsNearest`).

Then it proves of any behaviour of `Training`:
- `EdgesAlwaysBracketed`, `NearestAlwaysFound` and `DeadAlwaysWithoutEdge`: the
  searches inside `rcvn_cal` and `wr_level` keep the invariants of a search
  (`CallInv`), because each begins with `Search`, which establishes them whatever
  the rank before it left;
- `TrainingTypes`: the delays stay in range. Of the averages over the ranks it needs
  that a sum over a finite set of numbers in a range, divided by how many there are,
  is in that range (`DataLemmas`);
- `ModeAlwaysMatches`: `ModeInv` ties the levelling switches to the place in
  `wr_level`;
- `StrobesAlwaysPlaced`: which edge of a burst a search finds, from where it starts
  and the period, jitter and number of pulses (`StrobeAssumption`), and which pulse
  it steps back to; for `wr_level`, that the coarse test fails at every edge but the
  lane's own (`CoarseAssumption`), so that stepping back a clock at a time stops
  there. `DeadOnlyOutsideBurst` and `DeadOnlyOutOfReach` are the other outcome;
- `SharedDelaysAlwaysSuit`: the rolling average of close enough delays suits each
  rank, assuming `NUM_RANKS <= 2`. With three, two ranks can pull the average away
  from the third, and TLC finds that; the code has two;
- `SidesAlwaysApart`, for an eye: `RdInv` has the coordinates in their range and the
  eye open. A side moves by one, is compared with the other side for equality, and
  starts again from its outer end when it has met it (`NewXInside`, `VrefInside`);
- and for a window: `WrInv` keeps the sides of a window in the half clock
  before WDQS. The left end may be below 0 before `set_wdq` has seen it, so the
  invariant distinguishes the sides before (`AtReach`) and after it
  (`WindowApart`);
- `DeadAlwaysWithoutWindow` and `OneRankAlwaysCentred`: every delay outside the sides
  was tested and failed (an end a lane stands at was not), but the first rank only;
  a later rank begins with another one's delay in the register;
- `CornersAlwaysPass`, `SharedCentreAlwaysOwn` and the part of
  `StopsAlwaysWithoutSignal` about `rd_train`: behind a side, at each reference
  voltage given up, all delays of the eye failed; the ranks with the same eye
  therefore retrace the steps of the first one and move nothing it left.
  `StopsAlwaysWithoutSignal` puts the five reasons to stop together;
- `CornersAlwaysFound`: no reference voltage is given up at which the eye is open
  (`RowsTried`; a right side also gives up those that are open at the left side's
  delay only), so the sides end at the corners of the eye (`CornersOf`), which the
  eye alone determines. The placement is then the middle between these four settings,
  and `CentresAlwaysPass` needs of an eye only that this one point is in it and that
  RDQS has its margin (`WellShaped`). TLC checks that the eyes of the run have that
  shape (`ShapedEyes`); one that is bent around its middle does not, and is not
  claimed to be read.

`DelayCodec_proofs` proves that `DelayCodec` implements `DelayRegs` (`CodecIsRegs`)
for all delays of up to 32 bits. `Owner` works out, from a register and a bit, the
one field that bit belongs to; that it is right (`OwnerOfBit`) says that no two
fields share a bit. A set function then leaves its field holding the value
(`AfterHolds`) and every other as it was (`AfterAlike`), and since a number is the
sum of its bits (`ReadBack`) the get function returns that value (`HoldsReads`).
`CodecInv`: until the firmware stops, each field holds a delay in its range, or is
as the reset left it and was not touched since; what was saved is in range.
Setting many fields (`SetAll`, a fold) has these properties for every order in which
it takes the fields, as there is no smallest set of fields without them.
`DeadBandAlwaysMatches` follows from what a field holds. Each action is then shown to
be its own step of `DelayRegs` (`RefinesSet`, `RefinesStore`, `RefinesRestore`,
`RefinesDefault`, `RefinesReset`): a restored field reads the number that was read
when it was stored.

`HteEngine_proofs`: `SetUpInv` says that whenever a test is about to start, either
a configuration was asked for or the registers still hold one of this stage; from
it follow types and `ConfigAlwaysMatches`. `LatchInv` says that the latch holds
exactly what was seen since it was cleared; it needs `ResetEnables`, because the
memory test of a boot that does not train never enables error reporting
(`HteMemInit` does not call `EnableAllHteErrors`) and relies on what registers A2
to A4 hold after a reset.

`FspApi_proofs`: the theorems are for any number of calls and any set of versions.
That a signature is found only where an initialisation since the reset left it, and
nobody wrote since, is the part of `ApiInv` that `ApiLaterAfterMemory` needs.
`RefusedHarmless`, that a refused call changes nothing, is only proved.

Assumptions: `SeedAssumption`, `LfsrAssumption` (facts about `lfsr32` and the
clock mask), `BootAssumption` (types), `MapAssumption` (sizes that an address
can hold, memory and TSEG in whole grains of HSMMC), `HeapAssumption` (a heap
of a multiple of 8 bytes that holds the END HOB, above any length),
`HobsAssumption` (names and lengths of the HOBs, and room in the heap for those of
a boot), `EdgeAssumption` (a sample has a value, and a delay with the sample
distances added does not wrap), `RanksAssumption` (there is a rank),
`ClockAssumption` (a clock has four quarters; jitter and sample distance are at most
one of them), `RcvnAssumption`, `LevelAssumption`, `ReadAssumption`,
`WriteAssumption` (the starts of the searches are in range, tests have an outcome,
twice a quarter clock does not wrap), `StrobeAssumption` (a strobe has a preamble
and then a burst of pulses like a clock), `CoarseAssumption` (writes pass around the
lane's own clock edge and at no other), `CodecAssumption` (at most eight lanes: the
registers of more would run into those of the clock; 32 bits at most; a mark for
nothing saved that is not itself saved timings), `HteAssumption` (a boot ends with
the memory test), `FspAssumption`. TLC evaluates them in the runs of their modules.

What is recursive is proved about without induction over data: the recursive
functions and folds are shown to exist, and to have a property, by looking at the
least number, address or cardinality for which they would not (`LeastNat`,
from the theorem that `<` on the naturals is well founded).

Only model-checked: liveness (`BootTerminates`, `TrainingEnds` and the fairness part
of `MrcImplementsContract`), which needs ENABLED.

## 5. Where the code does not do what is said of it

Three runs show a disagreement between the code and a statement in it:
`MemoryBootStatus`, `MemoryBootDebug` and `MemoryMapRanges`, above. The models
show the following as well; the properties are stated so that they do not claim
the opposite.

- `MrcWrapper.c:762`: a reset during a resume leaves the PMSW bit set. The next
  call, again for a resume, forces a cold boot, which tests the memory;
  `MemoryInit` still takes the resume path and returns EFI_SUCCESS
  (`meminit.c:2206`: "For S3 resume memory content has to be preserved").
  `ResumeFaithful` is of resumes that run in `bmS3`.
- `HobLib.c:256` promises an ASSERT when there is no room for a HOB; the builders
  return without one. `HobsStay` says what holds then.
- `Fsp2_0Lib.c`: the heap ends at `HeapStart + 0x400`, whatever the size of the
  area (`QuarkFsp2_0.dsc:536`); `WritesStayReserved` assumes an area that large.
- `meminit_utils.h:21`: SAMPLE_SIZE "must be odd number" and is 6; a tie is
  taken for a 0 (`meminit_utils.c:1111`).
- `meminit.c:1551`: training closes the eye in "until we find a minimum required
  RDQS eye", but the sides are compared with fixed limits and with each other for
  equality (`meminit.c:1708`): an eye of one code is accepted.
- `meminit.c:1583`: "Y coordinate data (passing VREF values)" has no rank; a rank
  that moves VREF moves it for the ranks before, which are not tested again
  (`meminit.c:1718`). `CornersPass` and `CentrePasses` are of ranks with the same
  eye.
- `meminit.c:1991`: the starting delays of all ranks are programmed into WDQ
  registers the ranks share before the first rank is tested, so a rank is tested
  at another one's delay first. Only the first rank is sure to test everything
  outside its sides: `OneRankCentred` is of one rank, and `DeadWithoutWindow` is
  about the delays a rank has tested (`TestedDelays`).
- `meminit_utils.c:176`: RDQS "shouldn't go above 0x3F" and is compared with 0x47.
- `IntelFsp2Pkg/FspSecCore/Ia32/FspApiEntryM.nasm:65`: FspMemoryInit of FSP 2.0
  calls no check, so a second call initialises memory again. `OneInit` is of 1.1.
- `IntelFspPkg/FspSecCore/FspNotify.c:43`: NotifyPhase, FspSiliconInit and
  TempRamExit of FSP 1.1 return EFI_SUCCESS whatever was called before, against
  `FspNotify.c:33`. `LaterAfterMemory` is of 2.0.
- `IntelFspPkg/FspSecCore/SecFsp.c:113`: the platform data "was pushed onto stack
  after TempRamInit API", but not on the way through FspInit: `SecGetPlatformData` then
  walks over whatever is there. `MemoryInitFindsEntries` is of FspMemoryInit only.
- `IntelFsp2Pkg/FspSecCore/FspNotify.c:47`: FSP 2.0 looks for its global data on a
  stack in temporary RAM; they are lost with it (`SiliconInit.c:21`).

## 6. Not modelled

Left out: register encodings of the timing registers and board constants
(`gen5_iosf_sb_definitions.h` but for the delay fields, the static tables of
`meminit.c`), whose values are right or wrong in themselves; what
`memory_options.h` does not build (RX_EYE_CHECK, BACKUP_*, MRC_SV with its menu of
tests); the values the tests of `hte.c` write to the engine (`HteEngine` has which
configuration they make up, and that they are written); a second channel; resource
attributes and
SMBIOS constants in HOBs; serial output and printing (`lprint.c`), which keep no
state another part reads; the getters of the two FSP libraries and the PEI core
that the SEC cores start; the switch to protected mode and the reset vector;
headers, platform descriptions and build files. `PROJECT.json` lists each part
with its reason.

The composition stops at two points on purpose. `MemInit` takes a training
function as one step that succeeds or stops, which is what `Training` shows of
each (`TrainingEnds` and the properties of where it stops); running both in one
state space adds no interleaving, as nothing else runs then. `HteEngine` and
`Training` meet in the test: the first shows that a result is of the test asked
for, the second starts from a result that is.

## 7. Plan

What could come next, in this order:

1. `SharedPasses` and `SharedInPreamble` for any number of ranks, with the distance
   the average may have from each.
2. The SEC core of FSP 1.1 with the migration of temporary memory.
3. The register writes of `ddrphy_init` and `prog_*` that depend on speed, as
   functions of the memory-down options.
