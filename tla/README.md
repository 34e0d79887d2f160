# A TLA+ model of RiscvEmu

RiscvEmu is a RISC-V emulator library in C++ (`src/Libraries/RiscvLib`; paths
below are relative to it). This directory models its stateful parts, checks
them with TLC on small instances and proves the central results with TLAPS.
`PROJECT.json` is the index: components, runs, the source lines behind every
definition, mutants, findings, hazards and theorems.

## The system

| component | state | operations | interacts with |
|---|---|---|---|
| Memory monitor, access (`cpu/detail/cpu_MemoryMonitor.cpp`) | two table mutexes, two counters, per hart one shared and one exclusive entry with mutex and condition variable | `Aquire*Access`, `TryAquire*Access`, `Release*Access` | called by every hart's thread |
| Memory monitor, reservations (same file) | per hart one reservation entry; `m_ReserveCount` | `AquireReservation`, `ReleaseReservation`, `TryRevokeReservation`, queries | stores of the instruction runner revoke |
| Profile program (`Test/Programs/CpuProfileMemoryMonitor`) | threads and rounds | start, rounds, join | the only multithreaded client |
| Device scheduler (`hw/hw_Scheduler.cpp`) | heap of (device, next cycle), timer | `AddDevice`, `RemoveDevice`, `ProcessCycle` | calls devices, called by `System` |
| Memory controller (`mem/`) | one RAM region, IO regions, devices | `Initialize`, `AddMmioDev`, reads and writes of four widths | MMIO devices, memory manager |
| Memory manager (`cpu/detail/cpu_MemoryManager.cpp`) | mode, page table address and level count, SUM, MXR | mode and table setters, translated and mapped reads and writes, fetches | memory controller (page tables too), hart |
| Hart (`cpu/Hart/`) | registers, PC, CSRs, privilege | fetch, execute, CSR access, mapped access, reset, traps | memory manager, decoder, memory monitor |
| Decoder, encoder, disassembler (`cpu/detail/cpu_DecoderImpl.h`, `cpu/cpu_EncodeInstruction.h`, `cpu/cpu_Disassembler.cpp`) | none | decode and dispatch, encode, print | the hart and the disassembler are what the decoder calls |
| PLIC (`intrpt/intrpt_PLIC.cpp`) | sources, targets, pending bits, priority queue | register reads and writes, signal, claim, complete | interrupt sources and targets; calls back into targets |
| System, utilities, diagnostics | none, or wiring | | |

What makes each hard to test, with the line where it bites, is the `hazards`
list. In short: the monitor's access protocol is concurrent code with six kinds
of lock and a condition variable per entry; its reservations are concurrent code
without a lock; the scheduler keeps a heap under an order that changes with
time; the memory controller and manager have partial failures and boundary
arithmetic, and page tables lie in memory that the harts write to; the instructions
are many and their bits are taken apart in three places; the PLIC is re-entrant. Nothing is persisted and nothing is sent
over a network, so crashes and lost messages do not occur.

What makes each component correct:

* access: shared and exclusive holders of one address exclude each other; the
  counters agree with the tables; nobody waits for what will not come;
* reservations: the counter agrees with the table; a revocation leaves nothing;
  a reservation is lost to any store to its word;
* scheduler: what is added is processed at its rate for as long as it stays, and
  a failure stops the cycle at the failing device;
* memory controller: no region or device shares bytes with another, an access
  reaches one device that contains all of it and keeps reaching it, and memory
  reads back what was written;
* memory manager: an access passes only with the permissions its kind needs, a
  refused one leaves memory alone, pages stay apart, and every walk ends;
* decoder, encoder, disassembler: they agree on every instruction;
* hart: a call that fails leaves nothing half done, and the 32-bit instructions
  are the 64-bit ones cut and extended;
* CSRs: only sufficient privilege reads, only writable numbers are written;
* PLIC: every signalled interrupt is claimed once and can be completed.

## Modules

**`MonitorAccess`** has one process per hart. A hart's `pc` names the place in
the code, and a step ends where another thread could see a difference: at a
lock, at a read of an entry its owner may clear, at a wait and at a notify. An
unlock belongs to the step before it. `mutex`, `count`, `entry` and `entryMutex`
are the members of the same role; the pair of shared and exclusive copies is
indexed by `Kinds`. The blocking and the `Try` call of one kind run the same
code up to the first match, so they share actions and differ in `ScanRefuse`
and `ScanBlock`. The scan of a table is one step: the mutex that is held keeps
entries from being added, so they can only become inactive while the loop runs,
and a scan with any outcome has that outcome at some single moment of it. A
condition variable may wake a waiter for no reason (`SpuriousWakeup`). A hart
has one request at a time, as the profile program's threads have.

**`AccessGrant`** is what that protocol promises, with no lock, counter or table:
who holds what and when a grant is allowed. `MonitorAccess` implements it
through `readers <- entry["shared"], writers <- entry["excl"]`.

**`MonitorProfile`** extends `MonitorAccess` with the profile program: threads
that each run a number of rounds, and the joins of `main`.

**`Reservations`** has the harts, addresses and words that the next two share.

**`MonitorReservations`** is the abstract specification of the reservations: one
action per call of the interface. An entry is the reserved offset or `None`; the
stale address of an inactive entry is never looked at.

**`MonitorReservationsRace`** has the same calls step by step. No lock is taken
in the code, so with `Serial = FALSE` any two calls interleave, and `++` and
`--` are a load and a store. With `Serial = TRUE` a call starts only when no
other runs, and each call then implements one action of `MonitorReservations`;
`seen`, the table as it was when no call was running, is the mapping.

**`DeviceScheduler`** has the actions of one `ProcessCycle` loop iteration
(`Run`, `Fail`, `Tick`) and the two list operations. The priority queue is
modelled as the heap that libstdc++ builds, because the comparator reads the
timer: the order changes while the heap does not, so which device is on top
follows from the layout. The heap's operators are external in the map (the
standard library is not part of the repository); they are recursive functions over
the layouts of the queue's length. A frequency is any number but zero: above
`TimerFreq` the period is zero, as integer division has it.

**`MemoryController`** has one action per outcome of an iteration of
`Initialize`'s loop (`AddMemRegion`, `AddIoRegion`, `RefuseRegion`,
`RefuseType`), `AddMmioDev`, and the writes to main memory. `next` is the loop's
index, and other calls wait for its end: one thread sets a system up. Addresses
are numbers modulo `2 ^ AddrBits`, so `GetEnd` wraps as the code's does.
`FindIoDevice` and `ReadMemory` are operators: they change nothing. A value is written by shifting it
right a byte at a time (`Above`) and read by taking the bytes together, the highest first. Before the
first region `m_MemRegion` is uninitialised unless its owner zeroed it; `Init`
chooses from `Leftovers`. `refused` is history. Left out are what a device does
with an access, the result codes of accesses (a write that finds nothing returns
`ResultReadAccessFault`), and bytes beyond main memory's block.
`MCMemoryController` gives it a small address space.

**`Words`** has the arithmetic of the machine words. A word is the set of its
bits that are set: TLC's integers end at 32 bits, the code's words are 32 and 64
bits wide, and what the code does with them is mostly bit fields, shifts and masks,
which are intersections and unions. Products, quotients and values are loops, written
as steps taken one after the other (`After`), which is all that **`Iteration`** has.

**`Translation`** has what both modules below need: memory, a function from the
doublewords that exist to their contents, its loads and stores of the four widths,
page table entries and their bits, the walk as one recursive function
(`GetPteImpl`), the checks and the physical address.

**`MemoryManager`** has the memory managers of several harts over one memory that
holds the page tables. A call is a walk of one entry per step, the check with the
write of the marked entry, and the access; between the steps other harts may write
anything they can reach, tables included. An access of several bytes is one step
(the code's is a machine access where it is aligned), and the read of an entry too.
`start` and `disturbed` are history: memory when the call began, and whether another
hart has changed it since. `m_EnableSUM` and `m_EnableMXR` are read and never set;
they and the members that are read before they are set take any value of a
constant. `MCMemoryManager` gives it tables, pages and calls.

**`Decoder`** has the instruction formats, the decoder as an operator from a word to
the call it makes (none for an invalid word), the encoder, and the disassembler: what
`DisassembleInstruction` gives is the mnemonic and the operands in the order they are
printed, which is what tells two listings apart.

**`Hart`** has one action per call of the hart's public interface. `ExecuteInst`
decodes an instruction and takes one of the `Run...` actions, which are the
instruction runner's handlers grouped by what they touch; fetches, loads, stores and
mapped accesses go through `Translation`'s walk as a whole. One hart runs, so a call
is one step; `UndisturbedIsAtomic` of `MemoryManager` is what justifies this. `csr`
has what the CSRs stand for, the memory manager's registers included. Where C++
leaves an integer division undefined there are two actions, for what the library's
two machines do: an exception that ends the emulator, or a quotient of zero. A
register that the assembly reads and nobody has set may hold any of `LeftWords`.
`MCHart` gives it a program, its page table and a call of every kind.

`MonitorAccessProofs`, `MonitorReservationsProofs`, `MonitorReservationsRaceProofs`,
`DeviceSchedulerProofs`, `MemoryControllerProofs`, `MemoryManagerProofs` and
`HartProofs` hold the theorems; `TranslationProofs` has the facts about words and
page tables that the last two, and the bytes of the controller, share.
Operators whose comment starts with "Mutant of" are the faulty variants that
`PROJECT.json` pairs with properties: each property is violated when the
variant takes its original's place.

## Runs

| run | instance | result |
|---|---|---|
| `access` | 3 harts, 2 addresses | all safety properties, `AccessGrant`, `SpinIsForever` and the proofs' `IInv` hold |
| `wakeup` | 3 harts, 1 address | `NoLostWakeup` violated |
| `profile_hangs` | 2 readers, 1 writer, 2 rounds | a run ends, or a writer spins, or a wakeup was lost |
| `taking_turns` | 4 harts, words of 3 bytes, 4 addresses in 2 words, serial | counter never zero too early and exact between calls, one holder for each offset; the calls are atomic |
| `overlap` | 2 harts, concurrent | `QuitsOnlyWhenNoneActive` violated |
| `scheduler` | 2 devices of frequency 1, 4 or 5, 4 containers, timer of 4 | nothing lost, a failed device is next; only frequencies above the timer's keep a call from returning, and do; a device whose cycle is behind the turn's end never runs again |
| `scheduler_rates` | the header's example | `DueDevicesRun` violated |
| `controller` | 16 addresses, 4 region lists, 2 devices, accesses of 1 and 2 bytes | accesses fit their device, routes are stable, refused lists stay refused, writes read back |
| `controller_overlaps` | 3 IO regions, 2 devices | `OverlapsRefused` violated |
| `translation` | 2 harts, one call each, 3 memories, 8 calls, 3 modes | accesses are granted, faults write nothing, undisturbed walks are atomic, marks only add, frames stay apart, every call returns |
| `translation_loads` | the same | `ReadablePagesLoad` violated |
| `hart` | 1 hart, 2 calls, an instruction of every function; 11,264 words for the codings | what is decoded encodes and prints back; failures and refusals leave nothing behind; 32-bit results agree |

**Bounds.** Three harts are the least with two waiters on one entry, or with a
reader at another address while a reader and a writer meet; two addresses are
the least with a conflict and a bystander. Addresses are only compared, so more
of them add nothing. The reservation runs have addresses of two words, so that
an offset occurs in both; four harts in `taking_turns` are the least that fill
a table of three offsets and have one left to revoke and take over. `WakeupLimit` bounds the spurious wakeups
of a profile run, `RoundCount` its rounds, `QueueLimit` the scheduler's queue;
four containers give the heap a second level. `TimerFreq` stands for the code's
1'000'000: what matters is that it is a multiple of the periods and is reached. The
`scheduler` run's frequencies are the lowest, whose cycles lie a whole turn ahead, the
timer's own, and one above it.
`CountSize` keeps `m_ReserveCount`'s wrap-around, above the number of harts.
The controller's sixteen addresses hold regions side by side, one around another
and one at the top, which are all the relations two intervals tested at their
ends can have; `RegionLimit` and `DeviceLimit` (three IO regions, two devices in
each) allow every pair. A byte has two values and accesses one or two bytes: the
order and the borders of bytes are what matters, not their number.

Words have their real widths everywhere in `Translation`, `MemoryManager`,
`Decoder` and `Hart`; memory is small instead. Five doublewords are the least with
a table that points at itself, two leaf entries and two pages. The `translation`
run's three memories have ordinary pages, large pages whose frames are not there,
and a page that is only readable beside a table outside of memory. `Budget` bounds
the calls of a hart: one per hart lets every two overlap in every way, and a second
one would start from a memory that `Contents` could have had. The tables there are
walked with one level (a count left over) and three (Sv39); Sv48 and Sv57 add levels
of the same kind. In the `hart` run two calls suffice for the properties, which
relate two states, to be tried after a call of every kind (a changed `satp`, register,
counter or memory). Its registers hold operands whose quotients overflow and small
ones. `Coded` has every opcode and one that is none, every `funct3`, and the bits at
the ends of the fields in every combination; a bit in the middle of a field goes
where its neighbours go.

**Fairness.** `MonitorProfile` assumes that every thread keeps running while it
can: weak fairness of its next round and of its step in the monitor, and nothing
about which thread wins a mutex or about spurious wakeups. `DeviceScheduler`
assumes that `ProcessCycle` is called again after it returns and that a call
proceeds, nothing about the callers of `AddDevice`. `MemoryManager` assumes that a
hart in a call goes on with it (weak fairness of each hart's `Step`): harts run in
threads of their own, and no step of a call waits for anything. The other modules
assume no fairness.

**Deadlock** is checked in every run but `profile_hangs`, where the program really
can stop: two readers wait for the writer, one is woken, finishes its last round,
and the other sleeps for good, and `controller`, `translation`,
`translation_loads` and `hart`, where nobody has to call again once the bounds are
reached.

## What the checks show about the code

* Exclusion holds. The hand-over from the exclusive to the shared mutex
  (`SwapLocks`), which looks like the weak point, is safe because an exclusive
  request needs both.
* Exclusive holders do not exclude each other. The code never looks for them, and
  nothing says that it should; `AccessGrant` states it.
* An exclusive request that finds the counter up and no entry of its address
  spins with both mutexes, and the theorem `SpinForever` says it never stops. A
  reader of any other address suffices, or one that is between its two release
  steps. `TryAquireExclusiveAccess` has the same loop.
* `notify_one` loses wakeups as soon as an entry has two waiters.
* There is no third way to hang (`OnlyTwoWaysToHang`).
* Reservations used by one hart at a time keep their counter exactly, and no offset
  has two holders (`CountExact`, `OneHolder`, `ImplementsAtomicCalls`); used at the
  same time they do not (`overlap`). What is checked and proved of `taking_turns` says
  nothing of overlapping calls, so the other window in the code, an entry that is
  active before it has its address, is in the model but below no property: the
  counter is lost first. In either case `GetAlignedAddress` keeps the offset
  within the word and drops the word.
* The scheduler's list never loses a device. It passes over due devices
  (`DueDevicesRun`), and it stops running a device at the end of the timer's first
  turn: the timer wraps, the device's next cycle does not. `StrandedIsForever` says
  what follows: a device whose next cycle is at or behind the turn's end is never run
  again, and still sits in the queue. The property describes this defect, it does not
  defend it. A failed device
  is retried first, unless `RemoveDevice` rebuilds the heap in between: a device
  whose next cycle is a whole turn ahead then counts as due, and the timer can
  move on past the failed one.
* `AddDevice` takes every frequency. Above `c_TimerFreq` the period at
  `hw_Scheduler.cpp:62` is zero, the device is due again in the cycle it has just
  run in, and the loop at line 11 does not end. `OnlyTooFastHang` says that nothing
  else keeps a call from returning, whatever the heap's order, and
  `TooFastIsForever` that with nothing but such due devices in the queue the call goes
  on until one of them fails. With other devices in the queue the order of the heap
  decides whether the call ends.
* In the controller the inclusive end of `Includes` makes the overlap tests too
  strict by one address, and that makes up for the search among IO regions and
  devices, which goes one address too far. It does not for main memory, which is
  compared before any search: one added directly below an IO region takes the
  region's first address, beyond its own block.
* Overlaps are accepted, of regions and of devices, although the header promises
  `ResultRegionAlreadyExists` for a region that overlaps and a comment says that
  `AddMmioDev` makes sure a new device does not: only the two ends of what is added are
  tested, so it may lie *around* what there is. `OverlapsRefused` is the weaker of the
  two promises (`RegionsApart \/ DevicesApart`), and the run `controller_overlaps` ends in a
  state that breaks both. How far it goes is proved (`RegionsApartOrNested`,
  `DevicesApartOrAround`): below the top of the address space nothing crosses an end of
  another. An inner device keeps its accesses (`RoutesStable`) unless it is main memory
  that was put around it.
* Devices are stored by absolute address but looked up by the address relative to their
  region. In a region at address zero the two agree, and `DeviceAccessesFit` holds there
  and is about nothing else. In any other region a device is found at the wrong
  addresses or not at all; the model does the same, and no property says otherwise.
* A region that reaches the top of the address space is accepted and inert: its
  end wraps, so it includes no address and is in nothing's way either: what overlaps
  it is accepted. The theorems on overlaps therefore exclude it.
* `Initialize` is not atomic. A list that failed after one of its IO regions was
  added fails for ever (`RefusedStaysRefused`). Lists without such a region may
  succeed later, when another main memory has taken the place of the one in
  their way.
* The checks of a translated access have no `break`: a load needs a page that may be
  read, written and executed, a store one that may be written and executed
  (`ReadablePagesLoad`). Access is therefore never granted where it should not be
  (`OnlyGrantedAccesses`), which holds against other harts' writes too, because the
  checks are made on the entry that was read.
* That entry is also what is written back, later: an entry that another hart writes
  in between is lost. `FaultsWriteNothing`, `MarksOnlyAdd` and
  `UndisturbedIsAtomic` are about undisturbed calls for this reason, and do not catch the
  loss; `OnlyGrantedAccesses` is about all calls.
* The page number of an entry is used where it stands, two bits below the address it
  would have if it were shifted, five of the nine bits of each index are used, and a frame is
  joined to the page offset with OR. Pages are apart as long as frames are aligned
  to their page, which is all that `FramesStayApart` says. Nothing refuses one that is
  not, and then pages do meet.
* Tables that point back at themselves do no harm (`EveryCallReturns`). Going back to
  Bare mode does: `SetTransMode(Bare)` sets the mode and then aborts, as there is no
  level count for it.
* A CSR's level is compared the wrong way round (`CanAccess`,
  `cpu_CsrReadWrite.cpp:15`): the higher a hart's level, the fewer CSRs it reaches. The
  comment at line 52 ("Make sure we can access this register from our current privilage
  level.") and the result it returns, `ResultCsrPrivilageTooLow`, say the opposite. The
  model has the comparison as it is coded, and no property or theorem states its
  consequences as if they were meant: a hart at machine level reaches only the numbers
  that ask for that level or more, so `satp` is writable by users only, and a hart that
  has been reset never translates.
* A `satp` write with an invalid mode changes the root before it fails, and a valid
  one returns `true`, which as a `Result` is not success. `misa`'s width field is
  written at the place it has on RV32.
* Memory and decoding failures and refused CSR accesses leave registers, CSRs and the
  program counter as they were (`FailuresKeepState`), but for the destination of a refused
  CSR instruction, which is set to zero. A write that `satp` rejects is not among them.
* `DIVUW` and `REMUW` extend with zeros; every other 32-bit instruction
  extends the sign (`WordResultsAgree`). The upper multiplications read a register
  that nobody has set.
* The decoder, the encoder and the disassembler agree (`CodingsAgree`); the text of
  fences leaves their operands out.

## Proofs

`MonitorAccessProofs` proves for any number of harts and any set of addresses:
`TypeOK`, `SharedExclExclusion`, `CountersExact`, `WaitersHoldNoTableMutex`,
`SleepsOnActiveEntry`, `SpinIsForever` and the refinement of `AccessGrant`. It
assumes what the modules assume: at least one hart, some address, and a `None`
that is neither a hart nor an address nor a request.

None of these is inductive alone. `IInv` adds what the code relies on silently:

* `Flow`: which requests and targets go with which place in the code;
* `Owners`: who owns which table mutex where, in particular that a shared
  request owns the exclusive mutex from its first lock to `SwapLocks` and the
  shared one in `Enter`, and that an exclusive one owns both from `check` on;
* `Entries`: an entry is active exactly while its hart holds access;
* `Counters`: the counters in terms of places;
* `Cleared`: no exclusive entry has the address of a shared request past its
  scan, and no shared access at all is granted when an exclusive request enters;
  that is where exclusion comes from, since nobody can add an entry without a
  mutex the request owns;
* `EntryLocks`: a waiter in `test` or `wait` owns the entry's mutex, so the entry
  it has tested cannot be cleared before it sleeps.

`Init => IInv`, preservation with one step per action, and the implications give
the theorems. The counters are cardinalities, handled by lemmas on adding and
removing one element. `SpinForever` is an action property: in a spinning state
`IInv` gives both table mutexes to the spinning request, which disables every
action that could lower the counter or grant a shared request. `Refinement` maps
`Enter` and `Clear` to steps of `AccessGrant` and every other action to a
stutter; the grants' guards come from `Cleared`.

`MonitorReservationsProofs` proves of the abstract calls `TypeOK`, `CountExact`,
`OneHolder` and `RevokesAll` (a revocation leaves no entry of its address) for every word
size; the counter and the holders are model-checked through the steps that implement
the calls. The inductive invariant joins the first three:
revoking stops at the first match, which is complete only because there is never
a second, and it quits on a zero, which is right only because the counter is
exact.

`MonitorReservationsRaceProofs` proves `TypeOK` however the harts' calls overlap.
`QuitsOnlyWhenNoneActive`, `CountExact`, `OneHolder` and the refinement of
`MonitorReservations` are about harts that take turns: they assume `Serial`, since without
it the first is false (run `overlap`). The assumptions on addresses, word size and `None` are the modules' own. `IInv` says of
each place in a call (`Progress`) how much of what the atomic call does has been done
since the call began, in terms of the table and the counter it found (`seen`); of the
counter, that it is off by one exactly while a call is between the two stores that
belong together (`Counted`); and that nobody else is in a call (`Alone`). The step
that returns is then the atomic call, and every other step a stutter.

`DeviceSchedulerProofs` proves `TypeOK`, `DevicesKept`, `ResumesAtFailed`,
`TooFastIsForever` and `StrandedIsForever` for any devices, frequencies above zero, timer
and length of the queue. The comparator reads the timer,
so the heap need not be one when the next operation starts, and nothing is claimed of
its order. What the heap operations do keep is every container: they are sequences of
swaps. `IInv` adds that the queue is not empty while a cycle runs or a failed device
waits; `DueStaysOnTop` is why a failed device stays next: the comparator reads its cycle,
the timer's, as one a whole turn ahead, no container that is added has a later one, and
an equal one does not rise above it. (A removal in between ends the promise, see above.)
The two properties of what never ends rest on the swaps as well: whatever pop and
push do to the order, the containers are those that were there and the new one, which is
due at once if its device is too fast; and a container that is not due is never the one
that runs.

`MemoryControllerProofs` proves `RoutesStable`, `RefusedStaysRefused`, `DeviceAccessesFit`
and the extent of overlaps (`RegionsNest`, `DevicesNest`) for every address width, list of regions and set of
devices, from the modules' assumptions. `FreeEndsNest` is the arithmetic: if
neither end of a new region lies in an old one, closed end included, the two are
apart or the new one is around the old. The first two invariants follow for each
action that adds. `RefusedStaysRefused` needs two facts about the past: the IO
regions a call has passed are in `ioRegions`, and every refused list has an IO
region there; regions are never taken away, so the loop finds that entry's first
address taken before it reaches the end. `RoutesStable` holds because all lists
only grow at their ends and the search takes the first match (`FirstKept`). `DeviceAccessesFit` holds because a device
whose end wraps includes no address and any other one ends where its size says.

`MemoryManagerProofs` proves `TypeOK`, `FaultsWriteNothing`, `OnlyGrantedAccesses`,
`FramesStayApart` and `MarksOnlyAdd` for any number of harts, memory, tables and
calls, from the modules' assumptions. Each hart's part of the invariant, `CallInv`,
joins three facts: `Quiet` (until its first write an undisturbed call has the memory
it began with), `Granted` (past the check, the entry allows the access and the
address is the one it leads to) and `Fresh` (an undisturbed call writes back the
entry that is still there). `OthersStay` says that a hart's step leaves the others'
calls alone and disturbs them when it changes memory, so the proof is about the hart
that acts. `MarksOnlyAdd` assumes that all roots are on doubleword boundaries
(`Aligned`); then every entry is one doubleword, and a mark changes two bits of it.
`UndisturbedIsAtomic` compares the steps with the walk as one recursive function, for any
tables, cyclic ones too, and any number of levels: an undisturbed walk is at the table
that the path of `GetPteImpl`, in the memory the call began with, has for its level, and
every entry it has passed points to a table (`Walking`); the two end at the same entry.

`TranslationProofs` is where recursion is dealt with. The library's induction theorems
take an operator as a parameter, which the provers cannot instantiate; instead a set
that has zero and with each number the next is shown to have them all, by its least
counterexample (`StepByStep`). From this follow that functions defined step by step
are what their equations say (`AfterIs` and its like), and the facts about words: the types of
what is computed, the borrows and carries, and that the lower positions of sums,
differences and products depend on the lower positions of the operands only.

The controller's `TypeOK` and `WritesReadBack` hold in any base and for any
widths. The solver knows nothing of powers, so these are steps of multiplication
(`WeightIs`), and a number is put together from its digits, the highest first
(`NumberOfBytes`). A write changes the bytes it covers, a read finds them, and every
other access that reads below or behind them finds what it found before.

`HartProofs` proves for any program, registers and memory:

* `TypeOK`, through every computation of every instruction;
* `FailuresKeepState`, from `Sound`: all registers exist, the root is aligned as
  `satp` gives it, and memory is made of doublewords. A failed or
  refused call has then changed marks of page table entries at most, and a refused CSR
  instruction its destination;
* `CodingsAgree` for every set of 32-bit words, not only the run's. Each field of an
  instruction is put back where the decoder took it from, and, fences aside, no two
  instructions are listed alike (`ListedOnce`);
* `WordResultsAgree`: what a sum, a difference or a product carries into position 32
  comes from below it and goes above it, so cutting the result of 64 bits gives that of 32.

Every invariant and action property, and both refinements, have thus a theorem. Only
model-checked are the three liveness properties, `OnlyTooFastHang`, `EveryCallReturns`
and `OnlyTwoWaysToHang`: liveness under fairness is out of the prover's reach. The
five violations are counterexamples that TLC finds. Nothing is proved about the library's heap
that the scheduler does not need, in particular not that a
device is run on time, which is false (`scheduler_rates`).

## Plan

1. *Done*: access protocol, abstract grants, profile program, reservations,
   scheduler, memory controller and their proofs.
2. *Done*: `MemoryManager` over modelled memory, with the walk at one moment as its
   abstract specification, and its proofs.
3. *Done*: `Decoder` and `Hart`: every instruction and CSR, and the first proof.
4. The composition of `Hart` with `MonitorReservations`, when the repository has
   instructions that reserve and stores that revoke.
5. `PLIC` and traps, when they can be used (see below): the abstract specification of
   the PLIC is a set of pending interrupts, each claimed once.
6. *Done*: proofs of the step-by-step reservations, the scheduler, the undisturbed
   walk, the bytes of main memory, and of all that is checked of the hart.
7. Further theorems: what the translation's results say about each other (the levels'
   pages are nested), and safety of the profile program over `MonitorAccess`.

## Not modelled

* **PLIC**: its file is compiled, but `PLIC::Target`'s three virtual functions and
  two members of `ITargetForCtrl` have no definition, so no program with a PLIC
  links. Beyond that, `RegisterSource` initialises a copy of the source and returns
  its address, the register interface is never given its parent, and enabling an
  interrupt looks at the top of an empty queue. No state of it can be reached, and a
  model of what was probably meant would be of another program. `AlignedMmioDev` only
  wraps its registers.
* **Traps**: `SetupTrap` has no caller and copies into staging fields that nothing
  reads; a failed instruction returns its result to the caller, as `Hart` has it.
* **RV32**: the library is built for 64-bit words; the branches for 32-bit ones are
  left out.
* **Logging, diagnostics, clock, `System`, tests**: pure output, a read of the host's
  clock, wiring and drivers. Result codes are modelled where a call's caller can
  tell them apart.
* Behaviour after undefined operations (a null context, a hart number out of range,
  an empty scheduler queue, a device frequency of zero or below) is excluded by the callers'
  preconditions, which the code asserts in debug builds only. Signed overflow in the
  32-bit instructions wraps, as both machines do. `MemoryMonitor::Finalize` destroys
  the tables and is not called by any client while harts run.
