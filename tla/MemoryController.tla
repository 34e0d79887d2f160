-------------------------- MODULE MemoryController --------------------------
(***************************************************************************)
(* mem::MemoryController (Sources/mem/mem_MemoryController.cpp): one main  *)
(* memory region, a list of IO regions, and in each of those a list of     *)
(* devices.  Initialize adds a list of regions one after the other and     *)
(* stops at the first conflict, AddMmioDev puts a device into a region,    *)
(* and an access goes to main memory or to the device found for it.        *)
(*                                                                         *)
(* An iteration of Initialize's loop is one step; the other calls wait for *)
(* its end, as in the single thread that sets a system up.  What devices   *)
(* do with their accesses is theirs and left out.                          *)
(***************************************************************************)
EXTENDS Iteration, Sequences

CONSTANTS AddrBits,     \* width of an Address
          ByteBase,     \* the number of values of a Byte
          Widths,       \* the accesses' widths in bytes
          Lists,        \* the region lists given to Initialize
          Leftovers,    \* what m_MemRegion may hold before it is initialised
          Devices, MappedSize,  \* devices and their GetMappedSize
          RegionLimit, DeviceLimit  \* bounds: IO regions, devices in a region

Space == 2 ^ AddrBits
Addresses == 0 .. Space - 1
Regions == [start : Addresses, length : Addresses]
Types == {"Memory", "IO", "Other"}
RegionInfos == [start : Addresses, length : Addresses \ {0}, type : Types]
IoDevs == [start : Addresses, length : Addresses \ {0}, dev : Devices]
Bytes == 0 .. ByteBase - 1

ASSUME SpaceAssumption == Space \in Nat \ {0}
ASSUME ListsAssumption == Lists \subseteq Seq(RegionInfos) \ {<<>>}
ASSUME LeftoversAssumption == Leftovers \subseteq Regions
ASSUME WidthsAssumption == Widths \subseteq Nat \ {0} /\ ByteBase \in Nat \ {0}
ASSUME DevicesAssumption == MappedSize \in [Devices -> Addresses \ {0}]

VARIABLES
  ram,        \* m_MemRegion: its start and length
  memory,     \* its bytes, by offset; none while the pointer is null
  ioRegions,  \* m_IoRegions: start and length of each
  devices,    \* the m_Devices of each
  list,       \* Initialize: the list it was given, empty when no call is running
  next,       \* Initialize: its next entry, 0 when no call is running
  refused     \* history: lists that failed after one of their IO regions was added

vars == <<ram, memory, ioRegions, devices, list, next, refused>>
call == <<list, next, refused>>

TypeOK ==
  /\ ram \in Regions
  /\ memory \in [0 .. ram.length - 1 -> Bytes] \cup {<<>>}
  /\ ioRegions \in Seq(Regions)
  /\ devices \in Seq(Seq(IoDevs))
  /\ Len(devices) = Len(ioRegions)
  /\ list \in Lists \cup {<<>>}
  /\ next \in 0 .. Len(list)
  /\ refused \subseteq Lists

Init ==
  /\ ram \in Leftovers
  /\ memory = <<>>
  /\ ioRegions = <<>>
  /\ devices = <<>>
  /\ list = <<>>
  /\ next = 0
  /\ refused = {}

-----------------------------------------------------------------------------
(* Regions and lookups *)

GetEnd(r) == (r.start + r.length) % Space

\* Both ends belong to the region.
Includes(r, a) == r.start <= a /\ a <= GetEnd(r)

\* The first element that includes the address: the set of its index, or empty.
FirstMatch(s, a) ==
  {i \in DOMAIN s : Includes(s[i], a) /\ \A j \in 1 .. i - 1 : ~Includes(s[j], a)}

FindIoRegion(a) == FirstMatch(ioRegions, a)

\* Mutant of FindIoDevice: it does not look for the end of the access.
FindIoDeviceStart(w, a) ==
  UNION {{devices[i][j] : j \in FirstMatch(devices[i], a - ioRegions[i].start)} :
         i \in FindIoRegion(a)}

\* The device for an access of w bytes: the set of its entry, or empty.  It is
\* looked up by the address relative to the region, though its start is absolute.
FindIoDevice(w, a) ==
  UNION {LET rel == a - ioRegions[i].start IN
         {e \in {devices[i][j] : j \in FirstMatch(devices[i], rel)} :
            Includes(e, (rel + w) % Space)} :
         i \in FindIoRegion(a)}

-----------------------------------------------------------------------------
(* Initialize *)

Initialize(l) ==
  /\ next = 0
  /\ Len(ioRegions) + Len(l) <= RegionLimit
  /\ list' = l
  /\ next' = 1
  /\ UNCHANGED <<ram, memory, ioRegions, devices, refused>>

Taken(a) == Includes(ram, a) \/ FindIoRegion(a) # {}

\* Only the first and the last address of a new region are tested.
Conflicts(r) == Taken(r.start) \/ Taken((GetEnd(r) - 1) % Space)

\* The region lies below the top of the address space, so that GetEnd is exact.
BelowTop(r) == r.start + r.length < Space

Fail ==
  /\ next' = 0
  /\ list' = <<>>
  /\ refused' = IF \E i \in 1 .. next - 1 : list[i].type = "IO" /\ BelowTop(list[i])
                THEN refused \cup {list} ELSE refused
  /\ UNCHANGED <<ram, memory, ioRegions, devices>>

\* ResultRegionAlreadyExists
RefuseRegion ==
  /\ next # 0
  /\ Conflicts(list[next])
  /\ Fail

\* ResultInvalidRegionType
RefuseType ==
  /\ next # 0
  /\ ~Conflicts(list[next])
  /\ list[next].type = "Other"
  /\ Fail

\* The loop goes on to the next region, or returns ResultSuccess.
Advance ==
  /\ next' = IF next = Len(list) THEN 0 ELSE next + 1
  /\ list' = IF next = Len(list) THEN <<>> ELSE list
  /\ UNCHANGED refused

Extent(r) == [start |-> r.start, length |-> r.length]

\* Mutant of AddMemRegion: the bytes of the region before are kept.
AddMemRegionKept ==
  /\ next # 0
  /\ ~Conflicts(list[next])
  /\ list[next].type = "Memory"
  /\ ram' = Extent(list[next])
  /\ memory' = IF memory = <<>> THEN [o \in 0 .. ram'.length - 1 |-> 0] ELSE memory
  /\ Advance
  /\ UNCHANGED <<ioRegions, devices>>

\* A new main memory takes the place of the one before.
AddMemRegion ==
  /\ next # 0
  /\ ~Conflicts(list[next])
  /\ list[next].type = "Memory"
  /\ ram' = Extent(list[next])
  /\ memory' = [o \in 0 .. list[next].length - 1 |-> 0]
  /\ Advance
  /\ UNCHANGED <<ioRegions, devices>>

\* Mutant of AddIoRegion: the regions before are dropped.
AddIoRegionAlone ==
  /\ next # 0
  /\ ~Conflicts(list[next])
  /\ list[next].type = "IO"
  /\ ioRegions' = <<Extent(list[next])>>
  /\ devices' = <<(<<>>)>>
  /\ Advance
  /\ UNCHANGED <<ram, memory>>

AddIoRegion ==
  /\ next # 0
  /\ ~Conflicts(list[next])
  /\ list[next].type = "IO"
  /\ ioRegions' = Append(ioRegions, Extent(list[next]))
  /\ devices' = Append(devices, <<>>)
  /\ Advance
  /\ UNCHANGED <<ram, memory>>

-----------------------------------------------------------------------------
(* Devices and accesses *)

\* A device in the region has the new one's first byte or the byte behind it.
Occupied(i, a, len) ==
  \E j \in DOMAIN devices[i] : \/ Includes(devices[i][j], a)
                               \/ Includes(devices[i][j], (a + len) % Space)

\* Mutant of AddMmioDev: the new device is put first.
AddMmioDevFirst(d, a) ==
  /\ next = 0
  /\ \E i \in FindIoRegion(a) :
       /\ ~Occupied(i, a, MappedSize[d])
       /\ Len(devices[i]) < DeviceLimit
       /\ devices' = [devices EXCEPT ![i] =
                        <<[start |-> a, length |-> MappedSize[d], dev |-> d]>> \o @]
  /\ UNCHANGED <<ram, memory, ioRegions, call>>

AddMmioDev(d, a) ==
  /\ next = 0
  /\ \E i \in FindIoRegion(a) :
       /\ ~Occupied(i, a, MappedSize[d])
       /\ Len(devices[i]) < DeviceLimit
       /\ devices' = [devices EXCEPT ![i] =
                        Append(@, [start |-> a, length |-> MappedSize[d], dev |-> d])]
  /\ UNCHANGED <<ram, memory, ioRegions, call>>

\* The access of w bytes at a lies in main memory.
InMemory(w, a) == \A o \in a - ram.start .. a - ram.start + w - 1 : o \in DOMAIN memory

\* The numbers of w bytes, and a number shifted right by i bytes.
ValuesOf(w) == 0 .. After(w, 1, [k \in 1 .. w |-> [p \in Nat |-> p * ByteBase]]) - 1
Above(v, i) == After(i, v, [k \in 1 .. i |-> [rest \in Nat |-> rest \div ByteBase]])

\* Mutant of ReadMemory: the bytes are combined the other way round.
ReadMemoryBig(w, a) ==
  After(w, 0, [k \in 1 .. w |-> [above \in Nat |-> above * ByteBase + memory[a - ram.start + k - 1]]])
\* The lowest byte comes first.
ReadMemory(w, a) ==
  After(w, 0, [k \in 1 .. w |-> [above \in Nat |-> above * ByteBase + memory[a - ram.start + w - k]]])

\* A write that main memory takes; its bytes beyond the block, which the code
\* does not keep from being written, are outside of the model.
Write(w, v, a) ==
  /\ next = 0
  /\ memory # <<>>
  /\ Includes(ram, a)
  /\ memory' = [o \in DOMAIN memory |->
                  LET i == o - (a - ram.start) IN
                  IF i \in 0 .. w - 1 THEN Above(v, i) % ByteBase ELSE memory[o]]
  /\ UNCHANGED <<ram, ioRegions, devices, call>>

Next == \/ \E l \in Lists : Initialize(l)
        \/ RefuseRegion
        \/ RefuseType
        \/ AddMemRegion
        \/ AddIoRegion
        \/ \E d \in Devices, a \in Addresses : AddMmioDev(d, a)
        \/ \E w \in Widths : \E v \in ValuesOf(w), a \in Addresses : Write(w, v, a)

Spec == Init /\ [][Next]_vars

-----------------------------------------------------------------------------
(* Properties *)

Apart(r, s) == r.start + r.length <= s.start \/ s.start + s.length <= r.start

\* mem_MemoryController.h: a region that overlaps with a preexisting one is refused.
RegionsApart ==
  \A i \in DOMAIN ioRegions :
    Apart(ram, ioRegions[i]) /\ \A j \in 1 .. i - 1 : Apart(ioRegions[j], ioRegions[i])

\* AddMmioDev makes sure that a new device does not overlap with an existing one.
DevicesApart ==
  \A i \in DOMAIN devices : \A k \in DOMAIN devices[i] :
    \A j \in 1 .. k - 1 : Apart(devices[i][j], devices[i][k])

\* The weaker of the two promises: a state that breaks it breaks both.
OverlapsRefused == RegionsApart \/ DevicesApart

\* In a region at address zero a device is only given accesses that lie within
\* its mapped size, with overlapping devices and at the devices' ends too.
DeviceAccessesFit ==
  \A w \in Widths, a \in Addresses : \A i \in FindIoRegion(a), e \in FindIoDevice(w, a) :
    ioRegions[i].start = 0 /\ a + w < Space =>
      e.start <= a /\ a + w <= e.start + e.length

\* A search that finds a device keeps finding that one: no IO region or device
\* added later, not even one around it, takes accesses away.  Main memory, which an
\* access is compared with before the search, may.
RoutesStable ==
  [][\A w \in Widths, a \in Addresses :
       FindIoDevice(w, a) # {} => FindIoDevice(w, a)' = FindIoDevice(w, a)]_vars

\* A list that failed after one of its IO regions was added never succeeds: the
\* regions it left behind are in its own way whenever it is given again.
RefusedStaysRefused ==
  [][next = Len(list) /\ (AddMemRegion \/ AddIoRegion) => list \notin refused]_vars

\* A write within main memory is read back from the same address in the same
\* width, and no read that does not touch it sees a difference.
WritesReadBack ==
  [][\A w \in Widths, a \in Addresses : InMemory(w, a) =>
       \A v \in ValuesOf(w) : Write(w, v, a) =>
         /\ ReadMemory(w, a)' = v
         /\ \A u \in Widths, b \in Addresses :
              InMemory(u, b) /\ (b + u <= a \/ a + w <= b) =>
                ReadMemory(u, b)' = ReadMemory(u, b)]_vars
=============================================================================
