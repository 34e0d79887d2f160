------------------------- MODULE MCMemoryController -------------------------
(* Address space, region lists and devices for checking MemoryController.   *)
EXTENDS MemoryController

Info(t, s, n) == [type |-> t, start |-> s, length |-> n]

\* An IO region at zero and main memory behind it; two IO regions, the second
\* around the first; a main memory that overlaps the second, before an invalid type;
\* and an IO region at the top of the address space.
MCLists ==
  {<<Info("IO", 0, 3), Info("Memory", 4, 1)>>,
   <<Info("IO", 9, 1), Info("IO", 8, 4)>>,
   <<Info("Memory", 11, 2), Info("Other", 0, 1)>>,
   <<Info("IO", 14, 2)>>}

\* An IO region for devices, another one and one around that, from a zeroed main memory.
MCAround == {<<Info("IO", 1, 5), Info("IO", 9, 1), Info("IO", 8, 4)>>}
MCZeroed == {[start |-> 0, length |-> 0]}

\* A main memory that was zeroed, and one with leftover contents.
MCLeftovers == {[start |-> 0, length |-> 0], [start |-> 13, length |-> 1]}

MCDevices == {"small", "large"}
MCMappedSize == [d \in MCDevices |-> IF d = "small" THEN 1 ELSE 3]
=============================================================================
