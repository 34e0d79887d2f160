--------------------------- MODULE DeviceScheduler ---------------------------
(***************************************************************************)
(* hw::DeviceScheduler (Sources/hw/hw_Scheduler.cpp): devices ask to be    *)
(* processed so many times per turn of a timer, and a priority queue       *)
(* ordered by each one's next cycle decides whose turn it is.              *)
(*                                                                         *)
(* The queue is std::priority_queue's binary heap, as libstdc++ builds it. *)
(* Its layout matters: the comparator reads m_Timer, so the order of the   *)
(* elements changes while the heap stays as it is.                         *)
(***************************************************************************)
EXTENDS Integers, Sequences, SequencesExt

CONSTANTS Devices,     \* the hw::IDevice objects
          Freqs,       \* their update frequencies: any but zero
          TimerFreq,   \* c_TimerFreq, 1'000'000 in the code
          Failing,     \* the devices whose ProcessCycle may fail
          QueueLimit,  \* bound: containers in the queue
          None

ASSUME SchedulerAssumption ==
  /\ TimerFreq \in Nat \ {0}
  /\ Freqs \subseteq Nat \ {0}
  /\ Failing \subseteq Devices
  /\ None \notin Devices

VARIABLES
  freq,     \* IDevice::m_UpdateFreq of each device, fixed at construction
  queue,    \* m_Queue: a heap of DeviceContainers
  timer,    \* m_Timer
  inCycle,  \* ProcessCycle is running
  copies,   \* history: how many times each device was added and not removed
  failed    \* history: the device that failed, since the last run and removal

vars == <<freq, queue, timer, inCycle, copies, failed>>

Containers == [dev : Devices, next : 0 .. 2 * TimerFreq]

TypeOK ==
  /\ freq \in [Devices -> Freqs]
  /\ queue \in Seq(Containers)
  /\ timer \in 0 .. TimerFreq - 1
  /\ inCycle \in BOOLEAN
  /\ copies \in [Devices -> Nat]
  /\ failed \in Devices \cup {None}

Init ==
  /\ freq \in [Devices -> Freqs]
  /\ queue = <<>>
  /\ timer = 0
  /\ inCycle = FALSE
  /\ copies = [d \in Devices |-> 0]
  /\ failed = None

-----------------------------------------------------------------------------
(* The heap: the children of q[i] are q[2i] and q[2i + 1]. *)

\* Mutant of ReadCycle: the present cycle is not read as one of the next turn.
ReadCycleStrict(c) == IF c.next < timer THEN c.next + TimerFreq ELSE c.next

\* CompareImpl::GetNextCycle: a cycle that is not in the future is read as one
\* of the timer's next turn.
ReadCycle(c) == IF c.next <= timer THEN c.next + TimerFreq ELSE c.next

\* CompareImpl::operator(): a is below b in the heap.
Below(a, b) == ReadCycle(a) < ReadCycle(b)

Swap(q, i, j) == [q EXCEPT ![i] = q[j], ![j] = q[i]]

\* What a heap may look like while its elements change places.
Layouts(q) == [DOMAIN q -> Containers]

\* std::__push_heap: q[i] rises to where its parent is not below it, top at most.
Rise(q, i, top) ==
  LET risen[j \in 1 .. i] ==
        [p \in Layouts(q) |->
           IF j > top /\ Below(p[j \div 2], p[j]) THEN risen[j \div 2][Swap(p, j, j \div 2)] ELSE p]
  IN  risen[i][q]

\* The child that is not below the other: the right one, where they are equal.
Child(p, i) == IF 2 * i < Len(p) /\ ~Below(p[2 * i + 1], p[2 * i]) THEN 2 * i + 1 ELSE 2 * i

\* std::__adjust_heap: q[i] sinks to a leaf, changing places with such a child, and
\* rises again.
Sink(q, i, top) ==
  LET sunk[j \in 1 .. Len(q)] ==
        [p \in Layouts(q) |->
           IF 2 * j > Len(q) THEN Rise(p, j, top) ELSE sunk[Child(p, j)][Swap(p, j, Child(p, j))]]
  IN  sunk[i][q]

\* std::make_heap
MakeHeap(q) ==
  LET made[i \in 1 .. Len(q) \div 2 + 1] ==
        IF i > Len(q) \div 2 THEN q ELSE Sink(made[i + 1], i, i)
  IN  made[1]

\* priority_queue::emplace and pop
Push(q, c) == Rise(Append(q, c), Len(q) + 1, 1)
\* Mutant of Pop: the last element goes instead of the first.
PopLast(q) == Front(q)
Pop(q) == IF Len(q) = 1 THEN <<>> ELSE Sink(Front([q EXCEPT ![1] = Last(q)]), 1, 1)

\* RemovablePrioQueue::remove: the first container of the device.
FirstOf(d) == CHOOSE i \in 1 .. Len(queue) :
                queue[i].dev = d /\ \A j \in 1 .. i - 1 : queue[j].dev # d
Removed(d) == IF FirstOf(d) = 1 THEN Pop(queue) ELSE MakeHeap(RemoveAt(queue, FirstOf(d)))

IsQueued(d) == \E i \in 1 .. Len(queue) : queue[i].dev = d

-----------------------------------------------------------------------------
Top == queue[1]
\* Mutant of CalculateNextCycle: the period is left out.
CalculateThisCycle(d) == timer
\* The period is zero for a frequency above the timer's.
CalculateNextCycle(d) == timer + TimerFreq \div freq[d]

AddDevice(d) ==
  /\ ~inCycle
  /\ Len(queue) < QueueLimit
  /\ queue' = Push(queue, [dev |-> d, next |-> CalculateNextCycle(d)])
  /\ copies' = [copies EXCEPT ![d] = @ + 1]
  /\ UNCHANGED <<freq, timer, inCycle, failed>>

RemoveDevice(d) ==
  /\ ~inCycle
  /\ IsQueued(d)
  /\ queue' = Removed(d)
  /\ copies' = [copies EXCEPT ![d] = @ - 1]
  /\ failed' = None
  /\ UNCHANGED <<freq, timer, inCycle>>

\* ProcessCycle is called.  It reads the top of the queue, which must not be
\* empty.
Begin ==
  /\ ~inCycle
  /\ queue # <<>>
  /\ inCycle' = TRUE
  /\ UNCHANGED <<freq, queue, timer, copies, failed>>

\* The device on top is due and its ProcessCycle succeeds: pop it, add it again.
Run(d) ==
  /\ inCycle
  /\ Top.next = timer
  /\ Top.dev = d
  /\ queue' = Push(Pop(queue), [dev |-> d, next |-> CalculateNextCycle(d)])
  /\ failed' = None
  /\ UNCHANGED <<freq, timer, inCycle, copies>>

\* It fails: ProcessCycle returns its result at once.
Fail(d) ==
  /\ inCycle
  /\ d \in Failing
  /\ Top.next = timer
  /\ Top.dev = d
  /\ inCycle' = FALSE
  /\ failed' = d
  /\ UNCHANGED <<freq, queue, timer, copies>>

\* Mutant of Tick: the timer is reset one cycle late.
TickLate ==
  /\ inCycle
  /\ Top.next # timer
  /\ timer' = (IF timer + 1 > TimerFreq THEN 0 ELSE timer + 1)
  /\ inCycle' = FALSE
  /\ UNCHANGED <<freq, queue, copies, failed>>

\* Mutant of Tick: the loop's condition is tested once, as an if would.
TickAnyway ==
  /\ inCycle
  /\ timer' = (IF timer + 1 >= TimerFreq THEN 0 ELSE timer + 1)
  /\ inCycle' = FALSE
  /\ UNCHANGED <<freq, queue, copies, failed>>

\* The device on top is not due: ProcessCycle advances the timer and returns.
Tick ==
  /\ inCycle
  /\ Top.next # timer
  /\ timer' = (IF timer + 1 >= TimerFreq THEN 0 ELSE timer + 1)
  /\ inCycle' = FALSE
  /\ UNCHANGED <<freq, queue, copies, failed>>

Next == \/ Begin \/ Tick
        \/ \E d \in Devices : AddDevice(d) \/ RemoveDevice(d) \/ Run(d) \/ Fail(d)

\* ProcessCycle is called again and again, and every call proceeds.
Fairness == WF_vars(Begin) /\ WF_vars(Tick \/ \E d \in Devices : Run(d))

Spec == Init /\ [][Next]_vars /\ Fairness

-----------------------------------------------------------------------------
(* Properties *)

Count(d) == Cardinality({i \in DOMAIN queue : queue[i].dev = d})

\* No heap operation drops or doubles a container, although the heap they work
\* on need not be in order.
DevicesKept == \A d \in Devices : Count(d) = copies[d]

\* The device whose failure ended a cycle is the one that the next cycle starts
\* with, whatever is added in between: neither the heap nor the timer moves past
\* it until it succeeds or a removal rebuilds the heap.
ResumesAtFailed == failed # None => Top.dev = failed /\ Top.next = timer

\* A device that asks for more cycles than the timer has, and is due.
TooFast(c) == freq[c.dev] > TimerFreq /\ c.next = timer

\* Calls of ProcessCycle keep returning, or there is a last one: its loop runs devices
\* that are too fast, for ever.  Nothing else keeps a call from returning.
OnlyTooFastHang == []<>(~inCycle) \/ <>[](inCycle /\ TooFast(Top))

\* Where all that is queued is too fast, the call is such a last one: the devices are
\* due again as soon as they have run, the timer stands still, and only a device that
\* fails gets the caller out.
Endless == inCycle /\ \A i \in DOMAIN queue : TooFast(queue[i])
TooFastIsForever == [][Endless => Endless' \/ \E d \in Failing : Fail(d)]_vars

\* A device that waits for a cycle the timer never gets to: the next cycle is not wrapped
\* around as the timer is.
Stranded(d) == IsQueued(d) /\ \A i \in DOMAIN queue : queue[i].dev = d => queue[i].next >= TimerFreq

\* Such a device has run for the last time, whatever the others do, and it stays in the
\* queue: only who adds it again or removes it changes that.
StrandedIsForever ==
  [][\A d \in Devices : Stranded(d) => Stranded(d)' \/ AddDevice(d) \/ RemoveDevice(d)]_vars

\* The timer leaves no device behind that was due in the cycle that ends.
DueDevicesRun == [][Tick => \A i \in 1 .. Len(queue) : queue[i].next # timer]_vars
=============================================================================
