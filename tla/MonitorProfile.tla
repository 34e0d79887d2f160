---------------------------- MODULE MonitorProfile ---------------------------
(***************************************************************************)
(* The monitor's only client in the repository: the profiling program      *)
(* (Test/Programs/CpuProfileMemoryMonitor/Sources/Main.cpp).  It starts    *)
(* SharedCount threads that aquire and release shared access RoundCount    *)
(* times each, ExclusiveCount threads that do the same with exclusive      *)
(* access, and joins them all.                                             *)
(***************************************************************************)
EXTENDS MonitorAccess

CONSTANTS SharedCount, ExclusiveCount, RoundCount,
          WakeupLimit  \* how many wakeups in a run may be spurious

ASSUME ProfileAssumption ==
  /\ SharedCount \in Nat /\ ExclusiveCount \in Nat /\ RoundCount \in Nat
  /\ WakeupLimit \in Nat
  /\ HartCount = SharedCount + ExclusiveCount

VARIABLES rounds,  \* rounds each thread has yet to start
          wakeups  \* spurious wakeups so far

profileVars == <<vars, rounds, wakeups>>

\* Shared threads have the lower hart indices.
Role(h) == IF h < SharedCount THEN "shared" ELSE "excl"

ProfileInit == Init /\ rounds = [h \in Harts |-> RoundCount] /\ wakeups = 0

\* A thread starts its next round; the address may be random.
StartRound(h) ==
  /\ rounds[h] > 0
  /\ rounds' = [rounds EXCEPT ![h] = @ - 1]
  /\ \E a \in Addresses : Call(h, [kind |-> Role(h), try |-> FALSE, addr |-> a])
  /\ UNCHANGED wakeups

InMonitor(h) == (Aquire(h) \/ Release(h)) /\ UNCHANGED <<rounds, wakeups>>

Wakeup(h) == /\ wakeups < WakeupLimit
             /\ wakeups' = wakeups + 1
             /\ SpuriousWakeup(h)
             /\ UNCHANGED rounds

\* main joins the threads: the program is over.
Joined == \A h \in Harts : pc[h] = "idle" /\ rounds[h] = 0

Exit == Joined /\ UNCHANGED profileVars

ProfileNext == Exit \/ \E h \in Harts : StartRound(h) \/ InMonitor(h) \/ Wakeup(h)

\* Every thread keeps running while it can; no thread counts on a wakeup that
\* nobody sent, and only finitely many are.
Fairness == \A h \in Harts : WF_profileVars(StartRound(h)) /\ WF_profileVars(InMonitor(h))

ProfileSpec == ProfileInit /\ [][ProfileNext]_profileVars /\ Fairness

-----------------------------------------------------------------------------
\* The three ways a run of the program can go: it ends, an exclusive thread
\* spins with both table mutexes, or a thread sleeps on a wakeup it will not
\* get.  There is no other deadlock or livelock between the two table mutexes,
\* the entry mutexes and the condition variables.
OnlyTwoWaysToHang ==
  \/ <>Joined
  \/ <>(\E h \in Harts : Spinning(h))
  \/ <>[](~NoLostWakeup)
=============================================================================
