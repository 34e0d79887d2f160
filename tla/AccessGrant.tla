----------------------------- MODULE AccessGrant -----------------------------
(***************************************************************************)
(* What MemoryMonitor promises about shared and exclusive access, with no  *)
(* locks, counters or tables: who holds what, and when a grant is allowed. *)
(* Two exclusive holders of one address are allowed: the code never looks  *)
(* for other exclusive holders.                                            *)
(***************************************************************************)
CONSTANTS Harts, Addresses, None

VARIABLES readers,  \* the address each hart holds shared access to, else None
          writers   \* the address each hart holds exclusive access to, else None

grants == <<readers, writers>>

GrantInit == /\ readers = [h \in Harts |-> None]
             /\ writers = [h \in Harts |-> None]

GrantShared(h, a) == /\ readers[h] = None
                     /\ \A g \in Harts : writers[g] # a
                     /\ readers' = [readers EXCEPT ![h] = a]
                     /\ UNCHANGED writers

GrantExcl(h, a) == /\ writers[h] = None
                   /\ \A g \in Harts : readers[g] # a
                   /\ writers' = [writers EXCEPT ![h] = a]
                   /\ UNCHANGED readers

GiveUpShared(h) == /\ readers[h] # None
                   /\ readers' = [readers EXCEPT ![h] = None]
                   /\ UNCHANGED writers

GiveUpExcl(h) == /\ writers[h] # None
                 /\ writers' = [writers EXCEPT ![h] = None]
                 /\ UNCHANGED readers

GrantNext == \E h \in Harts : \/ \E a \in Addresses : GrantShared(h, a) \/ GrantExcl(h, a)
                              \/ GiveUpShared(h)
                              \/ GiveUpExcl(h)

GrantSpec == GrantInit /\ [][GrantNext]_grants
=============================================================================
