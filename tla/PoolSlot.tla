------------------------------ MODULE PoolSlot ------------------------------
(***************************************************************************)
(* What PoolManager promises for one connection uuid, without saying how:  *)
(* the pool is a slot that holds at most one connection, a connection      *)
(* enters the slot once, and a connection that left it is shut down        *)
(* exactly once and never comes back.                                      *)
(***************************************************************************)
EXTENDS Naturals

CONSTANT Driver   \* the connections the slot may ever hold

VARIABLES
    slot,         \* the pooled connection, 0 when the slot is empty
    entered,      \* every connection that was ever put into the slot
    leaving,      \* taken out of the slot, not yet shut down
    closed        \* shut down

slotVars == <<slot, entered, leaving, closed>>

SlotInit == slot = 0 /\ entered = {} /\ leaving = {} /\ closed = {}

\* A fresh connection takes the slot; the one it replaces is to be shut down.
Put(d) ==
    /\ d \notin entered
    /\ slot' = d
    /\ entered' = entered \cup {d}
    /\ leaving' = leaving \cup ({slot} \ {0})
    /\ UNCHANGED closed

\* Disconnect and idle eviction empty the slot.
Take ==
    /\ slot # 0
    /\ slot' = 0
    /\ leaving' = leaving \cup {slot}
    /\ UNCHANGED <<entered, closed>>

Close(d) ==
    /\ d \in leaving
    /\ leaving' = leaving \ {d}
    /\ closed' = closed \cup {d}
    /\ UNCHANGED <<slot, entered>>

SlotNext == Take \/ \E d \in Driver : Put(d) \/ Close(d)

SlotSpec ==
    /\ SlotInit
    /\ [][SlotNext]_slotVars

\* With the promise that what left the slot is really shut down.
FairSlotSpec == SlotSpec /\ \A d \in Driver : WF_slotVars(Close(d))
=============================================================================
