------------------------------ MODULE CallSlots ------------------------------
(***************************************************************************)
(* What the Qwen pool promises to the agents, and nothing about how it     *)
(* keeps the promise: an agent asks for a slot, at most MaxConcurrent      *)
(* agents hold one at a time, and an agent that asks may give up instead.  *)
(***************************************************************************)
EXTENDS Naturals, FiniteSets

CONSTANTS Agents, MaxConcurrent

VARIABLES asking,   \* agents that want a slot and have none
          running   \* agents that hold one

slotVars == <<asking, running>>

SlotInit == asking = {} /\ running = {}

Ask(a) ==
    /\ a \notin asking \cup running
    /\ asking' = asking \cup {a}
    /\ UNCHANGED running

\* An agent that finds a slot free takes it, whether or not it asked before.
Enter(a) ==
    /\ a \notin running
    /\ Cardinality(running) < MaxConcurrent
    /\ running' = running \cup {a}
    /\ asking' = asking \ {a}

Leave(a) ==
    /\ a \in running
    /\ running' = running \ {a}
    /\ UNCHANGED asking

GiveUp(a) ==
    /\ a \in asking
    /\ asking' = asking \ {a}
    /\ UNCHANGED running

SlotNext == \E a \in Agents : Ask(a) \/ Enter(a) \/ Leave(a) \/ GiveUp(a)

SlotSpec == SlotInit /\ [][SlotNext]_slotVars
==============================================================================
