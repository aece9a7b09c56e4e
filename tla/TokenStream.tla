----------------------------- MODULE TokenStream -----------------------------
(***************************************************************************)
(* What the token bucket promises, and nothing about locks, sleeps or the  *)
(* balance kept between two looks at it: Rate units come in at every tick, *)
(* what a full bucket cannot hold is lost, and a token is handed out only  *)
(* against Cost units that are there.                                      *)
(***************************************************************************)
EXTENDS Integers

CONSTANTS Capacity, Rate, Cost

VARIABLES level,   \* the units in the bucket now
          handed   \* the tokens handed out

streamVars == <<level, handed>>

Lower(a, b) == IF a < b THEN a ELSE b

StreamInit == level = 0 /\ handed = 0

ComeIn ==
    /\ level' = Lower(level + Rate, Capacity)
    /\ UNCHANGED handed

HandOut ==
    /\ level >= Cost
    /\ level' = level - Cost
    /\ handed' = handed + 1

StreamNext == ComeIn \/ HandOut

StreamSpec == StreamInit /\ [][StreamNext]_streamVars
==============================================================================
