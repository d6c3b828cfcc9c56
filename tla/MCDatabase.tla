----------------------------- MODULE MCDatabase -----------------------------
(***************************************************************************)
(* Instances for TLC of HashMap, CaptchaPool and of what else keeps state  *)
(* inside the database file, one after the other: a behaviour moves the    *)
(* component that its first state has picked.                              *)
(***************************************************************************)
EXTENDS HashMap, CaptchaPool, BuddyAlloc, DirtyRegions, TLC

CONSTANTS Part,   \* the components that are checked
          v1, v2

VARIABLE part

MCVal == {v1, v2}
MCKey == 1..9
\* Collisions in tables of 2, 4 and 8 slots, and keys that part at each doubling.
MCHash == [k \in MCKey |-> (5 * k + k \div 3) % 16]

Symmetry == Permutations(MCVal)

MCInit == part \in Part /\ Init /\ CaptchaInit /\ AllocInit /\ RegionInit

MCNext ==
    /\ part' = part
    /\ \/ part = "map" /\ Next /\ UNCHANGED <<captchaVars, allocVars, regionVars>>
       \/ part = "captchas" /\ CaptchaNext /\ UNCHANGED <<vars, allocVars, regionVars>>
       \/ part = "alloc" /\ AllocNext /\ UNCHANGED <<vars, captchaVars, regionVars>>
       \/ part = "regions" /\ RegionNext /\ UNCHANGED <<vars, captchaVars, allocVars>>

MCSpec == MCInit /\ [][MCNext]_<<part, vars, captchaVars, allocVars, regionVars>>
=============================================================================
