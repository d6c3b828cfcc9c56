------------------------------ MODULE MCAdmin ------------------------------
(***************************************************************************)
(* Instances of Moderation, BanChecks, BoardList and Accounts for TLC, one *)
(* after the other: a behaviour moves the component that its first state   *)
(* has picked.                                                             *)
(***************************************************************************)
EXTENDS Moderation, BanChecks, BoardList, Accounts, TLC

CONSTANTS Part,       \* the components that are checked
          r1, r2, b1, b2, u1, u2, s1, s2, s3, c1, c2

VARIABLES part

MCRange   == {r1, r2}
MCBoard   == {b1, b2}
MCSid     == {s1, s2, s3}
MCConn    == {c1, c2}
\* Two addresses of one version that differ in the last byte alone, and one of the other.
MCAddr    == [version : {"v4"}, bytes : {<<1, 2>>}]
                \cup [version : {"v6"}, bytes : {<<1, 2, 0>>, <<1, 2, 3>>}]
MCSize    == [v4 |-> 2, v6 |-> 3]
MCDuration == {-1}
Symmetry  == UNION {Permutations(S) : S \in {MCRange, MCBoard, MCSid, MCConn}}

MCInit == /\ part \in Part
          /\ Init /\ BoardInit /\ UserInit /\ CheckInit
          /\ name[1] = "a" /\ mem.account[1].name = "a"   \* names are alike

MCNext ==
    /\ part' = part
    /\ \/ part = "bans" /\ Next /\ UNCHANGED <<boardVars, userVars, checkVars>>
       \/ part = "boards" /\ BoardNext /\ UNCHANGED <<vars, userVars, checkVars>>
       \/ part = "users" /\ UserNext /\ UNCHANGED <<vars, boardVars, checkVars>>
       \/ part = "checks" /\ CheckNext /\ UNCHANGED <<vars, boardVars, userVars>>

MCSpec == MCInit /\ [][MCNext]_<<part, vars, boardVars, userVars, checkVars>>
=============================================================================
