------------------------------ MODULE MCFat32 -------------------------------
(***************************************************************************)
(* The FAT32 volume for TLC: operations on a sound volume, on a device     *)
(* that writes through or one that holds writes back; or, on a damaged     *)
(* FAT, the walk of release with the chain guard (module ChainGuard).      *)
(***************************************************************************)
EXTENDS Fat32

CONSTANTS GuardClusters,   \* clusters of the damaged FAT
          MaxBufferedOps   \* operations on a device that holds writes back

VARIABLES damaged, next, n, checkpoint, span, used, verdict, visited

walk == <<next, n, checkpoint, span, used, verdict, visited>>
G == INSTANCE ChainGuard WITH Clusters <- GuardClusters

MCInit ==
    /\ Init
    /\ G!Init
    /\ damaged \in BOOLEAN
    /\ IF damaged THEN ~buffered ELSE n = Root /\ next = [c \in G!Cluster |-> Eoc]

Operate == ~damaged /\ Next /\ UNCHANGED <<damaged, walk>>
FollowChain == damaged /\ G!Next /\ UNCHANGED <<damaged, vars>>

MCSpec == MCInit /\ [][Operate \/ FollowChain]_<<damaged, vars, walk>> /\ WF_walk(FollowChain)

\* On a device that holds writes back the root directory stays in its first
\* cluster: emptySlot relies on the order of the transfers, which block.Device
\* promises.
Scope == buffered => ops <= MaxBufferedOps /\ ActiveFat[Root] = Eoc

-----------------------------------------------------------------------------
\* chainGuard.accept refuses a cluster only when the walk has been there.
RefusesOnlyLoops == G!RefusesOnlyLoops

\* On every FAT the first loop of release comes to an end.
WalkEnds == damaged => G!WalkEnds
=============================================================================
