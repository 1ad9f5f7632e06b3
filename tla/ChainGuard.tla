----------------------------- MODULE ChainGuard -----------------------------
(***************************************************************************)
(* The walk along a cluster chain that release makes before it frees       *)
(* anything: next as the FAT has it, chainGuard as the only bound of the   *)
(* loop.  The FAT is arbitrary, as on a damaged card.                      *)
(***************************************************************************)
EXTENDS Integers

CONSTANT Clusters

VARIABLES next, n,                 \* the FAT; the cluster the walk has come to
          checkpoint, span, used,  \* chainGuard
          verdict, visited         \* history: the clusters accepted

vars == <<next, n, checkpoint, span, used, verdict, visited>>

Cluster == 2..(Clusters + 1)
Eoc == 1

Init ==
    /\ next \in [Cluster -> Cluster \cup {0, Eoc}]
    /\ n \in Cluster
    /\ checkpoint = 0 /\ span = 0 /\ used = 0
    /\ verdict = "walking" /\ visited = {}

\* The guard's new state for a cluster that is not its checkpoint.
Move(full, c) ==
    /\ checkpoint' = IF full THEN c ELSE checkpoint
    /\ span' = IF full THEN 2 * span ELSE span
    /\ used' = IF full THEN 0 ELSE used + 1

AcceptInPlace(c) ==
    IF span = 0 THEN checkpoint' = c /\ span' = 1 /\ used' = used
    ELSE UNCHANGED <<checkpoint, span, used>>
Accept(c) ==
    IF span = 0 THEN checkpoint' = c /\ span' = 1 /\ used' = used
    ELSE Move(used + 1 = span, c)

RejectsAfterSpan(c) == span # 0 /\ used + 1 = span
Rejects(c) == span # 0 /\ c = checkpoint

Step ==
    /\ verdict = "walking" /\ ~Rejects(n)
    /\ Accept(n)
    /\ visited' = visited \cup {n}
    /\ verdict' = CASE next[n] = Eoc -> "sound"
                    [] next[n] = 0 -> "corrupt"
                    [] OTHER -> "walking"
    /\ n' = IF next[n] \in Cluster THEN next[n] ELSE n
    /\ UNCHANGED next

Refuse ==
    /\ verdict = "walking" /\ Rejects(n)
    /\ verdict' = "loop"
    /\ UNCHANGED <<next, n, checkpoint, span, used, visited>>

Next == Step \/ Refuse

\* One call on one thread: the loop goes on until it returns.
Spec == Init /\ [][Next]_vars /\ WF_vars(Next)

-----------------------------------------------------------------------------
\* accept refuses a cluster only when the walk has been there before, so no
\* sound chain, however long, is taken for a corrupt one.
RefusesOnlyLoops == verdict = "loop" => n \in visited

\* On every FAT the walk comes to an end: release's first loop has no other
\* bound than the guard.
WalkEnds == <>(verdict # "walking")
=============================================================================
