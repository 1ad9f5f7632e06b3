------------------------------ MODULE OldOrNew ------------------------------
(***************************************************************************)
(* What a caller of the FAT32 volume may rely on: one request at a time,   *)
(* each changing one path.  At every moment a path shows its old or its    *)
(* new contents whole; a request that returned without an error survives   *)
(* a power failure.                                                        *)
(***************************************************************************)
CONSTANTS Paths, None

VARIABLES files, durable, request, result

vars == <<files, durable, request, result>>

Init ==
    /\ durable = files
    /\ request = None
    /\ result = "ok"

Begin ==
    /\ request = None
    /\ request' # None
    /\ UNCHANGED <<files, durable, result>>

Applied == [files EXCEPT ![request.path] = request.new]

Apply ==
    /\ request # None
    /\ files' = Applied
    /\ UNCHANGED <<durable, request, result>>

Settle ==
    /\ durable' = files
    /\ UNCHANGED <<files, request, result>>

Succeed ==
    /\ request # None
    /\ files[request.path] = request.new
    /\ durable = files
    /\ request' = None
    /\ result' = "ok"
    /\ UNCHANGED <<files, durable>>

\* An error says nothing about which of the two contents the path now has.
Fail ==
    /\ request # None
    /\ files' \in {files, Applied}
    /\ request' = None
    /\ result' = "error"
    /\ UNCHANGED durable

PowerFailure ==
    /\ files' = [p \in Paths |-> files'[p]]
    /\ \A p \in Paths : files'[p] \in {files[p], durable[p]}
    /\ durable' = files'
    /\ request' = None
    /\ result' = "error"

Next == Begin \/ Apply \/ Settle \/ Succeed \/ Fail \/ PowerFailure

Spec == Init /\ [][Next]_vars
=============================================================================
