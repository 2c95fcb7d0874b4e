---------------------------- MODULE MockCatalog ----------------------------
(***************************************************************************)
(* What the admin API promises its clients, as a catalog whose operations  *)
(* are atomic: a mock is born inactive under a fresh id, an update changes *)
(* the fields it names and nothing else, and a mock is switched on only    *)
(* while no conflicting mock is on.                                        *)
(***************************************************************************)
EXTENDS MockModel

VARIABLES
    store,      \* [Ids -> MaybeDoc]
    minted      \* ids ever assigned

vars == <<store, minted>>

TypeOK == store \in [Ids -> MaybeDoc] /\ minted \in SUBSET Ids

Exists(i) == store[i] # NoDoc

ActiveConflicts(i) ==
    {j \in Ids \ {i} : Exists(j) /\ store[j].active /\ SameTarget(store[i], store[j])}

Init == store = [i \in Ids |-> NoDoc] /\ minted = {}

CreateMock(i) ==
    /\ i \notin minted
    /\ minted' = minted \cup {i}
    /\ \E d \in NewDoc : store' = [store EXCEPT ![i] = d]

UpdateMock(i) ==
    /\ Exists(i)
    /\ \E c \in Cmds : Accepts(c) /\ store' = [store EXCEPT ![i] = Updated(@, c)]
    /\ UNCHANGED minted

DeleteMock(i) ==
    /\ Exists(i)
    /\ store' = [store EXCEPT ![i] = NoDoc]
    /\ UNCHANGED minted

ActivateMock(i) ==
    /\ Exists(i)
    /\ ActiveConflicts(i) = {}
    /\ store' = [store EXCEPT ![i] = Active(@)]
    /\ UNCHANGED minted

DeactivateMock(i) ==
    /\ Exists(i)
    /\ store' = [store EXCEPT ![i] = Inactive(@)]
    /\ UNCHANGED minted

Next == \E i \in Ids :
    CreateMock(i) \/ UpdateMock(i) \/ DeleteMock(i) \/ ActivateMock(i) \/ DeactivateMock(i)

Spec == Init /\ [][Next]_vars

-----------------------------------------------------------------------------
(* Two active mocks never answer the same requests: what activate_mock's
   conflict check (mock_management_service.py:189-206) is there to ensure. *)
ConflictFree == \A i \in Ids : Exists(i) /\ store[i].active => ActiveConflicts(i) = {}
=============================================================================
