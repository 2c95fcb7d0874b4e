------------------------- MODULE MCMockManagement -------------------------
(***************************************************************************)
(* Small instances of MockManagement for TLC.                              *)
(***************************************************************************)
EXTENDS MockManagement, TLC

CONSTANTS i1, i2, i3, h1, h2, r1, r2, b1

(* Update commands: `body` only, or also a new route, or nothing at all. *)
Cmd(r, b) == [route |-> r, scope |-> Unset, rules |-> Unset, body |-> b]
OneBodyCmds == {Cmd(Unset, b) : b \in {b1, Blank, Unset}}
RouteCmds == {Cmd(r, Unset) : r \in {r1, r2}}
MixedCmds == RouteCmds \cup {Cmd(Unset, b1)}

(* Which routes each handler's client manages. *)
Anything == [h \in Handlers |-> Routes]
TwoRoutesAndOne == (h1 :> {r1, r2}) @@ (h2 :> Routes \ {r1, r2})

IdHandlerSymmetry == Permutations(Ids) \cup Permutations(Handlers)
=============================================================================
