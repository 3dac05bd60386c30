----------------------------- MODULE MCV2Roster -----------------------------
(***************************************************************************)
(* Instances of V2Roster: a creator, a member that rosters add and remove, *)
(* and an agent whose x0xd is too old for append_only stores.              *)
(***************************************************************************)
EXTENDS V2Roster

CONSTANTS c, m, old

AddAndRemove == {{c}, {c, m}}
WithOther == {{c, m}, {c, old}}
=============================================================================
