----------------------------- MODULE JsonObject -----------------------------
(***************************************************************************)
(* serde_json::Map as this crate builds it (Cargo.toml turns preserve_order *)
(* on): an object keeps its members in insertion order, and every payload   *)
(* that is signed or verified is the members in that order.                 *)
(*                                                                         *)
(* An object is a sequence of members << key, value >> with distinct keys.  *)
(* `remove' is the map's swap_remove: the LAST member moves into the hole.  *)
(***************************************************************************)
EXTENDS Naturals, Sequences

DistinctKeys(o) ==
    \A i, j \in DOMAIN o : o[i][1] = o[j][1] => i = j

\* A sequence of members, no key twice.
IsObject(o) ==
    /\ o \in Seq({ o[i] : i \in DOMAIN o })
    /\ DistinctKeys(o)

Has(o, key) == \E i \in DOMAIN o : o[i][1] = key

Position(o, key) == CHOOSE i \in DOMAIN o : o[i][1] = key

Get(o, key) == o[Position(o, key)][2]

\* Mutant: insert without looking for the key.
Insert_Appends(o, key, value) == Append(o, <<key, value>>)

\* Map::insert: an existing member is overwritten where it stands, and any
\* other key becomes the last member.
Insert(o, key, value) ==
    IF Has(o, key)
    THEN [o EXCEPT ![Position(o, key)] = <<key, value>>]
    ELSE Append(o, <<key, value>>)

\* Mutant: the last member goes, wherever the key was.
SwapRemove_Pops(o, key) ==
    IF ~Has(o, key) THEN o ELSE [i \in 1 .. Len(o) - 1 |-> o[i]]

\* Map::remove
SwapRemove(o, key) ==
    IF ~Has(o, key)
    THEN o
    ELSE [i \in 1 .. Len(o) - 1 |->
              IF i = Position(o, key) THEN o[Len(o)] ELSE o[i]]

=============================================================================
