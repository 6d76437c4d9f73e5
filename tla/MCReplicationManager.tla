------------------------- MODULE MCReplicationManager -------------------------
(* Instances of ReplicationManager for TLC. *)
EXTENDS ReplicationManager

CONSTANTS v1, v2

users == <<"public", "users">>

Keyed ==
  [tables |-> {users},
   constraints |-> {[name |-> "users_pkey", kind |-> "PRIMARY KEY",
                     table |-> users, columns |-> <<"id">>]}]
Unkeyed == [tables |-> {users}, constraints |-> {}]

OneTable == {users}
TwoCatalogs == {Keyed, Unkeyed}
Automatic == {[autoFetch |-> TRUE, tables |-> <<>>]}

Verbatim == [v \in Versions |-> v]
==============================================================================
