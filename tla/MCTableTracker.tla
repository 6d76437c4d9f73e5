---------------------------- MODULE MCTableTracker ----------------------------
(* Catalogues and configurations for TLC. *)
EXTENDS TableTracker

users == <<"public", "users">>
notes == <<"public", "notes">>
archived == <<"audit", "users">>

PrimaryKey(constraint, table, columns) ==
  [name |-> constraint, kind |-> "PRIMARY KEY", table |-> table, columns |-> columns]

(* A composite key, and a table without any. *)
Plain ==
  [tables |-> {users, notes},
   constraints |-> {PrimaryKey("users_pkey", users, <<"region", "id">>)}]

(* The key of users was changed; notes got one, a foreign key besides. *)
Migrated ==
  [tables |-> {users, notes},
   constraints |-> {PrimaryKey("users_pkey", users, <<"id">>),
                    PrimaryKey("notes_pkey", notes, <<"user", "at">>),
                    [name |-> "notes_fkey", kind |-> "FOREIGN KEY",
                     table |-> notes, columns |-> <<"user">>]}]

(* Two schemas, each with a table users and the default name for its key. *)
TwoSchemas ==
  [tables |-> {users, archived},
   constraints |-> {PrimaryKey("users_pkey", users, <<"id">>),
                    PrimaryKey("users_pkey", archived, <<"entry">>)}]

OneSchema == {Plain, Migrated}
AllCatalogs == {Plain, Migrated, TwoSchemas}

Automatic == [autoFetch |-> TRUE, tables |-> <<>>]
Listed == [autoFetch |-> FALSE, tables |-> <<users, archived, users>>]
Bare == [autoFetch |-> FALSE, tables |-> <<<<"users">>>>]
QualifiedConfigs == {Automatic, Listed}
AllConfigs == {Automatic, Listed, Bare}
==============================================================================
