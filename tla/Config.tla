-------------------------------- MODULE Config --------------------------------
(***************************************************************************)
(* Config::loadFromFile: each setting comes from the environment, else     *)
(* from the YAML file, else it has a default; and the connection strings   *)
(* that makeConn writes, as libpq reads them.                              *)
(*                                                                         *)
(* A text is a sequence of characters, and a keyword of a connection       *)
(* string with its equals sign is one of them.  Environment and sections   *)
(* of the file are functions whose domain is what is set in them.          *)
(***************************************************************************)
EXTENDS Integers, Sequences, FiniteSets, SequencesExt

CONSTANT Error  \* a file that cannot be loaded, a string that cannot be read

Keywords == <<"host=", "port=", "user=", "password=", "dbname=", "sslmode=">>

Setting(from, name, fallback) == IF name \in DOMAIN from THEN from[name] ELSE fallback

(* A variable that is set to nothing counts as not set.                    *)
EnvOr(env, name, fallback) ==
  IF Setting(env, name, <<>>) # <<>> THEN env[name] ELSE fallback

(* std::stoi reads the digits a value begins with and ignores the rest.    *)
Digits == {"0", "1"}
Leading(text) == {n \in 1 .. Len(text) : \A k \in 1 .. n : text[k] \in Digits}
EnvOrInt(env, name, fallback) ==
  LET text == EnvOr(env, name, <<>>)
  IN  IF Leading(text) = {} THEN fallback ELSE SubSeq(text, 1, Cardinality(Leading(text)))

EnvOrBool(env, name, fallback) ==
  CASE EnvOr(env, name, <<>>) \in {<<"true">>, <<"1">>} -> TRUE
    [] EnvOr(env, name, <<>>) \in {<<"false">>, <<"0">>} -> FALSE
    [] OTHER -> fallback

Defaults ==
  [k \in {Keywords[j] : j \in DOMAIN Keywords} |->
     CASE k = "host=" -> <<"localhost">> [] k = "port=" -> <<"5432">>
       [] k = "user=" -> <<"postgres">> [] k = "password=" -> <<>>
       [] k = "dbname=" -> <<"postgres">> [] k = "sslmode=" -> <<"disable">>]

(* What a database section and the environment with its prefix say         *)
Meant(section, env) ==
  [k \in DOMAIN Defaults |->
     IF k = "port=" THEN EnvOrInt(env, k, Setting(section, k, Defaults[k]))
     ELSE EnvOr(env, k, Setting(section, k, Defaults[k]))]

(* Mutation: the password comes last.                                      *)
MakeConn_PasswordLast(section, env) ==
  LET order == SelectSeq(Keywords, LAMBDA k : k # "password=") \o <<"password=">>
  IN  FlattenSeq([j \in DOMAIN order |->
        (IF j = 1 THEN <<>> ELSE <<" ">>) \o <<order[j]>> \o Meant(section, env)[order[j]]])

MakeConn(section, env) ==
  FlattenSeq([j \in DOMAIN Keywords |->
    (IF j = 1 THEN <<>> ELSE <<" ">>) \o <<Keywords[j]>> \o Meant(section, env)[Keywords[j]]])

(***************************************************************************)
(* loadFromFile.  A file is the sections it has, or Error when it is not   *)
(* there or not YAML.  A database that has no section makes it throw; a    *)
(* missing section of another kind gives the defaults.                     *)
(***************************************************************************)
Load(file, env) ==
  IF file = Error \/ {"local", "hosted"} \ DOMAIN file # {} THEN Error
  ELSE LET sync == Setting(file, "sync", <<>>)
           log == Setting(file, "logging", <<>>)
           health == Setting(file, "health", <<>>)
       IN [localConn |-> MakeConn(file["local"], env["local"]),
           hostedConn |-> MakeConn(file["hosted"], env["hosted"]),
           intervalSeconds |-> EnvOrInt(env["sync"], "interval_seconds", Setting(sync, "interval_seconds", <<"5">>)),
           batchSize |-> EnvOrInt(env["sync"], "batch_size", Setting(sync, "batch_size", <<"50">>)),
           autoFetch |-> EnvOrBool(env["sync"], "auto_fetch", Setting(sync, "auto_fetch", TRUE)),
           tables |-> Setting(sync, "tables", <<>>),
           logLevel |-> EnvOr(env["sync"], "log_level", Setting(log, "level", <<"info">>)),
           logFile |-> EnvOr(env["sync"], "log_file", Setting(log, "file", <<"synclayer.log">>)),
           healthPort |-> EnvOrInt(env["sync"], "health_port", Setting(health, "port", <<"8080">>))]

(***************************************************************************)
(* How libpq reads a connection string: keyword, blanks, a value up to the *)
(* next blank or within quotes, where a backslash takes the next character *)
(* as it is.  The result is a function, or Error.                          *)
(***************************************************************************)
RECURSIVE Skip(_)
Skip(s) == IF s # <<>> /\ Head(s) = " " THEN Skip(Tail(s)) ELSE s

RECURSIVE Value(_, _)
Value(s, quoted) ==   \* <<the value, what follows>>, or Error
  LET Then(c, rest) ==
        LET v == Value(rest, quoted) IN IF v = Error THEN Error ELSE <<<<c>> \o v[1], v[2]>>
  IN  CASE s = <<>> -> IF quoted THEN Error ELSE <<<<>>, <<>>>>
        [] s # <<>> /\ Head(s) = (IF quoted THEN "'" ELSE " ") -> <<<<>>, Tail(s)>>
        [] s # <<>> /\ Head(s) = "\\" ->
             IF Len(s) = 1 THEN Value(<<>>, quoted) ELSE Then(s[2], SubSeq(s, 3, Len(s)))
        [] OTHER -> Then(Head(s), Tail(s))

RECURSIVE ParseConninfo(_, _)
ParseConninfo(s, found) ==
  LET at == Skip(s)
      text == Skip(Tail(at))
      quoted == text # <<>> /\ Head(text) = "'"
      v == Value(IF quoted THEN Tail(text) ELSE text, quoted)
  IN  CASE at = <<>> -> found
        [] at # <<>> /\ Head(at) \notin DOMAIN Defaults -> Error
        [] OTHER -> IF v = Error THEN Error
                    ELSE ParseConninfo(v[2], [k \in DOMAIN found \cup {Head(at)} |->
                                                IF k = Head(at) THEN v[1] ELSE found[k]])

(* The values that mean themselves in a connection string                  *)
Plain(text) ==
  /\ text # <<>>
  /\ Head(text) # "'"
  /\ \A k \in DOMAIN text : text[k] \notin {" ", "\\"}
==============================================================================
