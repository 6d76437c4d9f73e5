-------------------------- MODULE TableTrackerProofs --------------------------
(***************************************************************************)
(* What is proved of TableTracker, for all catalogues, configurations and  *)
(* faults: keys are recent, and a discovery that nothing disturbed finds   *)
(* the keys there are.                                                     *)
(***************************************************************************)
EXTENDS TableTracker, TLAPS, FiniteSetTheorems, SequenceTheorems

(* The state that the theorems need the types of. *)
TypeOK ==
  /\ catalog \in Catalogs
  /\ config \in Configs
  /\ trackedTables \in Seq(Seq(STRING))
  /\ pc \in {"idle", "list", "keys"}
  /\ next \in Nat \ {0}
  /\ troubled \in BOOLEAN
  /\ catalog \in seen

(* The sorted permutations of an interval are one: it needs no induction   *)
(* because an injection cannot go into a smaller interval.                 *)
LEMMA SortedIsIdentity ==
  ASSUME NEW n \in Nat, NEW p \in [1 .. n -> 1 .. n],
         \A i, j \in 1 .. n : i # j => p[i] # p[j],
         \A i, j \in 1 .. n : i < j => p[i] <= p[j]
  PROVE  \A i \in 1 .. n : p[i] = i
<1> SUFFICES ASSUME NEW i \in 1 .. n PROVE p[i] = i
  OBVIOUS
<1>0. p[i] \in 1 .. n
  OBVIOUS
<1>1. i <= p[i]
  <2> DEFINE f == [j \in 1 .. i |-> p[j]]
  <2>1. \A j \in 1 .. i : j \in 1 .. n /\ p[j] \in 1 .. p[i]
    <3> SUFFICES ASSUME NEW j \in 1 .. i PROVE j \in 1 .. n /\ p[j] \in 1 .. p[i]
      OBVIOUS
    <3>1. j \in 1 .. n /\ (j < i \/ j = i)
      OBVIOUS
    <3>2. p[j] \in 1 .. n /\ p[j] <= p[i]
      BY <1>0, <3>1
    <3> QED
      BY <1>0, <3>1, <3>2
  <2>2. f \in Injection(1 .. i, 1 .. p[i])
    <3>1. f \in [1 .. i -> 1 .. p[i]] /\ \A j, k \in 1 .. i : f[j] = f[k] => j = k
      BY <2>1
    <3> HIDE DEF f
    <3> QED
      BY <3>1 DEF Injection, IsInjective
  <2>3. Cardinality(1 .. i) <= Cardinality(1 .. p[i])
    BY <1>0, <2>2, FS_Interval, FS_Injection
  <2> QED
    BY <1>0, <2>3, FS_Interval
<1>2. p[i] <= i
  <2> DEFINE f == [j \in i .. n |-> p[j]]
  <2>1. \A j \in i .. n : j \in 1 .. n /\ p[j] \in p[i] .. n
    <3> SUFFICES ASSUME NEW j \in i .. n PROVE j \in 1 .. n /\ p[j] \in p[i] .. n
      OBVIOUS
    <3>1. j \in 1 .. n /\ (i < j \/ j = i)
      OBVIOUS
    <3>2. p[j] \in 1 .. n /\ p[i] <= p[j]
      BY <1>0, <3>1
    <3> QED
      BY <1>0, <3>1, <3>2
  <2>2. f \in Injection(i .. n, p[i] .. n)
    <3>1. f \in [i .. n -> p[i] .. n] /\ \A j, k \in i .. n : f[j] = f[k] => j = k
      BY <2>1
    <3> HIDE DEF f
    <3> QED
      BY <3>1 DEF Injection, IsInjective
  <2>3. Cardinality(i .. n) <= Cardinality(p[i] .. n)
    BY <1>0, <2>2, FS_Interval, FS_Injection
  <2> QED
    BY <1>0, <2>3, FS_Interval
<1> QED
  BY <1>0, <1>1, <1>2

(* The rows of one constraint come in the order of its columns. *)
LEMMA OneKeyInOrder ==
  ASSUME NEW k, k.columns \in Seq(STRING)
  PROVE  ByPosition({k}) = {k.columns}
<1> DEFINE n == Len(k.columns)
           rows == UNION {{<<x, i>> : i \in DOMAIN x.columns} : x \in {k}}
           sorted == {s \in SetToSeqs(rows) : \A i, j \in DOMAIN s : i < j => s[i][2] <= s[j][2]}
           Columns(s) == [i \in DOMAIN s |-> s[i][1].columns[s[i][2]]]
<1>1. n \in Nat /\ DOMAIN k.columns = 1 .. n /\ k.columns \in [1 .. n -> STRING]
  BY LenProperties
<1>2. rows = {<<k, i>> : i \in 1 .. n}
  BY <1>1
<1>3. Cardinality(rows) = n
  <2> DEFINE f == [i \in 1 .. n |-> <<k, i>>]
  <2>1. /\ f \in [1 .. n -> rows]
        /\ \A i, j \in 1 .. n : f[i] = f[j] => i = j
        /\ \A r \in rows : \E i \in 1 .. n : f[i] = r
    BY <1>2
  <2> HIDE DEF f, rows, n
  <2>2. f \in Bijection(1 .. n, rows)
    BY <2>1 DEF Bijection, Injection, Surjection, IsInjective
  <2> QED
    BY <1>1, <2>2, FS_CountingElements DEF ExistsBijection
<1>4. \A s : s \in sorted <=>
        /\ s \in [1 .. n -> rows]
        /\ \A i, j \in 1 .. n : i # j => s[i] # s[j]
        /\ \A i, j \in 1 .. n : i < j => s[i][2] <= s[j][2]
  <2> HIDE DEF rows, n
  <2>1. SetToSeqs(rows) = {f \in [1 .. n -> rows] : \A i, j \in 1 .. n : i # j => f[i] # f[j]}
    BY <1>3 DEF SetToSeqs
  <2> QED
    BY <2>1
<1>5. \A s \in sorted : \A i \in 1 .. n : s[i] = <<k, i>>
  <2> SUFFICES ASSUME NEW s \in sorted PROVE \A i \in 1 .. n : s[i] = <<k, i>>
    OBVIOUS
  <2> DEFINE p == [i \in 1 .. n |-> s[i][2]]
  <2> HIDE DEF sorted, n, rows
  <2>1. /\ s \in [1 .. n -> rows]
        /\ \A i, j \in 1 .. n : i # j => s[i] # s[j]
        /\ \A i, j \in 1 .. n : i < j => s[i][2] <= s[j][2]
    BY <1>4
  <2>2. \A i \in 1 .. n : s[i] = <<k, s[i][2]>> /\ s[i][2] \in 1 .. n
    BY <1>2, <2>1
  <2>3. p \in [1 .. n -> 1 .. n] /\ \A i \in 1 .. n : p[i] = s[i][2] /\ s[i] = <<k, p[i]>>
    BY <2>2
  <2> HIDE DEF p
  <2>4. /\ \A i, j \in 1 .. n : i # j => p[i] # p[j]
        /\ \A i, j \in 1 .. n : i < j => p[i] <= p[j]
    BY <2>1, <2>3
  <2>5. \A i \in 1 .. n : p[i] = i
    BY <1>1, <2>3, <2>4, SortedIsIdentity
  <2> QED
    BY <2>3, <2>5
<1>6. \A s \in sorted : Columns(s) = k.columns
  <2> SUFFICES ASSUME NEW s \in sorted PROVE Columns(s) = k.columns
    OBVIOUS
  <2> HIDE DEF sorted, n
  <2>1. DOMAIN s = 1 .. n
    BY <1>4
  <2>2. \A i \in 1 .. n : s[i][1].columns[s[i][2]] = k.columns[i]
    <3> SUFFICES ASSUME NEW i \in 1 .. n PROVE s[i][1].columns[s[i][2]] = k.columns[i]
      OBVIOUS
    <3>1. s[i] = <<k, i>>
      BY <1>5
    <3>2. s[i][1] = k /\ s[i][2] = i
      BY <3>1
    <3> QED
      BY <3>2
  <2>3. Columns(s) = [i \in 1 .. n |-> k.columns[i]]
    BY <2>1, <2>2
  <2> QED
    BY <1>1, <2>3
<1>7. [i \in 1 .. n |-> <<k, i>>] \in sorted
  <2> HIDE DEF sorted, n
  <2> QED
    BY <1>1, <1>2, <1>4
<1>8. ByPosition({k}) = {Columns(s) : s \in sorted}
  BY DEF ByPosition
<1> HIDE DEF sorted, Columns, n
<1> QED
  BY <1>6, <1>7, <1>8

LEMMA NoKeyNoColumns == ByPosition({}) = {<<>>}
<1> DEFINE rows == UNION {{<<x, i>> : i \in DOMAIN x.columns} : x \in {}}
           sorted == {s \in SetToSeqs(rows) : \A i, j \in DOMAIN s : i < j => s[i][2] <= s[j][2]}
           Columns(s) == [i \in DOMAIN s |-> s[i][1].columns[s[i][2]]]
<1>1. rows = {} /\ Cardinality(rows) = 0
  BY FS_EmptySet
<1>2. SetToSeqs(rows) = {<<>>}
  <2>1. SetToSeqs(rows) = {f \in [1 .. 0 -> {}] : \A i, j \in 1 .. 0 : i # j => f[i] # f[j]}
    BY <1>1 DEF SetToSeqs
  <2>2. <<>> \in [1 .. 0 -> {}]
    BY EmptySeq, LenProperties
  <2>3. ASSUME NEW f \in [1 .. 0 -> {}] PROVE f = <<>>
    <3>1. f \in Seq({})
      BY SeqDef
    <3>2. Len(f) \in Nat /\ 1 .. Len(f) = 1 .. 0
      BY <3>1, LenProperties
    <3> QED
      BY <3>1, <3>2, EmptySeq
  <2> QED
    BY <2>1, <2>2, <2>3
<1>3. sorted = {<<>>}
  BY <1>2
<1>4. Columns(<<>>) = <<>>
  OBVIOUS
<1>5. ByPosition({}) = {Columns(s) : s \in sorted}
  BY DEF ByPosition
<1> HIDE DEF sorted, Columns
<1> QED
  BY <1>3, <1>4, <1>5

------------------------------------------------------------------------------
(* A name of two parts is the schema and the table that are looked up.     *)
LEMMA QualifiedName ==
  ASSUME NEW name \in Seq(STRING), Len(name) = 2
  PROVE  <<SchemaOf(name)>> \o TableOf(name) = name
<1>1. /\ Head(name) \in STRING /\ Tail(name) \in Seq(STRING)
      /\ Len(Tail(name)) = 1 /\ Tail(name)[1] = name[2] /\ Head(name) = name[1]
  <2>1. name # <<>>
    BY EmptySeq
  <2>2. /\ Head(name) \in STRING /\ Tail(name) \in Seq(STRING) /\ Len(Tail(name)) = Len(name) - 1
        /\ \A i \in 1 .. Len(Tail(name)) : Tail(name)[i] = name[i + 1]
    BY <2>1, HeadTailProperties
  <2>3. Len(Tail(name)) = 1
    BY <2>2
  <2>4. 1 \in 1 .. Len(Tail(name)) /\ 1 + 1 = 2
    <3>1. 1 \in 1 .. 1 /\ 1 + 1 = 2
      OBVIOUS
    <3> QED
      BY <2>3, <3>1, Zenon
  <2>5. Tail(name)[1] = name[2]
    BY <2>2, <2>4
  <2>6. Head(name) = name[1]
    OBVIOUS
  <2> QED
    BY <2>2, <2>3, <2>5, <2>6
<1>2. <<Head(name)>> \in Seq(STRING) /\ Len(<<Head(name)>>) = 1 /\ <<Head(name)>>[1] = name[1]
  BY <1>1
<1> DEFINE t == <<Head(name)>> \o Tail(name)
<1>3. /\ t \in Seq(STRING) /\ Len(t) = 2
      /\ t[1] = <<Head(name)>>[1] /\ t[2] = Tail(name)[1]
  <2>1. /\ t \in Seq(STRING) /\ Len(t) = 1 + 1
        /\ \A i \in 1 .. 1 + 1 : t[i] = IF i <= 1 THEN <<Head(name)>>[i] ELSE Tail(name)[i - 1]
    <3>1. \A u, v \in Seq(STRING) :
            /\ u \o v \in Seq(STRING) /\ Len(u \o v) = Len(u) + Len(v)
            /\ \A i \in 1 .. Len(u) + Len(v) :
                 (u \o v)[i] = IF i <= Len(u) THEN u[i] ELSE v[i - Len(u)]
      BY ConcatProperties
    <3> QED
      BY <1>1, <1>2, <3>1
  <2> HIDE DEF t
  <2> QED
    BY <2>1
<1> HIDE DEF t
<1>4. t = name
  BY <1>1, <1>2, <1>3, SeqEqual
<1> QED
  BY <1>4 DEF SchemaOf, TableOf, t

(* The query of FindKey, when no two constraints share a name, has one     *)
(* answer: the table's own primary key in key order, if there is one.      *)
LEMMA KeyIsOwn ==
  ASSUME NEW c \in Catalogs, UniqueNames(c), NEW name \in Seq(STRING), Len(name) = 2
  PROVE  KeyColumns(c, name) = {OwnKey(c, name)}
<1> DEFINE own == {k \in c.constraints : k.kind = "PRIMARY KEY" /\ k.table = name}
<1>1. <<SchemaOf(name)>> \o TableOf(name) = name
  BY QualifiedName
<1>2. KeyConstraints(c, name) = own
  BY <1>1 DEF KeyConstraints
<1>3. TableNamed(name) = name
  BY DEF TableNamed
<1>4. OwnKey(c, name) = IF own = {} THEN <<>> ELSE (CHOOSE k \in own : TRUE).columns
  BY <1>3 DEF OwnKey
<1>5. CASE own = {}
  <2>1. {k \in c.constraints : \E tc \in KeyConstraints(c, name) : tc.name = k.name} = {}
    BY <1>2, <1>5
  <2> QED
    BY <1>4, <1>5, <2>1, NoKeyNoColumns DEF KeyColumns
<1>6. CASE own # {}
  <2>1. PICK k \in own : TRUE
    BY <1>6
  <2>2. own = {k}
    BY <2>1, CatalogAssumption
  <2>3. {l \in c.constraints : \E tc \in KeyConstraints(c, name) : tc.name = l.name} = {k}
    BY <1>2, <2>2 DEF UniqueNames
  <2>4. k.columns \in Seq(STRING)
    BY <2>1, CatalogAssumption
  <2>5. OwnKey(c, name) = k.columns
    BY <1>4, <1>6, <2>2
  <2> QED
    BY <2>3, <2>4, <2>5, OneKeyInOrder DEF KeyColumns
<1> QED
  BY <1>5, <1>6

(* Whatever the names of other constraints, the answer of FindKey for a    *)
(* table with a key has at least one column.                               *)
LEMMA KeyNotEmpty ==
  ASSUME NEW c \in Catalogs, NEW name \in Seq(STRING), Len(name) = 2,
         OwnKey(c, name) # <<>>, NEW columns \in KeyColumns(c, name)
  PROVE  columns # <<>>
<1> DEFINE constraints == {l \in c.constraints : \E tc \in KeyConstraints(c, name) : tc.name = l.name}
           rows == UNION {{<<l, i>> : i \in DOMAIN l.columns} : l \in constraints}
           n == Cardinality(rows)
<1>1. PICK k \in constraints : k.columns # <<>>
  <2> DEFINE own == {l \in c.constraints : l.kind = "PRIMARY KEY" /\ l.table = name}
  <2>1. KeyConstraints(c, name) = own
    BY QualifiedName DEF KeyConstraints
  <2>2. OwnKey(c, name) = IF own = {} THEN <<>> ELSE (CHOOSE l \in own : TRUE).columns
    <3>1. TableNamed(name) = name
      BY DEF TableNamed
    <3> QED
      BY <3>1 DEF OwnKey
  <2> HIDE DEF own
  <2>3. own # {} /\ (CHOOSE l \in own : TRUE) \in own
    BY <2>2
  <2>4. (CHOOSE l \in own : TRUE) \in constraints
    BY <2>1, <2>3 DEF own
  <2> QED
    BY <2>2, <2>3, <2>4
<1>2. \A l \in constraints : l.columns \in Seq(STRING) /\ DOMAIN l.columns = 1 .. Len(l.columns)
  BY CatalogAssumption, LenProperties
<1>3. <<k, 1>> \in rows
  <2>1. 1 \in DOMAIN k.columns
    BY <1>1, <1>2, EmptySeq
  <2> QED
    BY <2>1
<1>4. IsFiniteSet(rows)
  <2> DEFINE f == [l \in constraints |-> {<<l, i>> : i \in DOMAIN l.columns}]
             R == {f[l] : l \in constraints}
  <2>1. IsFiniteSet(R)
    <3>1. IsFiniteSet(constraints)
      BY CatalogAssumption, FS_Subset
    <3>2. f \in Surjection(constraints, R)
      BY DEF Surjection
    <3> QED
      BY <3>1, <3>2, FS_Surjection
  <2>2. ASSUME NEW l \in constraints PROVE IsFiniteSet(f[l])
    <3> DEFINE g == [i \in DOMAIN l.columns |-> <<l, i>>]
    <3>1. IsFiniteSet(DOMAIN l.columns)
      <4>1. Len(l.columns) \in Int /\ DOMAIN l.columns = 1 .. Len(l.columns)
        BY <1>2, LenProperties
      <4> HIDE DEF constraints
      <4>2. IsFiniteSet(1 .. Len(l.columns))
        BY <4>1, FS_Interval
      <4> QED
        BY <4>1, <4>2
    <3>2. g \in Surjection(DOMAIN l.columns, f[l])
      BY DEF Surjection
    <3> QED
      BY <3>1, <3>2, FS_Surjection
  <2>3. rows = UNION R
    <3>1. R = {{<<l, i>> : i \in DOMAIN l.columns} : l \in constraints}
      OBVIOUS
    <3> HIDE DEF R
    <3> QED
      BY <3>1
  <2> HIDE DEF R, f
  <2>4. \A T \in R : IsFiniteSet(T)
    BY <2>2 DEF R
  <2> QED
    BY <2>1, <2>3, <2>4, FS_UNION
<1>5. n \in Nat \ {0}
  BY <1>3, <1>4, FS_CardinalityType, FS_EmptySet
<1>6. PICK s \in SetToSeqs(rows) : columns = [i \in DOMAIN s |-> s[i][1].columns[s[i][2]]]
  BY DEF KeyColumns, ByPosition
<1>7. DOMAIN s = 1 .. n
  BY <1>6 DEF SetToSeqs
<1> HIDE DEF n
<1> QED
  BY <1>5, <1>6, <1>7

(* The list that ListTables gets has all the tables of the schema public.  *)
LEMMA ListedAll ==
  ASSUME NEW c \in Catalogs, NEW list \in SetToSeqs(PublicTables(c))
  PROVE  ToSet(list) = PublicTables(c)
<1> DEFINE S == PublicTables(c)
           n == Cardinality(S)
<1>1. IsFiniteSet(S) /\ n \in Nat
  BY CatalogAssumption, FS_Subset, FS_CardinalityType DEF PublicTables
<1>2. list \in [1 .. n -> S] /\ \A i, j \in 1 .. n : i # j => list[i] # list[j]
  BY DEF SetToSeqs
<1> HIDE DEF S
<1>3. list \in Injection(1 .. n, S)
  BY <1>2 DEF Injection, IsInjective
<1>4. list \in Surjection(1 .. n, S)
  <2> HIDE DEF n
  <2>1. Cardinality(1 .. n) = n
    BY <1>1, FS_Interval
  <2>2. Cardinality(S) = n
    BY DEF n
  <2> QED
    BY <1>1, <1>3, <2>1, <2>2, FS_Injection
<1> QED
  BY <1>2, <1>4 DEF Surjection, ToSet, S

------------------------------------------------------------------------------
(* While nothing disturbs a discovery, every table before next has its key.*)
Undisturbed == seen = {catalog} /\ ~ troubled /\ UniqueNames(catalog)

KeysSoFar ==
  Undisturbed =>
    /\ pc = "list" => trackedTables = <<>>
    /\ \A name \in DOMAIN tablePrimaryKeys :
         Len(name) = 2 => tablePrimaryKeys[name] = OwnKey(catalog, name)
    /\ \A i \in 1 .. Len(trackedTables) :
         i < next \/ pc = "idle" => trackedTables[i] \in DOMAIN tablePrimaryKeys

IInv == TypeOK /\ KeysAreRecent /\ KeysSoFar

LEMMA InitIInv == Init => IInv
<1> SUFFICES ASSUME Init PROVE IInv
  OBVIOUS
<1>1. <<>> \in Seq(Seq(STRING)) /\ Len(<<>>) = 0
  OBVIOUS
<1>2. TypeOK
  <2>1. trackedTables \in Seq(Seq(STRING))
    BY <1>1 DEF Init
  <2>2. /\ catalog \in Catalogs /\ config \in Configs /\ catalog \in seen
        /\ pc = "idle" /\ next = 1 /\ troubled = FALSE
    BY DEF Init
  <2>3. troubled \in BOOLEAN
    BY <2>2, Zenon
  <2> QED
    BY <2>1, <2>2, <2>3 DEF TypeOK
<1>3. DOMAIN tablePrimaryKeys = {}
  BY DEF Init
<1>4. KeysAreRecent /\ KeysSoFar
  BY <1>1, <1>3 DEF KeysAreRecent, KeysSoFar, Init
<1> QED
  BY <1>2, <1>4 DEF IInv

(* The lists that ListTables may get are sequences of names.               *)
LEMMA ListedNames ==
  ASSUME NEW c \in Catalogs, NEW list \in SetToSeqs(PublicTables(c))
  PROVE  list \in Seq(Seq(STRING))
<1> DEFINE n == Cardinality(PublicTables(c))
<1>1. IsFiniteSet(PublicTables(c)) /\ PublicTables(c) \subseteq Seq(STRING)
  BY CatalogAssumption, FS_Subset DEF PublicTables
<1>2. n \in Nat
  BY <1>1, FS_CardinalityType
<1>3. list \in [1 .. n -> PublicTables(c)]
  BY DEF SetToSeqs
<1> HIDE DEF n
<1>4. list \in [1 .. n -> Seq(STRING)]
  BY <1>1, <1>3
<1> QED
  BY <1>2, <1>4, SeqDef

LEMMA NextTypes == TypeOK /\ [Next]_vars => TypeOK'
<1> SUFFICES ASSUME TypeOK, [Next]_vars PROVE TypeOK'
  OBVIOUS
<1> USE DEF outside, trackerVars
<1>1. CASE StartDiscovery
  <2>1. <<>> \in Seq(Seq(STRING))
    OBVIOUS
  <2> QED
    BY <1>1, <2>1 DEF StartDiscovery, TypeOK
<1>2. CASE ListTables
  BY <1>2, ListedNames DEF ListTables, TrackTables, TypeOK
<1>3. CASE FailList
  <2>1. <<>> \in Seq(Seq(STRING))
    OBVIOUS
  <2> QED
    BY <1>3, <2>1 DEF FailList, TrackTables, TypeOK
<1>4. CASE UseConfigured
  BY <1>4, ConfigAssumption DEF UseConfigured, TrackTables, TypeOK
<1>5. CASE FindKey \/ FailKey
  <2>1. next + 1 \in Nat \ {0}
    BY DEF TypeOK
  <2> QED
    BY <1>5, <2>1 DEF FindKey, FailKey, TypeOK
<1>6. CASE EndDiscovery
  BY <1>6 DEF EndDiscovery, TypeOK
<1>7. CASE Migrate \/ LoseConnection \/ UNCHANGED vars
  BY <1>7 DEF Migrate, LoseConnection, vars, TypeOK
<1> QED
  BY <1>1, <1>2, <1>3, <1>4, <1>5, <1>6, <1>7 DEF Next, Discover

(* Keys are taken from the catalogue of the moment, and forgotten with the *)
(* catalogues they came from.                                              *)
LEMMA NextRecent == TypeOK /\ KeysAreRecent /\ [Next]_vars => KeysAreRecent'
<1> SUFFICES ASSUME TypeOK, KeysAreRecent, [Next]_vars PROVE KeysAreRecent'
  OBVIOUS
<1> USE DEF outside, trackerVars
<1>1. CASE StartDiscovery
  <2>1. DOMAIN tablePrimaryKeys' = {}
    BY <1>1 DEF StartDiscovery
  <2> QED
    BY <2>1 DEF KeysAreRecent
<1>2. CASE FindKey
  <2> DEFINE name == trackedTables[next]
  <2>1. PICK columns \in KeyColumns(catalog, name) :
          tablePrimaryKeys' = [n \in DOMAIN tablePrimaryKeys \cup {name} |->
                                 IF n = name THEN columns ELSE tablePrimaryKeys[n]]
    BY <1>2 DEF FindKey
  <2>2. UNCHANGED seen /\ catalog \in seen
    BY <1>2 DEF FindKey, TypeOK
  <2>3. \A n \in DOMAIN tablePrimaryKeys' :
          \/ tablePrimaryKeys'[n] \in KeyColumns(catalog, n)
          \/ n \in DOMAIN tablePrimaryKeys /\ tablePrimaryKeys'[n] = tablePrimaryKeys[n]
    BY <2>1
  <2> QED
    BY <2>2, <2>3 DEF KeysAreRecent, KeyColumns, KeyConstraints
<1>3. CASE \/ ListTables \/ FailList \/ UseConfigured \/ FailKey \/ EndDiscovery
           \/ Migrate \/ LoseConnection \/ UNCHANGED vars
  <2>1. UNCHANGED tablePrimaryKeys /\ seen \subseteq seen'
    BY <1>3 DEF ListTables, FailList, UseConfigured, TrackTables, FailKey, EndDiscovery,
                Migrate, LoseConnection, vars
  <2> QED
    BY <2>1 DEF KeysAreRecent, KeyColumns, KeyConstraints
<1> QED
  BY <1>1, <1>2, <1>3 DEF Next, Discover

LEMMA NextSoFar == IInv /\ [Next]_vars => KeysSoFar'
<1> SUFFICES ASSUME IInv, [Next]_vars, Undisturbed' PROVE KeysSoFar'
  BY DEF KeysSoFar
<1>0. TypeOK /\ KeysSoFar
  BY DEF IInv
<1> USE DEF outside, trackerVars
<1>1. CASE StartDiscovery
  <2>1. DOMAIN tablePrimaryKeys' = {} /\ trackedTables' = <<>> /\ Len(<<>>) = 0
    BY <1>1 DEF StartDiscovery
  <2> QED
    BY <2>1 DEF KeysSoFar
<1>2. CASE ListTables \/ UseConfigured
  <2>1. /\ UNCHANGED <<catalog, tablePrimaryKeys, seen, troubled>>
        /\ pc' = "keys" /\ next' = 1
    BY <1>2 DEF ListTables, UseConfigured, TrackTables
  <2>2. Undisturbed
    BY <2>1 DEF Undisturbed
  <2> QED
    BY <1>0, <2>1, <2>2 DEF KeysSoFar
<1>3. CASE FailList \/ FailKey
  BY <1>3 DEF FailList, FailKey, Undisturbed
<1>4. CASE FindKey
  <2> DEFINE name == trackedTables[next]
  <2>1. PICK columns \in KeyColumns(catalog, name) :
          tablePrimaryKeys' = [n \in DOMAIN tablePrimaryKeys \cup {name} |->
                                 IF n = name THEN columns ELSE tablePrimaryKeys[n]]
    BY <1>4 DEF FindKey
  <2>2. /\ UNCHANGED <<catalog, trackedTables, pc, seen, troubled>>
        /\ pc = "keys" /\ next' = next + 1 /\ next <= Len(trackedTables)
    BY <1>4 DEF FindKey
  <2>3. Undisturbed /\ UniqueNames(catalog)
    BY <2>2 DEF Undisturbed
  <2>4. name \in Seq(STRING)
    BY <1>0, <2>2, ElementOfSeq DEF TypeOK
  <2>5. Len(name) = 2 => columns = OwnKey(catalog, name)
    BY <1>0, <2>1, <2>3, <2>4, KeyIsOwn DEF TypeOK
  <2> HIDE DEF name
  <2>6. \A n \in DOMAIN tablePrimaryKeys' :
          Len(n) = 2 => tablePrimaryKeys'[n] = OwnKey(catalog, n)
    BY <1>0, <2>1, <2>3, <2>5 DEF KeysSoFar
  <2>7. ASSUME NEW i \in 1 .. Len(trackedTables), i < next + 1
        PROVE  trackedTables[i] \in DOMAIN tablePrimaryKeys'
    <3>1. i < next \/ i = next
      BY <1>0, <2>7 DEF TypeOK
    <3>2. CASE i < next
      BY <1>0, <2>1, <2>3, <3>2 DEF KeysSoFar
    <3>3. CASE i = next
      BY <2>1, <3>3 DEF name
    <3> QED
      BY <3>1, <3>2, <3>3
  <2> QED
    BY <2>2, <2>6, <2>7 DEF KeysSoFar
<1>5. CASE EndDiscovery
  <2>1. /\ UNCHANGED <<catalog, tablePrimaryKeys, trackedTables, seen, troubled>>
        /\ pc = "keys" /\ pc' = "idle" /\ next > Len(trackedTables)
    BY <1>5 DEF EndDiscovery
  <2>2. Undisturbed
    BY <2>1 DEF Undisturbed
  <2>3. \A i \in 1 .. Len(trackedTables) : i < next
    BY <1>0, <2>1, LenProperties DEF TypeOK
  <2> QED
    BY <1>0, <2>1, <2>2, <2>3 DEF KeysSoFar
<1>6. CASE Migrate
  BY <1>0, <1>6 DEF Migrate, Undisturbed, TypeOK
<1>7. CASE LoseConnection \/ UNCHANGED vars
  <2>1. UNCHANGED <<catalog, tablePrimaryKeys, trackedTables, pc, next, seen, troubled>>
    BY <1>7 DEF LoseConnection, vars
  <2>2. Undisturbed
    BY <2>1 DEF Undisturbed
  <2> QED
    BY <1>0, <2>1, <2>2 DEF KeysSoFar
<1> QED
  BY <1>1, <1>2, <1>3, <1>4, <1>5, <1>6, <1>7 DEF Next, Discover

(* The invariant the theorems rest on. *)
THEOREM Inductive == Spec => []IInv
<1>1. IInv /\ [Next]_vars => IInv'
  BY NextTypes, NextRecent, NextSoFar DEF IInv
<1> QED
  BY <1>1, InitIInv, PTL DEF Spec

(* A key in use was the answer of the catalogue some time since the last   *)
(* discovery began: clearing tablePrimaryKeys_ forgets the older ones.     *)
THEOREM KeysRecent == Spec => []KeysAreRecent
BY Inductive, PTL DEF IInv

LEMMA SoFarIsFound == IInv => KeysFound
<1> SUFFICES ASSUME IInv, Discovered, UniqueNames(catalog),
                    NEW name \in ToSet(trackedTables), Len(name) = 2
             PROVE  getPrimaryKeys(name) = OwnKey(catalog, name)
  BY DEF KeysFound
<1>1. PICK i \in 1 .. Len(trackedTables) : trackedTables[i] = name
  BY LenProperties DEF ToSet, IInv, TypeOK
<1>2. Undisturbed /\ pc = "idle"
  BY DEF Undisturbed, Discovered
<1> QED
  BY <1>1, <1>2 DEF IInv, KeysSoFar, getPrimaryKeys

(* A discovery that no failure and no migration disturbed has the own key  *)
(* of every qualified table, in key order, whatever the catalogue, if the  *)
(* names of its constraints are unique.                                    *)
THEOREM UndisturbedFindsKeys == Spec => []KeysFound
BY Inductive, SoFarIsFound, PTL

------------------------------------------------------------------------------
(* Names of constraints that are not unique can spoil the columns of a key *)
(* but not hide it: a discovery that nothing disturbs lists all the tables *)
(* asked for and finds some key for each of them that has one.             *)
Calm == seen = {catalog} /\ ~ troubled

Findable(name) == Len(name) = 2 /\ OwnKey(catalog, name) # <<>>

TablesFound ==
  Calm =>
    /\ pc = "keys" => ToSet(trackedTables) = Asked
    /\ \A i \in 1 .. Len(trackedTables) :
         /\ pc = "idle" \/ (pc = "keys" /\ i < next)
         /\ Findable(trackedTables[i])
         => getPrimaryKeys(trackedTables[i]) # <<>>

LEMMA NextFound == TypeOK /\ TablesFound /\ [Next]_vars => TablesFound'
<1> SUFFICES ASSUME TypeOK, TablesFound, [Next]_vars, Calm' PROVE TablesFound'
  BY DEF TablesFound
<1> USE DEF outside, trackerVars
<1>1. CASE StartDiscovery
  <2>1. pc' = "list"
    BY <1>1 DEF StartDiscovery
  <2> QED
    BY <2>1 DEF TablesFound
<1>2. CASE ListTables \/ UseConfigured
  <2>1. pc' = "keys" /\ next' = 1 /\ UNCHANGED <<catalog, config>>
    BY <1>2 DEF ListTables, UseConfigured, TrackTables
  <2>2. ToSet(trackedTables') = Asked
    BY <1>2, ListedAll DEF ListTables, UseConfigured, TrackTables, Asked, TypeOK
  <2>3. Asked' = Asked
    BY <2>1 DEF Asked
  <2>4. trackedTables' \in Seq(Seq(STRING))
    BY NextTypes DEF TypeOK
  <2> QED
    BY <2>1, <2>2, <2>3, <2>4, LenProperties DEF TablesFound
<1>3. CASE FailList \/ FailKey
  BY <1>3 DEF FailList, FailKey, Calm
<1>4. CASE FindKey
  <2> DEFINE name == trackedTables[next]
  <2>1. PICK columns \in KeyColumns(catalog, name) :
          tablePrimaryKeys' = [n \in DOMAIN tablePrimaryKeys \cup {name} |->
                                 IF n = name THEN columns ELSE tablePrimaryKeys[n]]
    BY <1>4 DEF FindKey
  <2>2. /\ UNCHANGED <<catalog, config, trackedTables, pc, seen, troubled>>
        /\ pc = "keys" /\ next' = next + 1 /\ next <= Len(trackedTables)
    BY <1>4 DEF FindKey
  <2>3. Calm
    BY <2>2 DEF Calm
  <2>4. name \in Seq(STRING)
    BY <2>2, ElementOfSeq DEF TypeOK
  <2>5. Findable(name) => columns # <<>>
    BY <2>1, <2>4, KeyNotEmpty DEF Findable, TypeOK
  <2> HIDE DEF name
  <2>6. \A n : Findable(n) /\ n = name => getPrimaryKeys(n)' # <<>>
    BY <2>1, <2>5 DEF getPrimaryKeys
  <2>7. \A n : n # name => getPrimaryKeys(n)' = getPrimaryKeys(n)
    BY <2>1 DEF getPrimaryKeys
  <2>8. \A n : Findable(n)' <=> Findable(n)
    BY <2>2 DEF Findable
  <2>9. ASSUME NEW i \in 1 .. Len(trackedTables), i < next + 1, Findable(trackedTables[i])
        PROVE  getPrimaryKeys(trackedTables[i])' # <<>>
    <3>1. CASE trackedTables[i] = name
      <4>1. trackedTables'[i] = trackedTables[i]
        BY <2>2
      <4> QED
        BY <2>6, <2>9, <3>1, <4>1
    <3>2. CASE trackedTables[i] # name
      <4>1. i < next
        BY <2>9, <3>2 DEF name, TypeOK
      <4>2. getPrimaryKeys(trackedTables[i]) # <<>>
        BY <2>2, <2>3, <2>9, <4>1 DEF TablesFound
      <4> QED
        BY <2>2, <2>7, <3>2, <4>2
    <3> QED
      BY <3>1, <3>2
  <2>10. Asked' = Asked /\ ToSet(trackedTables') = ToSet(trackedTables)
    BY <2>2 DEF Asked
  <2> QED
    BY <2>2, <2>3, <2>8, <2>9, <2>10 DEF TablesFound
<1>5. CASE EndDiscovery
  <2>1. /\ UNCHANGED <<catalog, tablePrimaryKeys, trackedTables, seen, troubled>>
        /\ pc = "keys" /\ pc' = "idle" /\ next > Len(trackedTables)
    BY <1>5 DEF EndDiscovery
  <2>2. Calm
    BY <2>1 DEF Calm
  <2>3. \A i \in 1 .. Len(trackedTables) : i < next
    BY <2>1, LenProperties DEF TypeOK
  <2> QED
    BY <2>1, <2>2, <2>3 DEF TablesFound, Findable, getPrimaryKeys
<1>6. CASE Migrate
  BY <1>6 DEF Migrate, Calm, TypeOK
<1>7. CASE LoseConnection \/ UNCHANGED vars
  <2>1. UNCHANGED <<catalog, config, tablePrimaryKeys, trackedTables, pc, next, seen, troubled>>
    BY <1>7 DEF LoseConnection, vars
  <2> QED
    BY <2>1 DEF TablesFound, Findable, getPrimaryKeys, Calm, Asked
<1> QED
  BY <1>1, <1>2, <1>3, <1>4, <1>5, <1>6, <1>7 DEF Next, Discover
===============================================================================
