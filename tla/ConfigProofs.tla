---------------------------- MODULE ConfigProofs ----------------------------
(***************************************************************************)
(* The configuration with any number of loaders, clients, variables and    *)
(* listeners: one variable for a name, calls that nothing disturbs,        *)
(* listeners that are told; and, when no two variables share a counter of  *)
(* ids, listeners that stay.  The last part follows a document: what it    *)
(* says last of a variable is what the variable has when it has been read. *)
(***************************************************************************)
EXTENDS Config, ListTheorems, SequenceTheorems

Listener == [id : Nat, cb : Nat]
Texts == Values \cup {Junk}
Stations == {"free", "next", "call", "store", "insert", "create", "exists",
             "leave"}

ConfigTypes ==
    /\ datas \in [Names -> Nat]
    /\ handle \in [Clients -> [Names -> Nat]]
    /\ value \in [Names -> Texts]
    /\ cbs \in [Names -> SUBSET Listener]
    /\ live \in [Names -> SUBSET Listener]
    /\ funId \in [Types -> Nat] /\ read \in [Clients -> Nat]
    /\ at \in [Threads -> Stations]
    /\ cur \in [Threads -> [name : Names \cup {<<>>}, val : Texts]]
    /\ rest \in [Loaders -> SUBSET Nat]
    /\ old \in [Loaders -> Texts]
    /\ told \in Seq(Texts)
    /\ late \subseteq Nat /\ mixed \subseteq Names

\* A call under way is for a variable that is registered.
Stages ==
    /\ \A t \in Loaders :
         /\ at[t] \in {"free", "next"} => cur[t].name = <<>>
         /\ at[t] \in {"call", "store"} =>
              cur[t].name \in Names /\ datas[cur[t].name] # 0
         /\ at[t] \notin {"insert", "create", "exists", "leave"}
    /\ \A c \in Clients :
         /\ at[c] \in {"free", "insert", "create", "exists", "leave"}
         /\ at[c] # "free" => cur[c].name \in Names
         /\ at[c] = "insert" => datas[cur[c].name] # 0
         /\ at[c] = "create" => datas[cur[c].name] = 0
    /\ \A x \in Names : datas[x] = 0 => cbs[x] = {}

\* The registry's lock excludes its writers from each other; the variable's
\* lock excludes writers from readers and from each other.
Locks ==
    /\ \A c, d \in Clients :
         at[c] \in {"create", "exists"} /\ at[d] \in {"create", "exists"}
         => c = d
    /\ \A t \in Loaders, c \in Clients :
         at[t] = "call" /\ at[c] = "insert" => cur[t].name # cur[c].name
    /\ \A c, d \in Clients :
         /\ at[c] = "insert" /\ at[d] = "insert"
         /\ cur[c].name = cur[d].name
         => c = d

\* Every listener is one: its id is its own among those of the variable, its
\* function among all.
OwnIds ==
    \A x \in Names : \A k, l \in cbs[x] : k.id = l.id => k = l
OwnFunctions ==
    /\ \A x \in Names : \A l \in cbs[x] : l.cb \in 1..Len(told)
    /\ \A x, y \in Names : \A k \in cbs[x], l \in cbs[y] :
         k.cb = l.cb => x = y /\ k = l

\* What the listeners of x know: the value, or while thread t sets it the one
\* announced, unless their turn is still to come or they came late.
Knows(l, v) == told[l.cb] = v \/ l.cb \in late
Waits(t, l) == at[t] = "call" /\ l.id \in rest[t]
Following ==
    \A x \in Names \ mixed :
        /\ \A t, u \in Loaders :
             cur[t].name = x /\ cur[u].name = x => t = u
        /\ ~BeingSet(x) => \A l \in cbs[x] : Knows(l, value[x])
        /\ \A t \in Loaders : cur[t].name = x =>
             \A l \in cbs[x] : Knows(l, cur[t].val) \/ Waits(t, l)

ConfigInv ==
    /\ ConfigTypes /\ OneVariable /\ Stages /\ Locks
    /\ CallsAreStable /\ OwnIds /\ OwnFunctions /\ Following

LEMMA Apart ==
  /\ <<>> \notin Names /\ DOMAIN TypeOf = Names /\ Default \in Texts
  /\ \A x \in Names : TypeOf[x] \in Types
  /\ Loaders \subseteq Threads /\ Clients \subseteq Threads
  /\ \A t \in Loaders, c \in Clients : t # c
  BY ConfigAssumption DEF Types, Texts, Threads

LEMMA InitConfig == Init => ConfigInv
  <1> SUFFICES ASSUME Init PROVE ConfigInv
    OBVIOUS
  <1>1. ConfigTypes
    <2>1. /\ told \in Seq(Texts)
          /\ Free \in [name : Names \cup {<<>>}, val : Texts]
      BY DEF Init, Free, Texts
    <2> QED BY <2>1 DEF Init, ConfigTypes, Texts, Stations
  <1>2. OneVariable /\ CallsAreStable
    BY Apart DEF Init, OneVariable, CallsAreStable
  <1>3. Stages /\ Locks
    BY Apart DEF Init, Stages, Locks, Free
  <1>4. OwnIds /\ OwnFunctions
    BY DEF Init, OwnIds, OwnFunctions
  <1>5. Following
    BY Apart DEF Init, Following, Free
  <1> QED BY <1>1, <1>2, <1>3, <1>4, <1>5 DEF ConfigInv

-----------------------------------------------------------------------------
(* Steps outside the calls.                                                *)

LEMMA IdleSafe ==
  ASSUME ConfigInv,
         UNCHANGED <<registryVars, listenerVars, setVars, placeVars>>
  PROVE  ConfigInv'
  <1>1. UNCHANGED <<datas, handle, value, cbs, funId, read, live, late, rest,
                    old, told, mixed, at, cur>>
    BY DEF registryVars, listenerVars, setVars, placeVars
  <1>2. ConfigTypes' /\ OneVariable' /\ Stages' /\ Locks'
    BY <1>1 DEF ConfigInv, ConfigTypes, OneVariable, Stages, Locks
  <1>3. CallsAreStable' /\ OwnIds' /\ OwnFunctions'
    BY <1>1 DEF ConfigInv, CallsAreStable, OwnIds, OwnFunctions
  <1>4. Following'
    BY <1>1 DEF ConfigInv, Following, Knows, Waits, BeingSet
  <1> QED BY <1>2, <1>3, <1>4 DEF ConfigInv

\* A loader that sets nothing goes from one place to another.
LEMMA LoaderMoves ==
  ASSUME ConfigInv, NEW t \in Loaders, NEW p \in {"free", "next"},
         at[t] \in {"free", "next"}, Goto(t, p, Free),
         UNCHANGED <<registryVars, listenerVars, setVars>>
  PROVE  ConfigInv'
  <1>1. UNCHANGED <<datas, handle, value, cbs, funId, read, live, late, rest,
                    old, told, mixed>>
    BY DEF registryVars, listenerVars, setVars
  <1>2. /\ at' = [at EXCEPT ![t] = p] /\ cur' = [cur EXCEPT ![t] = Free]
        /\ Free \in [name : Names \cup {<<>>}, val : Texts]
        /\ Free.name = <<>>
    BY DEF Goto, Free, Texts
  <1>3. /\ at' \in [Threads -> Stations]
        /\ cur' \in [Threads -> [name : Names \cup {<<>>}, val : Texts]]
        /\ at'[t] = p /\ cur'[t].name = <<>> /\ cur[t].name = <<>>
        /\ \A u \in Threads : u # t => at'[u] = at[u] /\ cur'[u] = cur[u]
    BY <1>2, Apart DEF ConfigInv, ConfigTypes, Stages, Stations
  <1>4. ConfigTypes' /\ OneVariable'
    BY <1>1, <1>3 DEF ConfigInv, ConfigTypes, OneVariable
  <1>5. Stages' /\ Locks'
    BY <1>1, <1>3, Apart DEF ConfigInv, Stages, Locks
  <1>6. CallsAreStable' /\ OwnIds' /\ OwnFunctions'
    BY <1>1, <1>3, Apart DEF ConfigInv, CallsAreStable, OwnIds, OwnFunctions
  <1>7. Following'
    BY <1>1, <1>3, Apart DEF ConfigInv, Following, Knows, Waits, BeingSet
  <1> QED BY <1>4, <1>5, <1>6, <1>7 DEF ConfigInv

\* A client that looks a name up goes from one place to another.
LEMMA ClientMoves ==
  ASSUME ConfigInv, NEW c \in Clients,
         NEW p \in {"free", "create", "exists", "leave"},
         at[c] \in {"free", "create", "exists", "leave"},
         NEW w \in [name : Names \cup {<<>>}, val : Texts], Goto(c, p, w),
         p # "free" => w.name \in Names,
         p = "create" => datas[w.name] = 0,
         p \in {"create", "exists"} => RegistryWriters = {},
         UNCHANGED <<datas, listenerVars, setVars>>,
         handle' \in [Clients -> [Names -> Nat]], OneVariable'
  PROVE  ConfigInv'
  <1>1. UNCHANGED <<datas, value, cbs, funId, read, live, late, rest, old,
                    told, mixed>>
    BY DEF listenerVars, setVars
  <1>2. /\ at' \in [Threads -> Stations]
        /\ cur' \in [Threads -> [name : Names \cup {<<>>}, val : Texts]]
        /\ at'[c] = p /\ cur'[c] = w
        /\ \A u \in Threads : u # c => at'[u] = at[u] /\ cur'[u] = cur[u]
        /\ \A t \in Loaders : t # c /\ at'[t] = at[t] /\ cur'[t] = cur[t]
        /\ \A d \in Clients : at'[d] = "insert" =>
              d # c /\ at[d] = "insert" /\ cur'[d] = cur[d]
    BY Apart DEF ConfigInv, ConfigTypes, Goto, Stations
  <1>3. ConfigTypes'
    BY <1>1, <1>2 DEF ConfigInv, ConfigTypes
  <1>4. Stages'
    <2>1. \A d \in Clients :
            /\ at'[d] \in {"free", "insert", "create", "exists", "leave"}
            /\ at'[d] # "free" => cur'[d].name \in Names
            /\ at'[d] = "create" => datas[cur'[d].name] = 0
      BY <1>2, Apart DEF ConfigInv, Stages
    <2>2. \A d \in Clients : at'[d] = "insert" => datas[cur'[d].name] # 0
      BY <1>2 DEF ConfigInv, Stages
    <2>3. \A t \in Loaders :
            /\ at'[t] \in {"free", "next"} => cur'[t].name = <<>>
            /\ at'[t] \in {"call", "store"} =>
                 cur'[t].name \in Names /\ datas[cur'[t].name] # 0
            /\ at'[t] \notin {"insert", "create", "exists", "leave"}
      BY <1>2 DEF ConfigInv, Stages
    <2> QED BY <1>1, <2>1, <2>2, <2>3 DEF ConfigInv, Stages
  <1>5. Locks'
    <2>1. \A d \in Clients : at'[d] \in {"create", "exists"} /\ d # c =>
            at[d] \in {"create", "exists"} /\ RegistryWriters # {}
      BY <1>2, Apart DEF RegistryWriters
    <2>2. \A d, e \in Clients :
            at'[d] \in {"create", "exists"} /\ at'[e] \in {"create", "exists"}
            => d = e
      BY <1>2, <2>1 DEF ConfigInv, Locks
    <2>3. \A t \in Loaders, d \in Clients :
            at'[t] = "call" /\ at'[d] = "insert" => cur'[t].name # cur'[d].name
      <3> SUFFICES ASSUME NEW t \in Loaders, NEW d \in Clients,
                          at'[t] = "call", at'[d] = "insert"
                   PROVE  cur'[t].name # cur'[d].name
        OBVIOUS
      <3>1. /\ at[t] = "call" /\ cur'[t] = cur[t]
            /\ at[d] = "insert" /\ cur'[d] = cur[d]
        BY <1>2
      <3> QED BY <3>1 DEF ConfigInv, Locks
    <2>4. \A d, e \in Clients :
            /\ at'[d] = "insert" /\ at'[e] = "insert"
            /\ cur'[d].name = cur'[e].name
            => d = e
      <3> SUFFICES ASSUME NEW d \in Clients, NEW e \in Clients,
                          at'[d] = "insert", at'[e] = "insert",
                          cur'[d].name = cur'[e].name
                   PROVE  d = e
        OBVIOUS
      <3>1. /\ at[d] = "insert" /\ cur'[d] = cur[d]
            /\ at[e] = "insert" /\ cur'[e] = cur[e]
        BY <1>2
      <3> QED BY <3>1 DEF ConfigInv, Locks
    <2> QED BY <2>2, <2>3, <2>4 DEF Locks
  <1>6. CallsAreStable'
    BY <1>1, <1>2 DEF ConfigInv, CallsAreStable
  <1>7. OwnIds' /\ OwnFunctions'
    BY <1>1 DEF ConfigInv, OwnIds, OwnFunctions
  <1>8. Following'
    <2>1. \A y \in Names : BeingSet(y)' <=> BeingSet(y)
      BY <1>2 DEF BeingSet
    <2>2. \A t \in Loaders : \A y \in Names : \A l \in cbs[y] :
            Waits(t, l) => Waits(t, l)'
      BY <1>1, <1>2 DEF Waits
    <2>3. \A t \in Loaders : cur'[t] = cur[t]
      BY <1>2
    <2>4. ASSUME NEW y \in Names \ mixed
          PROVE  /\ \A t, u \in Loaders :
                      cur'[t].name = y /\ cur'[u].name = y => t = u
                 /\ ~BeingSet(y) => \A l \in cbs[y] : Knows(l, value[y])
                 /\ \A t \in Loaders : cur'[t].name = y =>
                      \A l \in cbs[y] : Knows(l, cur'[t].val) \/ Waits(t, l)
      BY <2>3 DEF ConfigInv, Following
    <2> QED BY <1>1, <2>1, <2>2, <2>3, <2>4 DEF Following, Knows
  <1> QED BY <1>3, <1>4, <1>5, <1>6, <1>7, <1>8 DEF ConfigInv

LEMMA LookupBeginSafe ==
  ASSUME ConfigInv, NEW c \in Clients, NEW x \in Names, LookupBegin(c, x)
  PROVE  ConfigInv'
  <1>1. PICK p \in {"create", "exists"} :
          /\ p = "create" => datas[x] = 0
          /\ Goto(c, p, [name |-> x, val |-> Junk])
    BY DEF LookupBegin
  <1>2. /\ at[c] = "free" /\ RegistryWriters = {}
        /\ UNCHANGED <<datas, handle, listenerVars, setVars>>
    BY DEF LookupBegin
  <1>3. handle' \in [Clients -> [Names -> Nat]] /\ OneVariable'
    BY <1>2 DEF ConfigInv, ConfigTypes, OneVariable
  <1>4. [name |-> x, val |-> Junk] \in [name : Names \cup {<<>>}, val : Texts]
    BY DEF Texts
  <1> QED BY <1>1, <1>2, <1>3, <1>4, ClientMoves

LEMMA ExistingSafe ==
  ASSUME ConfigInv, NEW c \in Clients, Existing(c) \/ Leave(c)
  PROVE  ConfigInv'
  <1>1. PICK x \in Names : cur[c].name = x
    BY DEF Existing, Leave, ConfigInv, Stages
  <1>2. \/ handle' = [handle EXCEPT ![c][x] = datas[x]]
        \/ handle' = handle
    BY <1>1 DEF Existing, Leave
  <1>3. /\ at[c] \in {"exists", "leave"}
        /\ Goto(c, "leave", cur[c]) \/ Goto(c, "free", Free)
        /\ UNCHANGED <<datas, listenerVars, setVars>>
    BY DEF Existing, Leave
  <1>4. handle' \in [Clients -> [Names -> Nat]] /\ OneVariable'
    <2>1. CASE handle' = handle
      BY <1>3, <2>1 DEF ConfigInv, ConfigTypes, OneVariable
    <2>2. CASE handle' = [handle EXCEPT ![c][x] = datas[x]]
      <3>1. handle' \in [Clients -> [Names -> Nat]]
        BY <2>2 DEF ConfigInv, ConfigTypes
      <3>2. \A d \in Clients, y \in Names :
              handle'[d][y] \in {handle[d][y], datas[y]}
        BY <2>2 DEF ConfigInv, ConfigTypes
      <3> QED BY <1>3, <3>1, <3>2 DEF ConfigInv, OneVariable
    <2> QED BY <1>2, <2>1, <2>2
  <1>5. cur[c] \in [name : Names \cup {<<>>}, val : Texts]
        /\ Free \in [name : Names \cup {<<>>}, val : Texts]
    BY Apart DEF ConfigInv, ConfigTypes, Free, Texts
  <1> QED BY <1>1, <1>3, <1>4, <1>5, ClientMoves

\* Nobody else has put the name into the registry since it was searched.
LEMMA InsertSafe ==
  ASSUME ConfigInv, NEW c \in Clients, Insert(c) PROVE ConfigInv'
  <1>1. PICK x \in Names : cur[c].name = x /\ datas[x] = 0
    BY DEF Insert, ConfigInv, Stages
  <1>2. /\ at[c] = "create"
        /\ datas' = [datas EXCEPT ![x] = datas[x] + 1]
        /\ handle' = [handle EXCEPT ![c][x] = datas'[x]]
        /\ value' = [value EXCEPT ![x] = Default]
        /\ Goto(c, "free", Free)
        /\ UNCHANGED <<listenerVars, rest, old, told, mixed>>
    BY <1>1 DEF Insert
  <1>3. UNCHANGED <<cbs, funId, read, live, late, rest, old, told, mixed>>
    BY <1>2 DEF listenerVars
  <1>4. /\ datas' \in [Names -> Nat] /\ datas'[x] = 1
        /\ \A y \in Names : y # x => datas'[y] = datas[y]
        /\ value' \in [Names -> Texts]
        /\ \A y \in Names : y # x => value'[y] = value[y]
    BY <1>1, <1>2, Apart DEF ConfigInv, ConfigTypes
  <1>5. /\ handle' \in [Clients -> [Names -> Nat]]
        /\ handle'[c][x] = 1
        /\ \A d \in Clients, y \in Names :
             d # c \/ y # x => handle'[d][y] = handle[d][y]
    BY <1>2, <1>4 DEF ConfigInv, ConfigTypes
  <1>6. /\ at' \in [Threads -> Stations]
        /\ cur' \in [Threads -> [name : Names \cup {<<>>}, val : Texts]]
        /\ at'[c] = "free"
        /\ \A u \in Threads : u # c => at'[u] = at[u] /\ cur'[u] = cur[u]
        /\ \A t \in Loaders : t # c /\ at'[t] = at[t] /\ cur'[t] = cur[t]
    <2>1. Free \in [name : Names \cup {<<>>}, val : Texts]
      BY DEF Free, Texts
    <2> QED BY <1>2, <2>1, Apart
            DEF ConfigInv, ConfigTypes, Goto, Stations
  <1>7. ConfigTypes'
    BY <1>3, <1>4, <1>5, <1>6 DEF ConfigInv, ConfigTypes
  <1>8. OneVariable'
    BY <1>1, <1>4, <1>5 DEF ConfigInv, OneVariable
  <1>9. /\ cbs[x] = {}
        /\ \A t \in Loaders : cur[t].name # x
        /\ \A d \in Clients : at[d] = "create" => d = c
    <2>1. cbs[x] = {}
      BY <1>1 DEF ConfigInv, Stages
    <2>2. ASSUME NEW t \in Loaders PROVE cur[t].name # x
      <3>1. at[t] \in {"free", "next", "call", "store"}
        BY Apart DEF ConfigInv, ConfigTypes, Stages, Stations
      <3> QED BY <1>1, <3>1, Apart DEF ConfigInv, Stages
    <2>3. \A d \in Clients : at[d] = "create" => d = c
      BY <1>2 DEF ConfigInv, Locks
    <2> QED BY <2>1, <2>2, <2>3
  <1>10. Stages'
    <2>1. ASSUME NEW d \in Clients, at'[d] # "free"
          PROVE  /\ d # c /\ at'[d] = at[d] /\ cur'[d] = cur[d]
                 /\ at[d] # "create" /\ at[d] # "free"
      BY <1>6, <1>9, <2>1, Apart
    <2>2. \A d \in Clients :
            /\ at'[d] \in {"free", "insert", "create", "exists", "leave"}
            /\ at'[d] # "free" => cur'[d].name \in Names
            /\ at'[d] = "insert" => datas'[cur'[d].name] # 0
            /\ at'[d] = "create" => datas'[cur'[d].name] = 0
      BY <1>4, <2>1 DEF ConfigInv, Stages
    <2> QED BY <1>3, <1>4, <1>6, <1>9, <2>2 DEF ConfigInv, Stages
  <1>11. Locks'
    <2>1. \A d \in Clients : at'[d] \in {"create", "exists"} =>
            at[d] \in {"create", "exists"}
      BY <1>6, Apart
    <2>2. \A d \in Clients : at'[d] = "insert" =>
            at[d] = "insert" /\ cur'[d] = cur[d]
      BY <1>6, Apart
    <2> QED BY <1>6, <2>1, <2>2 DEF ConfigInv, Locks
  <1>12. CallsAreStable' /\ OwnIds' /\ OwnFunctions'
    BY <1>3, <1>4, <1>6, <1>9
       DEF ConfigInv, CallsAreStable, OwnIds, OwnFunctions, Stages
  <1>13. Following'
    <2>1. \A y \in Names : BeingSet(y)' <=> BeingSet(y)
      BY <1>6 DEF BeingSet
    <2>2. \A t \in Loaders : \A y \in Names : \A l \in cbs[y] :
            Waits(t, l) => Waits(t, l)'
      BY <1>3, <1>6 DEF Waits
    <2>3. \A y \in Names : cbs'[y] = cbs[y] /\ (y # x => value'[y] = value[y])
      BY <1>3, <1>4
    <2> QED BY <1>3, <1>6, <1>9, <2>1, <2>2, <2>3
            DEF ConfigInv, Following, Knows
  <1> QED BY <1>7, <1>8, <1>10, <1>11, <1>12, <1>13 DEF ConfigInv

LEMMA FindSafe ==
  ASSUME ConfigInv, NEW c \in Clients, NEW x \in Names, Find(c, x)
  PROVE  ConfigInv'
  <1>1. /\ handle' = [handle EXCEPT ![c][x] = datas[x]]
        /\ UNCHANGED <<datas, listenerVars, setVars, placeVars>>
    BY DEF Find
  <1>2. UNCHANGED <<datas, value, cbs, funId, read, live, late, rest, old,
                    told, mixed, at, cur>>
    BY <1>1 DEF listenerVars, setVars, placeVars
  <1>3. /\ handle' \in [Clients -> [Names -> Nat]]
        /\ handle'[c][x] = datas[x]
        /\ \A d \in Clients, y \in Names :
             d # c \/ y # x => handle'[d][y] = handle[d][y]
    BY <1>1 DEF ConfigInv, ConfigTypes
  <1>4. ConfigTypes' /\ OneVariable'
    BY <1>2, <1>3 DEF ConfigInv, ConfigTypes, OneVariable
  <1>5. Stages' /\ Locks'
    BY <1>2 DEF ConfigInv, Stages, Locks
  <1>6. CallsAreStable' /\ OwnIds' /\ OwnFunctions'
    BY <1>2 DEF ConfigInv, CallsAreStable, OwnIds, OwnFunctions
  <1>7. Following'
    BY <1>2 DEF ConfigInv, Following, Knows, Waits, BeingSet
  <1> QED BY <1>4, <1>5, <1>6, <1>7 DEF ConfigInv

-----------------------------------------------------------------------------
(* setValue.                                                               *)

\* Loader t goes on with the call it has under way, or begins one.
LEMMA LoaderGoes ==
  ASSUME ConfigInv, NEW t \in Loaders, NEW p \in {"next", "call", "store"},
         NEW w \in [name : Names \cup {<<>>}, val : Texts], Goto(t, p, w)
  PROVE  /\ at' \in [Threads -> Stations]
         /\ cur' \in [Threads -> [name : Names \cup {<<>>}, val : Texts]]
         /\ at'[t] = p /\ cur'[t] = w
         /\ \A u \in Threads : u # t => at'[u] = at[u] /\ cur'[u] = cur[u]
  BY Apart DEF ConfigInv, ConfigTypes, Goto, Stations

LEMMA SetBeginSafe ==
  ASSUME ConfigInv, NEW t \in Loaders, SetBegin(t) PROVE ConfigInv'
  <1>1. PICK x \in Names, v \in Values :
          /\ NextEntry(t).path = x /\ NextEntry(t).val = v
          /\ datas[x] # 0 /\ Writers(x) = {}
    BY DEF SetBegin, Settable
  <1>2. /\ at[t] = "next"
        /\ rest' = [rest EXCEPT ![t] = {l.id : l \in cbs[x]}]
        /\ old' = [old EXCEPT ![t] = value[x]]
        /\ mixed' = IF BeingSet(x) THEN mixed \cup {x} ELSE mixed
        /\ Goto(t, "call", [name |-> x, val |-> v])
        /\ UNCHANGED <<registryVars, listenerVars, value, told>>
    BY <1>1 DEF SetBegin
  <1>3. UNCHANGED <<datas, handle, cbs, funId, read, live, late, value, told>>
    BY <1>2 DEF registryVars, listenerVars
  <1>4. [name |-> x, val |-> v] \in [name : Names \cup {<<>>}, val : Texts]
    BY DEF Texts
  <1>5. /\ at' \in [Threads -> Stations]
        /\ cur' \in [Threads -> [name : Names \cup {<<>>}, val : Texts]]
        /\ at'[t] = "call" /\ cur'[t].name = x /\ cur'[t].val = v
        /\ \A u \in Threads : u # t => at'[u] = at[u] /\ cur'[u] = cur[u]
    BY <1>2, <1>4, LoaderGoes
  <1>6. /\ rest' \in [Loaders -> SUBSET Nat] /\ old' \in [Loaders -> Texts]
        /\ rest'[t] = {l.id : l \in cbs[x]} /\ old'[t] = value[x]
        /\ \A u \in Loaders : u # t => rest'[u] = rest[u] /\ old'[u] = old[u]
        /\ mixed' \subseteq Names /\ mixed \subseteq mixed'
    <2>1. {l.id : l \in cbs[x]} \in SUBSET Nat
      BY DEF ConfigInv, ConfigTypes, Listener
    <2> QED BY <1>2, <2>1 DEF ConfigInv, ConfigTypes
  <1>7. ConfigTypes' /\ OneVariable'
    BY <1>3, <1>5, <1>6 DEF ConfigInv, ConfigTypes, OneVariable
  <1>8. Stages'
    BY <1>1, <1>3, <1>5, Apart DEF ConfigInv, Stages
  <1>9. Locks'
    BY <1>1, <1>5, Apart DEF ConfigInv, Locks, Writers
  <1>10. CallsAreStable'
    BY <1>3, <1>5, <1>6, Apart DEF ConfigInv, CallsAreStable
  <1>11. OwnIds' /\ OwnFunctions'
    BY <1>3 DEF ConfigInv, OwnIds, OwnFunctions
  <1>12. Following'
    <2> SUFFICES ASSUME NEW y \in Names \ mixed'
                 PROVE  /\ \A s, u \in Loaders :
                             cur'[s].name = y /\ cur'[u].name = y => s = u
                        /\ ~BeingSet(y)' =>
                             \A l \in cbs'[y] : Knows(l, value[y])'
                        /\ \A s \in Loaders : cur'[s].name = y =>
                             \A l \in cbs'[y] :
                               Knows(l, cur[s].val)' \/ Waits(s, l)'
      BY DEF Following
    <2>1. y \in Names \ mixed /\ (y = x => ~BeingSet(x))
      BY <1>2, <1>6
    <2>2. cur[t].name = <<>> /\ cur[t].name # y
      BY <1>2, Apart DEF ConfigInv, Stages
    <2>3. CASE y = x
      <3>1. \A u \in Loaders : u # t => cur'[u].name # y
        BY <1>5, <2>1, <2>3, Apart DEF BeingSet
      <3>2. BeingSet(y)'
        BY <1>5, <2>3 DEF BeingSet
      <3>3. \A l \in cbs'[y] : Waits(t, l)'
        BY <1>3, <1>5, <1>6, <2>3 DEF Waits
      <3> QED BY <3>1, <3>2, <3>3
    <2>4. CASE y # x
      <3>1. \A u \in Loaders :
              /\ cur'[u].name = y <=> cur[u].name = y
              /\ cur[u].name = y => u # t
        BY <1>5, <2>2, <2>4, Apart
      <3>2. BeingSet(y)' <=> BeingSet(y)
        BY <3>1 DEF BeingSet
      <3> QED BY <1>3, <1>5, <1>6, <2>1, <3>1, <3>2, Apart
              DEF ConfigInv, Following, Knows, Waits
    <2> QED BY <2>3, <2>4
  <1> QED BY <1>7, <1>8, <1>9, <1>10, <1>11, <1>12 DEF ConfigInv

LEMMA CallListenerSafe ==
  ASSUME ConfigInv, NEW t \in Loaders, CallListener(t) PROVE ConfigInv'
  <1>a. PICK x \in Names : cur[t].name = x /\ at[t] = "call"
    BY DEF CallListener, ConfigInv, Stages
  <1>b. PICK l \in cbs[x] :
          /\ l.id \in rest[t]
          /\ told' = [told EXCEPT ![l.cb] = cur[t].val]
          /\ rest' = [rest EXCEPT ![t] = rest[t] \ {l.id}]
    BY <1>a DEF CallListener
  <1>1. /\ cur[t].name = x /\ at[t] = "call" /\ l.id \in rest[t]
        /\ told' = [told EXCEPT ![l.cb] = cur[t].val]
        /\ rest' = [rest EXCEPT ![t] = rest[t] \ {l.id}]
    BY <1>a, <1>b
  <1>2. UNCHANGED <<datas, handle, value, cbs, funId, read, live, late, old,
                    mixed, at, cur>>
    BY DEF CallListener, registryVars, listenerVars, placeVars
  <1>3. /\ told \in Seq(Texts) /\ l.cb \in 1..Len(told)
        /\ cur[t].val \in Texts
    BY Apart DEF ConfigInv, ConfigTypes, OwnFunctions
  <1>4. /\ told' \in Seq(Texts) /\ Len(told') = Len(told)
        /\ told'[l.cb] = cur[t].val
        /\ \A i \in 1..Len(told) : i # l.cb => told'[i] = told[i]
    BY <1>1, <1>3
  <1>5. /\ rest' \in [Loaders -> SUBSET Nat] /\ rest'[t] = rest[t] \ {l.id}
        /\ \A u \in Loaders : u # t => rest'[u] = rest[u]
    BY <1>1 DEF ConfigInv, ConfigTypes
  <1>6. ConfigTypes' /\ OneVariable'
    BY <1>2, <1>4, <1>5 DEF ConfigInv, ConfigTypes, OneVariable
  <1>7. Stages' /\ Locks'
    BY <1>2 DEF ConfigInv, Stages, Locks
  <1>8. CallsAreStable'
    BY <1>2, <1>5 DEF ConfigInv, CallsAreStable
  <1>9. OwnIds' /\ OwnFunctions'
    BY <1>2, <1>4 DEF ConfigInv, OwnIds, OwnFunctions
  <1>10. Following'
    <2>1. \A y \in Names : \A k \in cbs[y] :
            /\ k.cb \in 1..Len(told)
            /\ k.cb = l.cb => y = x /\ k = l
            /\ y = x /\ k.id = l.id => k = l
      BY DEF ConfigInv, OwnIds, OwnFunctions
    <2>2. \A y \in Names : BeingSet(y)' <=> BeingSet(y)
      BY <1>2 DEF BeingSet
    <2>3. ASSUME NEW y \in Names \ mixed, ~BeingSet(y), NEW k \in cbs[y]
          PROVE  Knows(k, value[y])'
      <3>1. y # x
        BY <1>1, <2>3 DEF BeingSet
      <3> QED BY <1>2, <1>4, <2>1, <2>3, <3>1
              DEF ConfigInv, Following, Knows
    <2>4. ASSUME NEW y \in Names \ mixed, NEW u \in Loaders,
                 cur[u].name = y, NEW k \in cbs[y]
          PROVE  Knows(k, cur[u].val)' \/ Waits(u, k)'
      <3>1. Knows(k, cur[u].val) \/ Waits(u, k)
        BY <2>4 DEF ConfigInv, Following
      <3>2. CASE y = x
        <4>1. u = t
          BY <1>1, <2>4, <3>2 DEF ConfigInv, Following
        <4>2. CASE k = l
          BY <1>2, <1>4, <4>1, <4>2 DEF Knows
        <4>3. CASE k # l
          <5>1. k.cb # l.cb /\ k.id # l.id
            BY <2>1, <3>2, <4>3
          <5> QED BY <1>2, <1>4, <1>5, <2>1, <3>1, <4>1, <5>1
                  DEF Knows, Waits
        <4> QED BY <4>2, <4>3
      <3>3. CASE y # x
        BY <1>1, <1>2, <1>4, <1>5, <2>1, <2>4, <3>1, <3>3 DEF Knows, Waits
      <3> QED BY <3>2, <3>3
    <2> QED BY <1>2, <2>2, <2>3, <2>4 DEF ConfigInv, Following
  <1> QED BY <1>6, <1>7, <1>8, <1>9, <1>10 DEF ConfigInv

LEMMA CallsEndSafe ==
  ASSUME ConfigInv, NEW t \in Loaders, CallsEnd(t) PROVE ConfigInv'
  <1>1. /\ at[t] = "call" /\ rest[t] = {} /\ Goto(t, "store", cur[t])
        /\ UNCHANGED <<datas, handle, value, cbs, funId, read, live, late,
                       rest, old, told, mixed>>
    BY DEF CallsEnd, registryVars, listenerVars, setVars
  <1>2. /\ at' \in [Threads -> Stations]
        /\ cur' \in [Threads -> [name : Names \cup {<<>>}, val : Texts]]
        /\ at'[t] = "store" /\ cur'[t] = cur[t]
        /\ \A u \in Threads : u # t => at'[u] = at[u] /\ cur'[u] = cur[u]
    BY <1>1, LoaderGoes, Apart DEF ConfigInv, ConfigTypes
  <1>3. \A u \in Threads : cur'[u] = cur[u]
    BY <1>2
  <1>4. ConfigTypes' /\ OneVariable'
    BY <1>1, <1>2 DEF ConfigInv, ConfigTypes, OneVariable
  <1>5. Stages' /\ Locks'
    BY <1>1, <1>2, <1>3, Apart DEF ConfigInv, Stages, Locks
  <1>6. CallsAreStable' /\ OwnIds' /\ OwnFunctions'
    BY <1>1, <1>2, Apart DEF ConfigInv, CallsAreStable, OwnIds, OwnFunctions
  <1>7. Following'
    <2>1. \A y \in Names : BeingSet(y)' <=> BeingSet(y)
      BY <1>3, Apart DEF BeingSet
    <2>2. \A u \in Loaders : \A y \in Names : \A l \in cbs[y] :
            Waits(u, l) => Waits(u, l)'
      BY <1>1, <1>2, Apart DEF Waits
    <2> QED BY <1>1, <1>3, <2>1, <2>2, Apart DEF ConfigInv, Following, Knows
  <1> QED BY <1>4, <1>5, <1>6, <1>7 DEF ConfigInv

LEMMA StoreSafe ==
  ASSUME ConfigInv, NEW t \in Loaders, Store(t) PROVE ConfigInv'
  <1>1. PICK x \in Names, v \in Texts :
          /\ cur[t].name = x /\ cur[t].val = v /\ at[t] = "store"
          /\ Unlocked(x)
          /\ value' = [value EXCEPT ![x] = v]
          /\ Goto(t, "next", Free)
    <2>1. cur[t].name \in Names /\ cur[t].val \in Texts
      BY Apart DEF Store, ConfigInv, ConfigTypes, Stages
    <2> QED BY <2>1 DEF Store
  <1>2. UNCHANGED <<datas, handle, cbs, funId, read, live, late, rest, old,
                    told, mixed>>
    BY DEF Store, registryVars, listenerVars
  <1>3. /\ Free \in [name : Names \cup {<<>>}, val : Texts]
        /\ Free.name = <<>>
    BY DEF Free, Texts
  <1>4. /\ at' \in [Threads -> Stations]
        /\ cur' \in [Threads -> [name : Names \cup {<<>>}, val : Texts]]
        /\ at'[t] = "next" /\ cur'[t].name = <<>>
        /\ \A u \in Threads : u # t => at'[u] = at[u] /\ cur'[u] = cur[u]
    BY <1>1, <1>3, LoaderGoes
  <1>5. /\ value' \in [Names -> Texts] /\ value'[x] = v
        /\ \A y \in Names : y # x => value'[y] = value[y]
    BY <1>1 DEF ConfigInv, ConfigTypes
  <1>6. ConfigTypes' /\ OneVariable'
    BY <1>2, <1>4, <1>5 DEF ConfigInv, ConfigTypes, OneVariable
  <1>7. Stages' /\ Locks'
    BY <1>1, <1>2, <1>4, Apart DEF ConfigInv, Stages, Locks
  <1>8. CallsAreStable'
    <2> SUFFICES ASSUME NEW u \in Loaders, at'[u] = "call"
                 PROVE  /\ rest'[u] \subseteq {l.id : l \in cbs'[cur'[u].name]}
                        /\ value'[cur'[u].name] = old'[u]
      BY DEF CallsAreStable
    <2>1. u # t /\ at[u] = "call" /\ cur'[u] = cur[u]
      BY <1>4, Apart
    <2>2. cur[u].name \in Names /\ cur[u].name # x
      BY <1>1, <2>1 DEF ConfigInv, Stages, Unlocked, Readers
    <2> QED BY <1>2, <1>5, <2>1, <2>2 DEF ConfigInv, CallsAreStable
  <1>9. OwnIds' /\ OwnFunctions'
    BY <1>2 DEF ConfigInv, OwnIds, OwnFunctions
  <1>10. Following'
    <2> SUFFICES ASSUME NEW y \in Names \ mixed
                 PROVE  /\ \A s, u \in Loaders :
                             cur'[s].name = y /\ cur'[u].name = y => s = u
                        /\ ~BeingSet(y)' =>
                             \A l \in cbs'[y] : Knows(l, value[y])'
                        /\ \A s \in Loaders : cur'[s].name = y =>
                             \A l \in cbs'[y] :
                               Knows(l, cur[s].val)' \/ Waits(s, l)'
      BY <1>2 DEF Following
    <2>1. \A u \in Loaders : cur'[u].name = y =>
            u # t /\ cur'[u] = cur[u] /\ at'[u] = at[u]
      BY <1>4, Apart
    <2>2. CASE y = x
      <3>1. \A u \in Loaders : cur'[u].name # y
        BY <1>1, <2>1, <2>2 DEF ConfigInv, Following
      <3>2. \A l \in cbs[y] : Knows(l, v)
        BY <1>1, <2>2 DEF ConfigInv, Following, Waits
      <3> QED BY <1>2, <1>5, <2>2, <3>1, <3>2 DEF Knows
    <2>3. CASE y # x
      <3>1. ~BeingSet(y)' => ~BeingSet(y)
        BY <1>1, <1>4, <2>3, Apart DEF BeingSet
      <3>2. \A u \in Loaders : \A l \in cbs[y] :
              cur'[u].name = y /\ Waits(u, l) => Waits(u, l)'
        BY <1>2, <2>1 DEF Waits
      <3> QED BY <1>2, <1>5, <2>1, <2>3, <3>1, <3>2
              DEF ConfigInv, Following, Knows
    <2> QED BY <2>2, <2>3
  <1> QED BY <1>6, <1>7, <1>8, <1>9, <1>10 DEF ConfigInv

-----------------------------------------------------------------------------
(* Listeners.                                                              *)

\* What holds of a variable that a client is about to change under its lock.
LEMMA Exclusive ==
  ASSUME ConfigInv, NEW c \in Clients, NEW x \in Names, Has(c, x),
         Unlocked(x)
  PROVE  /\ at[c] = "free" /\ datas[x] # 0
         /\ \A t \in Loaders : at[t] = "call" => cur[t].name # x
         /\ \A d \in Clients : at[d] = "insert" => cur[d].name # x
  BY DEF ConfigInv, ConfigTypes, OneVariable, Has, Unlocked, Readers, Writers

LEMMA AddReadSafe ==
  ASSUME ConfigInv, NEW c \in Clients, NEW x \in Names, AddRead(c, x)
  PROVE  ConfigInv'
  <1>1. /\ Has(c, x) /\ Unlocked(x)
        /\ read' = [read EXCEPT ![c] = funId[TypeOf[x]]]
        /\ at' = [at EXCEPT ![c] = "insert"]
        /\ cur' = [cur EXCEPT ![c] = [name |-> x, val |-> Junk]]
        /\ UNCHANGED <<datas, handle, value, cbs, funId, live, late, rest,
                       old, told, mixed>>
    BY DEF AddRead, Goto, registryVars, setVars
  <1>2. /\ at[c] = "free" /\ datas[x] # 0
        /\ \A t \in Loaders : at[t] = "call" => cur[t].name # x
        /\ \A d \in Clients : at[d] = "insert" => cur[d].name # x
    BY <1>1, Exclusive
  <1>3. /\ at' \in [Threads -> Stations]
        /\ cur' \in [Threads -> [name : Names \cup {<<>>}, val : Texts]]
        /\ at'[c] = "insert" /\ cur'[c].name = x
        /\ \A u \in Threads : u # c => at'[u] = at[u] /\ cur'[u] = cur[u]
    BY <1>1, Apart DEF ConfigInv, ConfigTypes, Texts, Stations
  <1>4. read' \in [Clients -> Nat]
    BY <1>1, Apart DEF ConfigInv, ConfigTypes
  <1>5. ConfigTypes' /\ OneVariable'
    BY <1>1, <1>3, <1>4 DEF ConfigInv, ConfigTypes, OneVariable
  <1>6. Stages' /\ Locks'
    BY <1>1, <1>2, <1>3, Apart DEF ConfigInv, Stages, Locks
  <1>7. CallsAreStable' /\ OwnIds' /\ OwnFunctions'
    BY <1>1, <1>3, Apart DEF ConfigInv, CallsAreStable, OwnIds, OwnFunctions
  <1>8. Following'
    BY <1>1, <1>3, Apart DEF ConfigInv, Following, Knows, Waits, BeingSet
  <1> QED BY <1>5, <1>6, <1>7, <1>8 DEF ConfigInv

LEMMA AddInsertSafe ==
  ASSUME ConfigInv, NEW c \in Clients, AddInsert(c) PROVE ConfigInv'
  <1>1. PICK x \in Names, l \in Listener :
          /\ cur[c].name = x /\ at[c] = "insert" /\ datas[x] # 0
          /\ l.id = read[c] + 1 /\ l.cb = Len(told) + 1
          /\ funId' = [funId EXCEPT ![TypeOf[x]] = l.id]
          /\ cbs' = [cbs EXCEPT ![x] = {k \in cbs[x] : k.id # l.id} \cup {l}]
          /\ live' = [live EXCEPT ![x] = live[x] \cup {l}]
          /\ told' = Append(told, value[x])
          /\ late' = IF \E t \in Loaders :
                          at[t] = "store" /\ cur[t].name = x
                       THEN late \cup {l.cb} ELSE late
    <2>1. /\ cur[c].name \in Names /\ datas[cur[c].name] # 0
          /\ read[c] \in Nat /\ Len(told) \in Nat
      BY DEF AddInsert, ConfigInv, ConfigTypes, Stages
    <2>2. [id |-> read[c] + 1, cb |-> Len(told) + 1] \in Listener
      BY <2>1 DEF Listener
    <2> QED BY <2>1, <2>2 DEF AddInsert
  <1>2. /\ read' = [read EXCEPT ![c] = 0] /\ Goto(c, "free", Free)
        /\ UNCHANGED <<datas, handle, value, rest, old, mixed>>
    BY DEF AddInsert, registryVars
  <1>3. /\ \A t \in Loaders : at[t] = "call" => cur[t].name # x
        /\ \A d \in Clients :
             at[d] = "insert" /\ d # c => cur[d].name # x
    BY <1>1 DEF ConfigInv, Locks
  <1>4. /\ Free \in [name : Names \cup {<<>>}, val : Texts]
        /\ Free.name = <<>>
    BY DEF Free, Texts
  <1>5. /\ at' \in [Threads -> Stations]
        /\ cur' \in [Threads -> [name : Names \cup {<<>>}, val : Texts]]
        /\ at'[c] = "free" /\ cur'[c].name = <<>>
        /\ \A u \in Threads : u # c => at'[u] = at[u] /\ cur'[u] = cur[u]
    BY <1>2, <1>4, Apart DEF ConfigInv, ConfigTypes, Goto, Stations
  <1>6. /\ told \in Seq(Texts) /\ Len(told) \in Nat /\ value[x] \in Texts
        /\ told' \in Seq(Texts) /\ Len(told') = Len(told) + 1
        /\ told'[l.cb] = value[x]
        /\ \A i \in 1..Len(told) : told'[i] = told[i]
    BY <1>1 DEF ConfigInv, ConfigTypes
  <1>7. /\ cbs' \in [Names -> SUBSET Listener]
        /\ cbs'[x] = {k \in cbs[x] : k.id # l.id} \cup {l}
        /\ \A y \in Names : y # x => cbs'[y] = cbs[y]
        /\ live' \in [Names -> SUBSET Listener]
    BY <1>1 DEF ConfigInv, ConfigTypes
  <1>8. /\ funId' \in [Types -> Nat] /\ read' \in [Clients -> Nat]
        /\ late' \subseteq Nat /\ late \subseteq late'
    BY <1>1, <1>2, Apart DEF ConfigInv, ConfigTypes, Listener
  <1>9. ConfigTypes' /\ OneVariable'
    BY <1>2, <1>5, <1>6, <1>7, <1>8 DEF ConfigInv, ConfigTypes, OneVariable
  <1>10. Stages'
    <2>1. \A t \in Loaders : at'[t] = at[t] /\ cur'[t] = cur[t]
      BY <1>5, Apart
    <2>2. \A d \in Clients : d # c => at'[d] = at[d] /\ cur'[d] = cur[d]
      BY <1>5, Apart
    <2>3. at'[c] = "free" /\ cur'[c].name = <<>>
      BY <1>5
    <2>4. datas[x] # 0 /\ datas' = datas
      BY <1>1, <1>2 DEF ConfigInv, Stages
    <2>5. \A y \in Names : datas[y] = 0 => cbs'[y] = {}
      BY <1>7, <2>4 DEF ConfigInv, Stages
    <2> QED BY <2>1, <2>2, <2>3, <2>4, <2>5, <1>2 DEF ConfigInv, Stages
  <1>11. Locks'
    BY <1>5, Apart DEF ConfigInv, Locks
  <1>12. CallsAreStable'
    <2> SUFFICES ASSUME NEW t \in Loaders, at'[t] = "call"
                 PROVE  /\ rest'[t] \subseteq {k.id : k \in cbs'[cur'[t].name]}
                        /\ value'[cur'[t].name] = old'[t]
      BY DEF CallsAreStable
    <2>1. at[t] = "call" /\ cur'[t] = cur[t]
      BY <1>5, Apart
    <2>2. cur[t].name \in Names /\ cur[t].name # x
      BY <1>3, <2>1 DEF ConfigInv, Stages
    <2> QED BY <1>2, <1>7, <2>1, <2>2 DEF ConfigInv, CallsAreStable
  <1>13. OwnIds'
    BY <1>7 DEF ConfigInv, OwnIds
  <1>14. \A y \in Names : \A k \in cbs'[y] :
           \/ y = x /\ k = l
           \/ k \in cbs[y] /\ k.cb \in 1..Len(told) /\ k.cb # l.cb
    BY <1>1, <1>6, <1>7 DEF ConfigInv, OwnFunctions
  <1>15. OwnFunctions'
    <2>1. \A y \in Names : \A k \in cbs'[y] : k.cb \in 1..Len(told')
      BY <1>1, <1>6, <1>14
    <2>2. \A y, z \in Names : \A k \in cbs'[y], m \in cbs'[z] :
            k.cb = m.cb => y = z /\ k = m
      BY <1>14 DEF ConfigInv, OwnFunctions
    <2> QED BY <2>1, <2>2 DEF OwnFunctions
  <1>16. Following'
    <2>1. \A y \in Names : BeingSet(y)' <=> BeingSet(y)
      BY <1>5, Apart DEF BeingSet
    <2>2. \A u \in Loaders : cur'[u] = cur[u] /\ at'[u] = at[u]
      BY <1>5, Apart
    <2>3. ASSUME NEW y \in Names \ mixed, ~BeingSet(y), NEW k \in cbs'[y]
          PROVE  Knows(k, value[y])'
      <3>1. CASE y = x /\ k = l
        BY <1>2, <1>6, <3>1 DEF Knows
      <3>2. CASE k \in cbs[y] /\ k.cb \in 1..Len(told)
        BY <1>2, <1>6, <1>8, <2>3, <3>2 DEF ConfigInv, Following, Knows
      <3> QED BY <1>14, <3>1, <3>2
    <2>4. ASSUME NEW y \in Names \ mixed, NEW u \in Loaders,
                 cur[u].name = y, NEW k \in cbs'[y]
          PROVE  Knows(k, cur[u].val)' \/ Waits(u, k)'
      <3>1. CASE y = x /\ k = l
        <4>1. at[u] = "store"
          <5>1. at[u] \in {"free", "next", "call", "store"}
            BY Apart DEF ConfigInv, ConfigTypes, Stages, Stations
          <5> QED BY <1>3, <2>4, <3>1, <5>1, Apart DEF ConfigInv, Stages
        <4>2. l.cb \in late'
          BY <1>1, <2>4, <3>1, <4>1
        <4> QED BY <3>1, <4>2 DEF Knows
      <3>2. CASE k \in cbs[y] /\ k.cb \in 1..Len(told)
        <4>1. Knows(k, cur[u].val) \/ Waits(u, k)
          BY <2>4, <3>2 DEF ConfigInv, Following
        <4> QED BY <1>2, <1>6, <1>8, <2>2, <3>2, <4>1 DEF Knows, Waits
      <3> QED BY <1>14, <3>1, <3>2
    <2> QED BY <1>2, <2>1, <2>2, <2>3, <2>4 DEF ConfigInv, Following
  <1> QED BY <1>9, <1>10, <1>11, <1>12, <1>13, <1>15, <1>16 DEF ConfigInv

LEMMA RemoveSafe ==
  ASSUME ConfigInv, NEW c \in Clients, NEW x \in Names,
         Delete(c, x) \/ Clear(c, x)
  PROVE  ConfigInv'
  <1>1. /\ Has(c, x) /\ Unlocked(x)
        /\ UNCHANGED <<datas, handle, value, funId, read, late, rest, old,
                       told, mixed, at, cur>>
    BY DEF Delete, Clear, registryVars, setVars, placeVars
  <1>2. PICK k, m \in SUBSET Listener :
          /\ k \subseteq cbs[x]
          /\ cbs' = [cbs EXCEPT ![x] = k] /\ live' = [live EXCEPT ![x] = m]
    <2>1. CASE Clear(c, x)
      <3>1. {} \in SUBSET Listener /\ {} \subseteq cbs[x]
        OBVIOUS
      <3>2. cbs' = [cbs EXCEPT ![x] = {}] /\ live' = [live EXCEPT ![x] = {}]
        BY <2>1 DEF Clear
      <3> QED BY <3>1, <3>2
    <2>2. CASE Delete(c, x)
      <3>1. PICK l \in live[x] :
              /\ cbs' = [cbs EXCEPT ![x] = {j \in cbs[x] : j.id # l.id}]
              /\ live' = [live EXCEPT ![x] = live[x] \ {l}]
        BY <2>2 DEF Delete
      <3>2. /\ {j \in cbs[x] : j.id # l.id} \in SUBSET Listener
            /\ live[x] \ {l} \in SUBSET Listener
        BY DEF ConfigInv, ConfigTypes
      <3> QED BY <3>1, <3>2
    <2> QED BY <2>1, <2>2
  <1>3. /\ cbs' \in [Names -> SUBSET Listener]
        /\ live' \in [Names -> SUBSET Listener]
        /\ \A y \in Names : /\ cbs'[y] \subseteq cbs[y]
                            /\ y # x => cbs'[y] = cbs[y]
    BY <1>2 DEF ConfigInv, ConfigTypes
  <1>4. \A t \in Loaders : at[t] = "call" =>
          cur[t].name \in Names /\ cur[t].name # x
    BY <1>1, Exclusive DEF ConfigInv, Stages
  <1>5. ConfigTypes' /\ OneVariable'
    BY <1>1, <1>3 DEF ConfigInv, ConfigTypes, OneVariable
  <1>6. Stages' /\ Locks'
    BY <1>1, <1>3 DEF ConfigInv, Stages, Locks
  <1>7. CallsAreStable'
    BY <1>1, <1>3, <1>4 DEF ConfigInv, CallsAreStable
  <1>8. OwnIds' /\ OwnFunctions'
    BY <1>1, <1>3 DEF ConfigInv, OwnIds, OwnFunctions
  <1>9. Following'
    BY <1>1, <1>3 DEF ConfigInv, Following, Knows, Waits, BeingSet
  <1> QED BY <1>5, <1>6, <1>7, <1>8, <1>9 DEF ConfigInv

-----------------------------------------------------------------------------
LEMMA NextConfig ==
  ASSUME ConfigInv, [Next]_vars PROVE ConfigInv'
  <1>1. ASSUME NEW t \in Loaders, LoadBegin(t) \/ Skip(t) \/ LoadEnd(t)
        PROVE  ConfigInv'
    <2>1. CASE LoadBegin(t)
      BY <2>1, LoaderMoves DEF LoadBegin
    <2>2. CASE LoadEnd(t)
      BY <2>2, LoaderMoves DEF LoadEnd
    <2>3. CASE Skip(t)
      BY <2>3, IdleSafe DEF Skip
    <2> QED BY <1>1, <2>1, <2>2, <2>3
  <1>2. ASSUME NEW t \in Loaders, LoadBegin(t) \/ LoaderStep(t)
        PROVE  ConfigInv'
    BY <1>1, <1>2, SetBeginSafe, CallListenerSafe, CallsEndSafe, StoreSafe
       DEF LoaderStep
  <1>3. ASSUME NEW c \in Clients, ClientStep(c) PROVE ConfigInv'
    BY <1>3, LookupBeginSafe, InsertSafe, ExistingSafe, FindSafe, AddReadSafe,
       AddInsertSafe, RemoveSafe DEF ClientStep
  <1>4. CASE UNCHANGED vars
    BY <1>4, IdleSafe DEF vars
  <1> QED BY <1>2, <1>3, <1>4 DEF Next

\* Config::Lookup makes one variable for a name, however many threads ask for
\* it with a default at once: search and insertion are under one write lock,
\* which keeps its writers apart also when a lookup of a name that exists has
\* unlocked it twice.  A handle somebody holds is the one LoadFromYaml sets.
THEOREM LookupUnique == Spec => []OneVariable
  <1>1. ConfigInv /\ [Next]_vars => ConfigInv'
    BY NextConfig
  <1>2. ConfigInv => OneVariable
    BY DEF ConfigInv
  <1> QED BY <1>1, <1>2, InitConfig, PTL DEF Spec

\* The read lock setValue holds is enough to keep the listeners it walks over
\* and the value it passes as the old one as they are.
THEOREM CallsUndisturbed == Spec => []CallsAreStable
  <1>1. ConfigInv /\ [Next]_vars => ConfigInv'
    BY NextConfig
  <1>2. ConfigInv => CallsAreStable
    BY DEF ConfigInv
  <1> QED BY <1>1, <1>2, InitConfig, PTL DEF Spec

\* A listener that was not added in the gap between the calls and the store
\* knows the value of its variable whenever nobody sets it, if it has never
\* been set by two threads at once.
THEOREM ListenersInformed == Spec => []Informed
  <1>1. ConfigInv /\ [Next]_vars => ConfigInv'
    BY NextConfig
  <1>2. ConfigInv => Informed
    BY DEF ConfigInv, Following, Informed, Knows
  <1> QED BY <1>1, <1>2, InitConfig, PTL DEF Spec

-----------------------------------------------------------------------------
(* Listeners stay, if each type has one variable.                          *)

OneOfType == \A x, y \in Names : TypeOf[x] = TypeOf[y] => x = y

\* The counter is ahead of every id given out, and what addListener has read
\* of it is still so when it adds one.
KeptInv ==
    /\ ListenersKept
    /\ \A x \in Names : \A l \in cbs[x] : l.id <= funId[TypeOf[x]]
    /\ \A c \in Clients :
         at[c] = "insert" => read[c] = funId[TypeOf[cur[c].name]]

LEMMA KeptQuiet ==
  ASSUME KeptInv, UNCHANGED <<cbs, live, funId, read>>,
         \A c \in Clients : at'[c] = "insert" =>
            at[c] = "insert" /\ cur'[c] = cur[c]
  PROVE  KeptInv'
  BY DEF KeptInv, ListenersKept

LEMMA AddReadKept ==
  ASSUME ConfigInv, KeptInv, NEW c \in Clients, NEW x \in Names,
         AddRead(c, x)
  PROVE  KeptInv'
  <1>1. /\ UNCHANGED <<cbs, live, funId>>
        /\ read' = [read EXCEPT ![c] = funId[TypeOf[x]]]
        /\ at' = [at EXCEPT ![c] = "insert"]
        /\ cur' = [cur EXCEPT ![c] = [name |-> x, val |-> Junk]]
    BY DEF AddRead, Goto
  <1>2. ASSUME NEW d \in Clients, at'[d] = "insert"
        PROVE  read'[d] = funId[TypeOf[cur'[d].name]]
    <2>1. CASE d = c
      BY <1>1, <2>1, Apart DEF ConfigInv, ConfigTypes
    <2>2. CASE d # c
      BY <1>1, <1>2, <2>2, Apart DEF ConfigInv, ConfigTypes, KeptInv
    <2> QED BY <2>1, <2>2
  <1> QED BY <1>1, <1>2 DEF KeptInv, ListenersKept

LEMMA AddInsertKept ==
  ASSUME OneOfType, ConfigInv, KeptInv, NEW c \in Clients, AddInsert(c)
  PROVE  KeptInv'
  <1>1. PICK x \in Names, l \in Listener :
          /\ cur[c].name = x /\ at[c] = "insert" /\ l.id = read[c] + 1
          /\ funId' = [funId EXCEPT ![TypeOf[x]] = l.id]
          /\ cbs' = [cbs EXCEPT ![x] = {k \in cbs[x] : k.id # l.id} \cup {l}]
          /\ live' = [live EXCEPT ![x] = live[x] \cup {l}]
          /\ read' = [read EXCEPT ![c] = 0]
          /\ at' = [at EXCEPT ![c] = "free"]
          /\ cur' = [cur EXCEPT ![c] = Free]
    <2>1. cur[c].name \in Names /\ read[c] \in Nat /\ Len(told) \in Nat
      BY DEF AddInsert, ConfigInv, ConfigTypes, Stages
    <2>2. [id |-> read[c] + 1, cb |-> Len(told) + 1] \in Listener
      BY <2>1 DEF Listener
    <2> QED BY <2>1, <2>2 DEF AddInsert, Goto
  <1>2. /\ read[c] \in Nat /\ read[c] = funId[TypeOf[x]]
        /\ TypeOf[x] \in Types
    BY <1>1, Apart DEF ConfigInv, ConfigTypes, KeptInv
  <1>3. \A k \in cbs[x] : k.id \in Nat /\ k.id # l.id /\ k.id <= l.id
    BY <1>1, <1>2 DEF ConfigInv, ConfigTypes, KeptInv, Listener
  <1>4. /\ cbs'[x] = cbs[x] \cup {l} /\ live'[x] = live[x] \cup {l}
        /\ \A y \in Names : y # x => cbs'[y] = cbs[y] /\ live'[y] = live[y]
    BY <1>1, <1>3 DEF ConfigInv, ConfigTypes
  <1>5. /\ funId'[TypeOf[x]] = l.id
        /\ \A y \in Names : y # x => funId'[TypeOf[y]] = funId[TypeOf[y]]
    BY <1>1, <1>2, Apart DEF ConfigInv, ConfigTypes, OneOfType
  <1>6. ListenersKept'
    BY <1>4 DEF KeptInv, ListenersKept
  <1>7. \A y \in Names : \A k \in cbs'[y] : k.id <= funId'[TypeOf[y]]
    BY <1>1, <1>2, <1>3, <1>4, <1>5 DEF KeptInv
  <1>8. ASSUME NEW d \in Clients, at'[d] = "insert"
        PROVE  read'[d] = funId'[TypeOf[cur'[d].name]]
    <2>1. d # c /\ at[d] = "insert" /\ cur'[d] = cur[d] /\ read'[d] = read[d]
      BY <1>1, <1>8, Apart DEF ConfigInv, ConfigTypes
    <2>2. cur[d].name \in Names /\ cur[d].name # x
      BY <1>1, <2>1 DEF ConfigInv, Stages, Locks
    <2> QED BY <1>5, <2>1, <2>2 DEF KeptInv
  <1> QED BY <1>6, <1>7, <1>8 DEF KeptInv

LEMMA RemoveKept ==
  ASSUME ConfigInv, KeptInv, NEW c \in Clients, NEW x \in Names,
         Delete(c, x) \/ Clear(c, x)
  PROVE  KeptInv'
  <1>1. UNCHANGED <<funId, read, at, cur>>
    BY DEF Delete, Clear, placeVars
  <1>2. /\ cbs \in [Names -> SUBSET Listener]
        /\ live = cbs
    BY DEF ConfigInv, ConfigTypes, KeptInv, ListenersKept
  <1>3. live' = cbs' /\ \A y \in Names : cbs'[y] \subseteq cbs[y]
    <2>1. CASE Clear(c, x)
      BY <1>2, <2>1 DEF Clear
    <2>2. CASE Delete(c, x)
      <3>1. PICK l \in live[x] :
              /\ cbs' = [cbs EXCEPT ![x] = {k \in cbs[x] : k.id # l.id}]
              /\ live' = [live EXCEPT ![x] = live[x] \ {l}]
        BY <2>2 DEF Delete
      <3>2. {k \in cbs[x] : k.id # l.id} = live[x] \ {l}
        BY <1>2, <3>1 DEF ConfigInv, OwnIds
      <3> QED BY <1>2, <3>1, <3>2
    <2> QED BY <2>1, <2>2
  <1> QED BY <1>1, <1>3 DEF KeptInv, ListenersKept

LEMMA NextKept ==
  ASSUME OneOfType, ConfigInv, KeptInv, [Next]_vars PROVE KeptInv'
  <1>1. ASSUME NEW t \in Loaders, LoadBegin(t) \/ LoaderStep(t)
        PROVE  KeptInv'
    <2>1. UNCHANGED <<cbs, live, funId, read>>
      BY <1>1 DEF LoadBegin, LoaderStep, Skip, SetBegin, CallListener,
                  CallsEnd, Store, LoadEnd, listenerVars
    <2>2. \A c \in Clients : at'[c] = at[c] /\ cur'[c] = cur[c]
      BY <1>1, Apart
         DEF LoadBegin, LoaderStep, Skip, SetBegin, CallListener, CallsEnd,
             Store, LoadEnd, Goto, placeVars, ConfigInv, ConfigTypes
    <2> QED BY <2>1, <2>2, KeptQuiet
  <1>2. ASSUME NEW c \in Clients, ClientStep(c) PROVE KeptInv'
    <2>1. ASSUME NEW x \in Names,
                 LookupBegin(c, x) \/ Insert(c) \/ Existing(c) \/ Leave(c)
          PROVE  KeptInv'
      <3>1. /\ UNCHANGED <<cbs, live, funId, read>>
            /\ \E p, w : /\ p # "insert"
                        /\ at' = [at EXCEPT ![c] = p]
                        /\ cur' = [cur EXCEPT ![c] = w]
        BY <2>1 DEF LookupBegin, Insert, Existing, Leave, Goto, listenerVars
      <3>2. \A d \in Clients : at'[d] = "insert" =>
              at[d] = "insert" /\ cur'[d] = cur[d]
        BY <3>1, Apart DEF ConfigInv, ConfigTypes
      <3> QED BY <3>1, <3>2, KeptQuiet
    <2>2. ASSUME NEW x \in Names, Find(c, x) PROVE KeptInv'
      BY <2>2, KeptQuiet DEF Find, listenerVars, placeVars
    <2>3. ASSUME Insert(c) \/ Existing(c) \/ Leave(c) PROVE KeptInv'
      <3>1. cur[c].name \in Names
        BY <2>3 DEF Insert, Existing, Leave, ConfigInv, Stages
      <3> QED BY <2>1, <2>3, <3>1
    <2> QED BY <1>2, <2>1, <2>2, <2>3, AddInsertKept, AddReadKept, RemoveKept
            DEF ClientStep
  <1>3. CASE UNCHANGED vars
    BY <1>3, KeptQuiet DEF vars, listenerVars, placeVars
  <1> QED BY <1>1, <1>2, <1>3 DEF Next

\* The static counter of addListener gives each listener of a variable an id
\* of its own, provided the variables are of different types: each type then
\* has one lock as well as one counter.
THEOREM IdsUnique ==
  ASSUME OneOfType
  PROVE  Spec => []ListenersKept
  <1>1. Init => KeptInv
    BY Apart DEF Init, KeptInv, ListenersKept
  <1>2. ConfigInv /\ [Next]_vars => ConfigInv'
    BY NextConfig
  <1>3. ConfigInv /\ KeptInv /\ [Next]_vars => KeptInv'
    BY NextKept
  <1>4. KeptInv => ListenersKept
    BY DEF KeptInv
  <1> QED BY <1>1, <1>2, <1>3, <1>4, InitConfig, PTL DEF Spec

-----------------------------------------------------------------------------
(* The document.                                                           *)

Entry == [path : Seq(Keys), val : Values \cup {Junk}]

\* Nothing in d says what x is.
Quiet(d, x) == \A k \in DOMAIN d : d[k].path = x => d[k].val = Junk

LEMMA SaysAppend ==
  ASSUME NEW S, NEW d \in Seq(S), NEW e \in S, NEW x, NEW v
  PROVE  Says(Append(d, e), x, v) <=>
           \/ e.path = x /\ e.val = v /\ v # Junk
           \/ Says(d, x, v) /\ (e.path = x => e.val = Junk)
  <1> DEFINE q == Append(d, e)
             n == Len(d)
  <1>1. /\ n \in Nat /\ Len(q) = n + 1 /\ DOMAIN q = 1..(n + 1)
        /\ DOMAIN d = 1..n
        /\ q[n + 1] = e /\ \A i \in 1..n : q[i] = d[i]
    OBVIOUS
  <1> HIDE DEF q, n
  <1>2. ASSUME Says(q, x, v)
        PROVE  \/ e.path = x /\ e.val = v /\ v # Junk
               \/ Says(d, x, v) /\ (e.path = x => e.val = Junk)
    <2>1. PICK i \in 1..(n + 1) :
            /\ q[i].path = x /\ q[i].val = v /\ v # Junk
            /\ \A k \in (i + 1)..(n + 1) : q[k].path = x => q[k].val = Junk
      BY <1>1, <1>2 DEF Says
    <2>2. CASE i = n + 1
      BY <1>1, <2>1, <2>2
    <2>3. CASE i \in 1..n
      <3>1. n + 1 \in (i + 1)..(n + 1)
        BY <1>1, <2>3
      <3>2. \A k \in (i + 1)..n : d[k].path = x => d[k].val = Junk
        <4> TAKE k \in (i + 1)..n
        <4>1. k \in (i + 1)..(n + 1) /\ k \in 1..n
          BY <1>1, <2>3
        <4> QED BY <1>1, <2>1, <4>1
      <3>3. Says(d, x, v)
        BY <1>1, <2>1, <2>3, <3>2 DEF Says, n
      <3> QED BY <1>1, <2>1, <3>1, <3>3
    <2> QED BY <1>1, <2>2, <2>3
  <1>3. ASSUME e.path = x /\ e.val = v /\ v # Junk
        PROVE  Says(q, x, v)
    <2>1. n + 1 \in 1..(n + 1) /\ (n + 2)..(n + 1) = {}
      BY <1>1
    <2>2. \A k \in ((n + 1) + 1)..(n + 1) : q[k].path = x => q[k].val = Junk
      BY <1>1
    <2> QED BY <1>1, <1>3, <2>1, <2>2 DEF Says
  <1>4. ASSUME Says(d, x, v), e.path = x => e.val = Junk
        PROVE  Says(q, x, v)
    <2>1. PICK i \in 1..n :
            /\ d[i].path = x /\ d[i].val = v /\ v # Junk
            /\ \A k \in (i + 1)..n : d[k].path = x => d[k].val = Junk
      BY <1>1, <1>4 DEF Says, n
    <2>2. \A k \in (i + 1)..(n + 1) : q[k].path = x => q[k].val = Junk
      <3> TAKE k \in (i + 1)..(n + 1)
      <3>1. CASE k = n + 1
        BY <1>1, <1>4, <3>1
      <3>2. CASE k # n + 1
        <4>1. k \in (i + 1)..n /\ k \in 1..n
          BY <1>1, <3>2
        <4> QED BY <1>1, <2>1, <4>1
      <3> QED BY <3>1, <3>2
    <2>3. i \in 1..(n + 1)
      BY <1>1
    <2> QED BY <1>1, <2>1, <2>2, <2>3 DEF Says
  <1> QED BY <1>2, <1>3, <1>4 DEF q

LEMMA ListedNames ==
  ASSUME NEW e \in Entry, e.path \in Names
  PROVE  e \in Listed
  <1>1. e.path \in Seq(LegalKeys) \ {<<>>}
    BY ConfigAssumption
  <1> QED BY <1>1 DEF Listed, Entry

LEMMA EntriesType ==
  ASSUME NEW d \in Doc
  PROVE  Entries(d) \in Doc
  <1>1. d \in Seq(Entry) /\ Len(d) \in Nat
    BY DEF Doc, Entry
  <1>2. PICK f \in [0..Len(d) -> Seq(Entry \cap Listed)] :
          Entries(d) = f[Len(d)]
    <2>1. Filtered(d, Entry, Listed)
      BY <1>1, OnlyRounds
    <2> QED BY <2>1 DEF Filtered, Entries
  <1>3. Entries(d) \in Seq(Entry \cap Listed)
    BY <1>1, <1>2
  <1>4. Entries(d) \in Seq(Entry)
    BY <1>3, SeqMonotonic
  <1> QED BY <1>4 DEF Doc, Entry

\* ListAllMember leaves out no entry of a variable: what the document says of
\* a variable, the entries say.
LEMMA EntriesSay ==
  ASSUME NEW d \in Doc, NEW x \in Names, NEW v, Says(d, x, v)
  PROVE  Says(Entries(d), x, v)
  <1> DEFINE n == Len(d)
             E == Entry
  <1>1. Doc = Seq(E) /\ n \in Nat
    BY DEF Doc, Entry
  <1>2. PICK f \in [0..n -> Seq(E)] :
           /\ f[0] = <<>> /\ Entries(d) = f[n]
           /\ \A i \in 1..n :
                f[i] = IF d[i] \in Listed THEN Append(f[i - 1], d[i])
                                          ELSE f[i - 1]
    <2>1. Filtered(d, E, Listed)
      BY <1>1, OnlyRounds
    <2>2. Seq(E \cap Listed) \subseteq Seq(E)
      BY SeqMonotonic
    <2> HIDE DEF E
    <2> QED BY <2>1, <2>2 DEF Filtered, Entries
  <1> HIDE DEF E
  <1> DEFINE T == {i \in Nat : i <= n =>
                     (Says(SubSeq(d, 1, i), x, v) => Says(f[i], x, v))}
  <1>3. T = Nat
    <2>1. 0 \in T
      <3>1. SubSeq(d, 1, 0) = <<>>
        BY <1>1
      <3> QED BY <1>2, <3>1
    <2>2. ASSUME NEW i \in T PROVE i + 1 \in T
      <3> DEFINE s == SubSeq(d, 1, i)
                 e == d[i + 1]
      <3>1. SUFFICES ASSUME i + 1 <= n, Says(SubSeq(d, 1, i + 1), x, v)
                     PROVE  Says(f[i + 1], x, v)
        OBVIOUS
      <3>2. /\ i \in Nat /\ i \in 0..n /\ i <= n /\ i + 1 \in 1..n /\ (i + 1) - 1 = i
            /\ f[i] \in Seq(E)
        BY <1>1, <1>2, <3>1
      <3>8. e \in E /\ s \in Seq(E)
        BY <1>1, <3>2
      <3>3. SubSeq(d, 1, i + 1) = Append(s, e)
        BY <1>1, <3>2
      <3>4. /\ Says(s, x, v) => Says(f[i], x, v)
            /\ f[i + 1] = IF e \in Listed THEN Append(f[i], e) ELSE f[i]
        BY <1>2, <3>2
      <3> HIDE DEF s, e, T
      <3>5. \/ e.path = x /\ e.val = v /\ v # Junk
            \/ Says(s, x, v) /\ (e.path = x => e.val = Junk)
        <4>1. Says(Append(s, e), x, v)
          BY <3>1, <3>3
        <4> QED BY <3>8, <4>1, SaysAppend
      <3>6. CASE e \in Listed
        BY <3>2, <3>8, <3>4, <3>5, <3>6, SaysAppend
      <3>7. CASE e \notin Listed
        BY <3>4, <3>5, <3>7, <3>8, ListedNames DEF E
      <3> QED BY <3>6, <3>7
    <2>3. T \in SUBSET Nat
      OBVIOUS
    <2> HIDE DEF T
    <2> QED BY <2>1, <2>2, <2>3, SetInduction
  <1>4. SubSeq(d, 1, n) = d
    BY <1>1
  <1>5. n \in T
    BY <1>1, <1>3
  <1>6. Says(SubSeq(d, 1, n), x, v) => Says(f[n], x, v)
    BY <1>1, <1>5
  <1> QED BY <1>2, <1>4, <1>6

LEMMA SaysHead ==
  ASSUME NEW S, NEW d \in Seq(S), d # <<>>, NEW x, NEW v, Says(d, x, v)
  PROVE  \/ Says(Tail(d), x, v)
         \/ Head(d).path = x /\ Head(d).val = v /\ Quiet(Tail(d), x)
  <1> DEFINE q == Tail(d)
             n == Len(d)
  <1>1. /\ n \in Nat \ {0} /\ DOMAIN q = 1..(n - 1) /\ Len(q) = n - 1 /\ DOMAIN d = 1..n
        /\ Head(d) = d[1] /\ \A i \in 1..(n - 1) : q[i] = d[i + 1]
    OBVIOUS
  <1>2. PICK i \in 1..n :
          /\ d[i].path = x /\ d[i].val = v /\ v # Junk
          /\ \A k \in (i + 1)..n : d[k].path = x => d[k].val = Junk
    BY <1>1 DEF Says
  <1>3. CASE i = 1
    <2>1. ASSUME NEW k \in 1..(n - 1), q[k].path = x PROVE q[k].val = Junk
      <3>1. k + 1 \in (i + 1)..n
        BY <1>1, <1>3
      <3> QED BY <1>1, <1>2, <2>1, <3>1
    <2>2. Quiet(q, x)
      BY <1>1, <2>1 DEF Quiet
    <2> QED BY <1>1, <1>2, <1>3, <2>2
  <1>4. CASE i # 1
    <2>1. i - 1 \in 1..(n - 1) /\ (i - 1) + 1 = i
      BY <1>1, <1>4
    <2> HIDE DEF q
    <2>2. ASSUME NEW k \in ((i - 1) + 1)..(n - 1), q[k].path = x
          PROVE  q[k].val = Junk
      <3>1. k + 1 \in (i + 1)..n /\ k \in 1..(n - 1)
        BY <1>1, <1>4
      <3> QED BY <1>1, <1>2, <2>2, <3>1
    <2>3. q[i - 1] = d[i]
      BY <1>1, <2>1
    <2>4. Says(q, x, v)
      BY <1>1, <1>2, <2>1, <2>2, <2>3 DEF Says
    <2> QED BY <2>4 DEF q
  <1> QED BY <1>3, <1>4

LEMMA QuietHead ==
  ASSUME NEW S, NEW d \in Seq(S), d # <<>>, NEW x, Quiet(d, x)
  PROVE  Quiet(Tail(d), x) /\ (Head(d).path = x => Head(d).val = Junk)
  <1>1. /\ Len(d) \in Nat \ {0} /\ DOMAIN Tail(d) = 1..(Len(d) - 1)
        /\ DOMAIN d = 1..Len(d)
        /\ Head(d) = d[1] /\ \A i \in 1..(Len(d) - 1) : Tail(d)[i] = d[i + 1]
    OBVIOUS
  <1>2. \A i \in 1..(Len(d) - 1) : i + 1 \in 1..Len(d)
    BY <1>1
  <1>3. 1 \in 1..Len(d)
    BY <1>1
  <1> QED BY <1>1, <1>2, <1>3 DEF Quiet

-----------------------------------------------------------------------------
LoadTypes ==
    /\ todo \in [Loaders -> Doc] /\ doc \in [Loaders -> Doc]
    /\ sole \in [Loaders -> SUBSET Names]

\* The value x has, or is about to have if t sets it.
Meant(t, x) == IF cur[t].name = x THEN cur[t].val ELSE value[x]

Alone ==
    \A t \in Loaders : \A x \in sole[t] :
        /\ datas[x] # 0
        /\ \A u \in Loaders : u # t => cur[u].name # x

\* What is left to do of d gives x the value v, or nothing of it is about x,
\* which has the value m.
Leads(d, x, v, m) == Says(d, x, v) \/ (Quiet(d, x) /\ m = v)

Progress(t) ==
    \A x \in sole[t], v \in Values :
        Says(doc[t], x, v) => Leads(todo[t], x, v, Meant(t, x))

LoadInv ==
    /\ LoadTypes /\ Alone
    /\ \A t \in Loaders : at[t] # "free" => Progress(t)

LEMMA InitLoad == Init => LoadInv
  <1> SUFFICES ASSUME Init PROVE LoadInv
    OBVIOUS
  <1>1. <<>> \in Doc
    BY DEF Doc
  <1>2. LoadTypes /\ Alone
    BY <1>1 DEF Init, LoadTypes, Alone
  <1>3. \A t \in Loaders : at[t] = "free"
    BY Apart DEF Init
  <1> QED BY <1>2, <1>3 DEF LoadInv

\* Steps that leave the loads and what they mean alone.
LEMMA LoadQuiet ==
  ASSUME LoadInv, UNCHANGED <<todo, doc, sole>>,
         \A x \in Names : datas[x] # 0 => datas'[x] # 0,
         \A t \in Loaders : cur'[t].name = cur[t].name,
         \A t \in Loaders : at'[t] # "free" => at[t] # "free",
         \A t \in Loaders, x \in Names : datas[x] # 0 =>
            Meant(t, x)' = Meant(t, x)
  PROVE  LoadInv'
  <1>1. LoadTypes' /\ Alone'
    BY DEF LoadInv, LoadTypes, Alone
  <1>2. ASSUME NEW t \in Loaders, at'[t] # "free" PROVE Progress(t)'
    <2>1. Progress(t) /\ \A x \in sole[t] : x \in Names /\ datas[x] # 0
      BY <1>2 DEF LoadInv, LoadTypes, Alone
    <2>2. \A x \in sole[t] : Meant(t, x)' = Meant(t, x)
      BY <2>1
    <2> QED BY <2>1, <2>2 DEF Progress
  <1> QED BY <1>1, <1>2 DEF LoadInv

LEMMA LoadBeginLoads ==
  ASSUME ConfigInv, LoadInv, NEW t \in Loaders, LoadBegin(t)
  PROVE  LoadInv'
  <1>1. PICK d \in Docs :
          /\ doc' = [doc EXCEPT ![t] = d]
          /\ todo' = [todo EXCEPT ![t] = Entries(d)]
    BY DEF LoadBegin
  <1>2. /\ sole' = [sole EXCEPT ![t] = {x \in Names :
                                          datas[x] # 0 /\ ~BeingSet(x)}]
        /\ at' = [at EXCEPT ![t] = "next"] /\ cur' = [cur EXCEPT ![t] = Free]
        /\ UNCHANGED <<datas, value>> /\ at[t] = "free"
    BY DEF LoadBegin, Goto, registryVars, setVars
  <1>3. d \in Doc /\ Entries(d) \in Doc
    <2>1. d \in Doc
      BY ConfigAssumption
    <2> QED BY <2>1, EntriesType
  <1>4. /\ cur'[t].name = <<>> /\ cur[t].name = <<>>
        /\ \A u \in Loaders : u # t => cur'[u] = cur[u] /\ at'[u] = at[u]
    BY <1>2, Apart DEF ConfigInv, ConfigTypes, Stages, Free
  <1>5. LoadTypes'
    BY <1>1, <1>2, <1>3 DEF LoadInv, LoadTypes
  <1>6. sole'[t] = {x \in Names : datas[x] # 0 /\ ~BeingSet(x)}
    BY <1>2 DEF LoadInv, LoadTypes
  <1>7. Alone'
    <2> SUFFICES ASSUME NEW u \in Loaders, NEW x \in sole'[u]
                 PROVE  /\ datas[x] # 0
                        /\ \A w \in Loaders : w # u => cur'[w].name # x
      BY <1>2 DEF Alone
    <2>1. x \in Names /\ x # <<>>
      BY <1>5, Apart DEF LoadTypes
    <2>2. CASE u = t
      BY <1>4, <1>6, <2>2 DEF BeingSet
    <2>3. CASE u # t
      <3>1. x \in sole[u]
        BY <1>2, <2>3 DEF LoadInv, LoadTypes
      <3> QED BY <1>4, <2>1, <3>1 DEF LoadInv, Alone
    <2> QED BY <2>2, <2>3
  <1>8. ASSUME NEW u \in Loaders, at'[u] # "free" PROVE Progress(u)'
    <2>1. CASE u = t
      <3>1. doc'[t] = d /\ todo'[t] = Entries(d)
        BY <1>1 DEF LoadInv, LoadTypes
      <3> SUFFICES ASSUME NEW x \in sole'[t], NEW v \in Values, Says(d, x, v)
                   PROVE  Says(Entries(d), x, v)
        BY <2>1, <3>1 DEF Progress, Leads
      <3>2. x \in Names
        BY <1>6
      <3> QED BY <1>3, <3>2, EntriesSay
    <2>2. CASE u # t
      <3>1. /\ doc'[u] = doc[u] /\ todo'[u] = todo[u] /\ sole'[u] = sole[u]
            /\ cur'[u] = cur[u] /\ at[u] # "free" /\ value' = value
        BY <1>1, <1>2, <1>4, <1>8, <2>2 DEF LoadInv, LoadTypes
      <3> QED BY <3>1 DEF LoadInv, Progress, Meant
    <2> QED BY <2>1, <2>2
  <1> QED BY <1>5, <1>7, <1>8 DEF LoadInv

\* What is left to load when the head has been dealt with.
LEMMA TailLoads ==
  ASSUME LoadInv, NEW t \in Loaders, todo[t] # <<>>
  PROVE  /\ todo[t] \in Doc /\ Tail(todo[t]) \in Doc
         /\ \E S : todo[t] \in Seq(S)
         /\ NextEntry(t) = Head(todo[t])
         /\ NextEntry(t).val \in Values \cup {Junk}
  <1> DEFINE E == [path : Seq(Keys), val : Values \cup {Junk}]
  <1>1. Doc = Seq(E) /\ todo[t] \in Doc
    BY DEF Doc, LoadInv, LoadTypes
  <1>2. Head(todo[t]) \in E
    <2> HIDE DEF E
    <2> QED BY <1>1
  <1>3. Tail(todo[t]) \in Doc
    <2> HIDE DEF E
    <2> QED BY <1>1
  <1> QED BY <1>1, <1>2, <1>3 DEF NextEntry

LEMMA SkipLoads ==
  ASSUME ConfigInv, LoadInv, NEW t \in Loaders, Skip(t)
  PROVE  LoadInv'
  <1>1. /\ at[t] = "next" /\ todo[t] # <<>>
        /\ todo' = [todo EXCEPT ![t] = Tail(todo[t])]
        /\ UNCHANGED <<doc, sole, datas, value, at, cur>>
        /\ Settable(NextEntry(t)) => NextEntry(t).val = value[NextEntry(t).path]
    BY DEF Skip, registryVars, setVars, placeVars
  <1>2. LoadTypes' /\ Alone'
    BY <1>1, TailLoads DEF LoadInv, LoadTypes, Alone
  <1>3. ASSUME NEW u \in Loaders, at'[u] # "free" PROVE Progress(u)'
    <2>1. Progress(u)
      BY <1>1, <1>3 DEF LoadInv
    <2>2. CASE u # t
      <3>1. todo'[u] = todo[u]
        BY <1>1, <2>2 DEF LoadInv, LoadTypes
      <3> QED BY <1>1, <2>1, <3>1 DEF Progress, Meant
    <2>3. CASE u = t
      <3>1. todo'[t] = Tail(todo[t]) /\ cur[t].name = <<>>
        BY <1>1 DEF LoadInv, LoadTypes, ConfigInv, Stages
      <3>2. \A x \in sole[t] : x \in Names /\ x # <<>> /\ datas[x] # 0
        BY Apart DEF LoadInv, LoadTypes, Alone
      <3> SUFFICES ASSUME NEW x \in sole[t], NEW v \in Values,
                          Says(doc[t], x, v)
                   PROVE  Leads(Tail(todo[t]), x, v, value[x])
        <4>1. \A x \in sole[t] : Meant(t, x)' = value[x]
          BY <1>1, <3>1, <3>2 DEF Meant
        <4> QED BY <1>1, <2>3, <3>1, <4>1 DEF Progress
      <3>3. CASE Says(todo[t], x, v)
        <4>1. \/ Says(Tail(todo[t]), x, v)
              \/ /\ NextEntry(t).path = x /\ NextEntry(t).val = v
                 /\ Quiet(Tail(todo[t]), x)
          BY <1>1, <3>3, TailLoads, SaysHead
        <4>2. NextEntry(t).path = x /\ NextEntry(t).val = v => value[x] = v
          BY <1>1, <3>2 DEF Settable
        <4> QED BY <4>1, <4>2 DEF Leads
      <3>4. CASE Quiet(todo[t], x) /\ Meant(t, x) = v
        <4>1. Quiet(Tail(todo[t]), x)
          BY <1>1, <3>4, TailLoads, QuietHead
        <4> QED BY <3>1, <3>2, <3>4, <4>1 DEF Meant, Leads
      <3> QED BY <2>1, <2>3, <3>3, <3>4 DEF Progress, Leads
    <2> QED BY <2>2, <2>3
  <1> QED BY <1>2, <1>3 DEF LoadInv

LEMMA SetBeginLoads ==
  ASSUME ConfigInv, LoadInv, NEW t \in Loaders, SetBegin(t)
  PROVE  LoadInv'
  <1>1. PICK e : e = NextEntry(t)
    OBVIOUS
  <1>2. /\ at[t] = "next" /\ todo[t] # <<>> /\ Settable(e)
        /\ todo' = [todo EXCEPT ![t] = Tail(todo[t])]
        /\ sole' = [u \in Loaders |->
                      IF u = t THEN sole[u] ELSE sole[u] \ {e.path}]
        /\ at' = [at EXCEPT ![t] = "call"]
        /\ cur' = [cur EXCEPT ![t] = [name |-> e.path, val |-> e.val]]
        /\ UNCHANGED <<doc, datas, value>>
    BY <1>1 DEF SetBegin, Goto, registryVars
  <1>3. LoadTypes'
    BY <1>2, TailLoads DEF LoadInv, LoadTypes
  <1>4. /\ cur'[t] = [name |-> e.path, val |-> e.val] /\ cur[t].name = <<>>
        /\ \A u \in Loaders : u # t =>
             /\ cur'[u] = cur[u] /\ at'[u] = at[u] /\ todo'[u] = todo[u]
             /\ sole'[u] = sole[u] \ {e.path}
        /\ sole'[t] = sole[t] /\ todo'[t] = Tail(todo[t])
    BY <1>2, Apart DEF ConfigInv, ConfigTypes, Stages, LoadInv, LoadTypes
  <1>5. Alone'
    BY <1>2, <1>4 DEF LoadInv, Alone
  <1>6. ASSUME NEW u \in Loaders, at'[u] # "free" PROVE Progress(u)'
    <2>1. Progress(u)
      BY <1>2, <1>4, <1>6 DEF LoadInv
    <2>2. CASE u # t
      <3>1. \A x \in sole'[u] : Meant(u, x)' = Meant(u, x) /\ x \in sole[u]
        BY <1>2, <1>4, <2>2 DEF Meant
      <3> QED BY <1>2, <1>4, <2>1, <2>2, <3>1 DEF Progress
    <2>3. CASE u = t
      <3>1. \A x \in sole[t] : x \in Names /\ x # <<>> /\ datas[x] # 0
        BY Apart DEF LoadInv, LoadTypes, Alone
      <3>2. \A x \in sole[t] :
              Meant(t, x)' = IF x = e.path THEN e.val ELSE value[x]
        BY <1>2, <1>4 DEF Meant
      <3> SUFFICES ASSUME NEW x \in sole[t], NEW v \in Values,
                          Says(doc[t], x, v)
                   PROVE  Leads(Tail(todo[t]), x, v,
                                IF x = e.path THEN e.val ELSE value[x])
        BY <1>2, <1>4, <2>3, <3>2 DEF Progress
      <3>3. CASE Says(todo[t], x, v)
        <4>1. \/ Says(Tail(todo[t]), x, v)
              \/ e.path = x /\ e.val = v /\ Quiet(Tail(todo[t]), x)
          BY <1>1, <1>2, <3>3, TailLoads, SaysHead
        <4> QED BY <4>1 DEF Leads
      <3>4. CASE Quiet(todo[t], x) /\ Meant(t, x) = v
        <4>1. Quiet(Tail(todo[t]), x) /\ (e.path = x => e.val = Junk)
          BY <1>1, <1>2, <3>4, TailLoads, QuietHead
        <4>2. e.path # x
          BY <1>2, <4>1, ConfigAssumption DEF Settable
        <4> QED BY <1>4, <3>1, <3>4, <4>1, <4>2 DEF Meant, Leads
      <3> QED BY <2>1, <2>3, <3>3, <3>4 DEF Progress, Leads
    <2> QED BY <2>2, <2>3
  <1> QED BY <1>3, <1>5, <1>6 DEF LoadInv

LEMMA StoreLoads ==
  ASSUME ConfigInv, LoadInv, NEW t \in Loaders, Store(t)
  PROVE  LoadInv'
  <1>1. PICK x \in Names : x = cur[t].name
    BY DEF Store, ConfigInv, Stages
  <1>2. /\ at[t] = "store" /\ value' = [value EXCEPT ![x] = cur[t].val]
        /\ at' = [at EXCEPT ![t] = "next"] /\ cur' = [cur EXCEPT ![t] = Free]
        /\ UNCHANGED <<todo, doc, sole, datas>>
    BY <1>1 DEF Store, Goto, registryVars, loadVars
  <1>3. /\ cur'[t].name = <<>> /\ value'[x] = cur[t].val
        /\ \A y \in Names : y # x => value'[y] = value[y]
        /\ \A u \in Loaders : u # t => cur'[u] = cur[u] /\ at'[u] = at[u]
    BY <1>2, Apart DEF ConfigInv, ConfigTypes, Free
  <1>4. LoadTypes' /\ \A u \in Loaders : \A y \in sole[u] : y \in Names /\ y # <<>>
    BY <1>2, Apart DEF LoadInv, LoadTypes
  <1>5. Alone'
    BY <1>2, <1>3, <1>4 DEF LoadInv, Alone
  <1>6. ASSUME NEW u \in Loaders, at'[u] # "free" PROVE Progress(u)'
    <2>1. Progress(u)
      BY <1>2, <1>3, <1>6 DEF LoadInv
    <2>2. \A y \in sole[u] : Meant(u, y)' = Meant(u, y)
      <3>1. CASE u = t
        BY <1>1, <1>3, <1>4, <3>1 DEF Meant
      <3>2. CASE u # t
        <4>1. \A y \in sole[u] : y # x
          BY <1>1, <3>2 DEF LoadInv, Alone
        <4> QED BY <1>3, <1>4, <3>2, <4>1 DEF Meant
      <3> QED BY <3>1, <3>2
    <2> QED BY <1>2, <2>1, <2>2 DEF Progress
  <1> QED BY <1>4, <1>5, <1>6 DEF LoadInv

LEMMA OtherLoads ==
  ASSUME ConfigInv, LoadInv, UNCHANGED <<todo, doc, sole, value, datas>>,
         \A t \in Loaders : /\ cur'[t] = cur[t]
                            /\ at'[t] # "free" => at[t] # "free"
  PROVE  LoadInv'
  <1>1. \A t \in Loaders, x \in Names : Meant(t, x)' = Meant(t, x)
    BY DEF Meant
  <1> QED BY <1>1, LoadQuiet

LEMMA ClientLoads ==
  ASSUME ConfigInv, LoadInv, NEW c \in Clients, ClientStep(c)
  PROVE  LoadInv'
  <1>1. ASSUME Insert(c) PROVE LoadInv'
    <2>1. PICK x \in Names : cur[c].name = x /\ datas[x] = 0
      BY <1>1 DEF Insert, ConfigInv, Stages
    <2>2. /\ datas' = [datas EXCEPT ![x] = datas[x] + 1]
          /\ value' = [value EXCEPT ![x] = Default]
          /\ UNCHANGED <<todo, doc, sole>>
          /\ at' = [at EXCEPT ![c] = "free"] /\ cur' = [cur EXCEPT ![c] = Free]
      BY <1>1, <2>1 DEF Insert, Goto, loadVars
    <2>3. \A y \in Names : datas[y] # 0 =>
            datas'[y] # 0 /\ value'[y] = value[y]
      BY <2>1, <2>2 DEF ConfigInv, ConfigTypes
    <2>4. \A t \in Loaders : cur'[t] = cur[t] /\ at'[t] = at[t]
      BY <2>2, Apart DEF ConfigInv, ConfigTypes
    <2>5. \A t \in Loaders, y \in Names : datas[y] # 0 =>
            Meant(t, y)' = Meant(t, y)
      BY <2>2, <2>3, <2>4 DEF Meant
    <2> QED BY <2>2, <2>3, <2>4, <2>5, LoadQuiet
  <1>2. ASSUME NEW x \in Names, Find(c, x) \/ Delete(c, x) \/ Clear(c, x)
        PROVE  LoadInv'
    <2>1. UNCHANGED <<todo, doc, sole, value, datas, at, cur>>
      BY <1>2 DEF Find, Delete, Clear, registryVars, loadVars, setVars,
                  placeVars
    <2> QED BY <2>1, OtherLoads
  <1>3. ASSUME NEW x \in Names,
               \/ LookupBegin(c, x) \/ Existing(c) \/ Leave(c)
               \/ AddRead(c, x) \/ AddInsert(c)
        PROVE LoadInv'
    <2>1. /\ UNCHANGED <<todo, doc, sole, value, datas>>
          /\ \E p, w : at' = [at EXCEPT ![c] = p] /\ cur' = [cur EXCEPT ![c] = w]
      BY <1>3 DEF LookupBegin, Existing, Leave, AddRead, AddInsert, Goto,
                  registryVars, loadVars, setVars
    <2>2. \A t \in Loaders : cur'[t] = cur[t] /\ at'[t] = at[t]
      BY <2>1, Apart DEF ConfigInv, ConfigTypes
    <2> QED BY <2>1, <2>2, OtherLoads
  <1>4. ASSUME Existing(c) \/ Leave(c) \/ AddInsert(c) PROVE LoadInv'
    <2>1. cur[c].name \in Names
      BY <1>4 DEF Existing, Leave, AddInsert, ConfigInv, Stages
    <2> QED BY <1>3, <1>4, <2>1
  <1> QED BY <1>1, <1>2, <1>3, <1>4 DEF ClientStep

LEMMA NextLoads ==
  ASSUME ConfigInv, LoadInv, [Next]_vars PROVE LoadInv'
  <1>1. ASSUME NEW t \in Loaders, CallListener(t) \/ CallsEnd(t) \/ LoadEnd(t)
        PROVE  LoadInv'
    <2>1. UNCHANGED <<todo, doc, sole, value, datas>>
      BY <1>1 DEF CallListener, CallsEnd, LoadEnd, registryVars, loadVars,
                  setVars
    <2>2. \A u \in Loaders : /\ cur'[u].name = cur[u].name
                             /\ cur[u].name \in Names => cur'[u] = cur[u]
                             /\ at'[u] # "free" => at[u] # "free"
      BY <1>1, Apart
         DEF CallListener, CallsEnd, LoadEnd, Goto, placeVars, ConfigInv,
             ConfigTypes, Stages, Free
    <2>3. \A u \in Loaders, x \in Names : Meant(u, x)' = Meant(u, x)
      BY <2>1, <2>2 DEF Meant
    <2> QED BY <2>1, <2>2, <2>3, LoadQuiet
  <1>2. ASSUME NEW t \in Loaders, LoadBegin(t) \/ LoaderStep(t)
        PROVE  LoadInv'
    BY <1>1, <1>2, LoadBeginLoads, SkipLoads, SetBeginLoads, StoreLoads
       DEF LoaderStep
  <1>3. ASSUME NEW c \in Clients, ClientStep(c) PROVE LoadInv'
    BY <1>3, ClientLoads
  <1>4. CASE UNCHANGED vars
    BY <1>4, OtherLoads DEF vars, registryVars, loadVars, setVars, placeVars
  <1> QED BY <1>2, <1>3, <1>4 DEF Next

\* When LoadFromYaml returns, every variable it could reach has the value the
\* document gives it last, whatever entries come before and after, and
\* whatever other threads load, register and delete meanwhile (config.cc).
THEOREM LoadComplete == Spec => Loaded
  <1> DEFINE Ends == \A t \in Loaders : LoadEnd(t) =>
                       \A x \in sole[t], v \in Values :
                          Says(doc[t], x, v) => value[x] = v
  <1>1. ConfigInv /\ LoadInv => Ends
    <2> SUFFICES ASSUME ConfigInv, LoadInv, NEW t \in Loaders, LoadEnd(t),
                        NEW x \in sole[t], NEW v \in Values,
                        Says(doc[t], x, v)
                 PROVE  value[x] = v
      OBVIOUS
    <2>1. /\ at[t] = "next" /\ todo[t] = <<>> /\ cur[t].name = <<>>
          /\ x \in Names /\ x # <<>>
      BY Apart DEF LoadEnd, ConfigInv, Stages, LoadInv, LoadTypes
    <2>2. ~Says(<<>>, x, v)
      BY DEF Says
    <2>3. Leads(<<>>, x, v, Meant(t, x))
      BY <2>1 DEF LoadInv, Progress
    <2> QED BY <2>1, <2>2, <2>3 DEF Leads, Meant
  <1>2. ConfigInv /\ [Next]_vars => ConfigInv'
    BY NextConfig
  <1>3. ConfigInv /\ LoadInv /\ [Next]_vars => LoadInv'
    BY NextLoads
  <1> QED BY <1>1, <1>2, <1>3, InitConfig, InitLoad, PTL DEF Spec, Loaded
=============================================================================
