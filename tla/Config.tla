------------------------------- MODULE Config -------------------------------
(***************************************************************************)
(* The configuration (config.h, config.cc): a registry of variables by     *)
(* name under a static rwlock, and for each variable its value and its     *)
(* listeners under a rwlock of its own.  Clients look variables up, create *)
(* them, and add, delete and clear listeners; loaders set values, one by   *)
(* one (setValue) or from a document (LoadFromYaml).                       *)
(*                                                                         *)
(* Lookup with a default keeps the registry's write lock from its search   *)
(* to its end; of a name that exists it asks once more, under a read lock  *)
(* that the C library refuses the writer and whose guard then gives up the *)
(* write lock.  The readers' sections are one step each.  setValue calls   *)
(* the listeners under the variable's read lock and stores the value under *)
(* its write lock; addListener reads the counter of ids and writes it      *)
(* under the write lock of one variable, but the counter belongs to all    *)
(* the variables of the type.                                              *)
(***************************************************************************)
EXTENDS Naturals, Sequences, FiniteSets, Lists

CONSTANTS
    Loaders,      \* threads that set variables
    Clients,      \* threads that look them up and listen to them
    Names,        \* names of variables: sequences of keys, joined by "."
    Keys,         \* the keys of documents, without "."
    LegalKeys,    \* those of lower-case letters, digits and "_"
    TypeOf,       \* the type of the variable each name is used with
    Values,       \* the values, the same for every type
    Default,      \* the value the clients make variables with
    Junk,         \* a text LexicalCast refuses
    Docs,         \* the documents loaded: nodes in the order of a traversal
    MaxLoads,     \* bound: documents loaded
    MaxAdds,      \* bound: listeners added
    MaxLookups    \* bound: lookups with a default

Types == {TypeOf[x] : x \in Names}
Doc == Seq([path : Seq(Keys), val : Values \cup {Junk}])

ASSUME ConfigAssumption ==
    /\ Loaders \cap Clients = {}
    /\ LegalKeys \subseteq Keys
    /\ Names \subseteq Seq(LegalKeys) \ {<<>>}
    /\ DOMAIN TypeOf = Names
    /\ Default \in Values /\ Junk \notin Values
    /\ Docs \subseteq Doc
    /\ MaxLoads \in Nat /\ MaxAdds \in Nat /\ MaxLookups \in Nat

Threads == Loaders \cup Clients
Free == [name |-> <<>>, val |-> Junk]     \* no call under way

VARIABLES
    datas,        \* the registry: a name's variable, by number; 0 is none
    value,        \* m_val
    cbs,          \* m_cbs: a listener per id
    funId,        \* addListener's static s_fun_id, one for each type
    handle,       \* the variables a client has looked up
    strayed,      \* the registry's lock has been given up by a thread that
                  \* no longer held it: its count of readers is wrong
    at,           \* where each thread is
    cur,          \* the variable and value of its setValue, or addListener
    todo,         \* the entries of the document still to be loaded
    rest,         \* ids of the listeners still to be called
    read,         \* the s_fun_id addListener has read
    doc,          \* history: the document being loaded
    sole,         \* history: the names that were registered when that began
                  \* and that no other thread has set since
    old,          \* history: the value the listeners were told is the old one
    live,         \* history: listeners added and neither deleted nor cleared
    told,         \* history: the value each listener knows
    late,         \* history: those added while a value waited to be stored
    mixed,        \* history: names that two threads have set at once
    loads,        \* counters of the bounds
    lookups

registryVars == <<datas, handle, strayed, lookups>>
listenerVars == <<cbs, funId, read, live, late>>
loadVars == <<todo, doc, sole, loads>>
setVars == <<value, rest, old, told, mixed>>
placeVars == <<at, cur>>
vars == <<registryVars, listenerVars, loadVars, setVars, placeVars>>

Init ==
    /\ datas = [x \in Names |-> 0]
    /\ value = [x \in Names |-> Junk]
    /\ cbs = [x \in Names |-> {}]
    /\ funId = [y \in Types |-> 0]
    /\ handle = [c \in Clients |-> [x \in Names |-> 0]]
    /\ strayed = FALSE
    /\ at = [t \in Threads |-> "free"]
    /\ cur = [t \in Threads |-> Free]
    /\ todo = [t \in Loaders |-> <<>>]
    /\ rest = [t \in Loaders |-> {}]
    /\ read = [c \in Clients |-> 0]
    /\ doc = [t \in Loaders |-> <<>>]
    /\ sole = [t \in Loaders |-> {}]
    /\ old = [t \in Loaders |-> Junk]
    /\ live = [x \in Names |-> {}]
    /\ told = <<>>
    /\ late = {} /\ mixed = {}
    /\ loads = 0 /\ lookups = 0

-----------------------------------------------------------------------------
(* The variable's lock: held for reading while its listeners are called,   *)
(* for writing between the two steps of addListener.                       *)

Readers(x) == {t \in Loaders : at[t] = "call" /\ cur[t].name = x}
Writers(x) == {c \in Clients : at[c] = "insert" /\ cur[c].name = x}
Unlocked(x) == Readers(x) = {} /\ Writers(x) = {}

Goto(t, place, what) ==
    /\ at' = [at EXCEPT ![t] = place]
    /\ cur' = [cur EXCEPT ![t] = what]

-----------------------------------------------------------------------------
(* The registry.                                                           *)

\* Who holds the registry's write lock.  It excludes other writers always,
\* readers until its count of them has gone wrong.  (From then on a lock call
\* may also wait for ever; a step is never obliged to happen here.)
RegistryWriters == {c \in Clients : at[c] \in {"create", "exists"}}
ForReaders == RegistryWriters = {} \/ strayed

\* Mutant: the search is made under the read lock.
LookupBeginShared(c, x) ==
    /\ at[c] = "free" /\ handle[c][x] = 0
    /\ lookups < MaxLookups /\ lookups' = lookups + 1
    /\ Goto(c, IF datas[x] = 0 THEN "create" ELSE "exists",
            [name |-> x, val |-> Junk])
    /\ UNCHANGED <<datas, handle, strayed, listenerVars, loadVars, setVars>>

\* Lookup with a default: the write lock, and the search for the name.
LookupBegin(c, x) ==
    /\ at[c] = "free" /\ handle[c][x] = 0
    /\ RegistryWriters = {}
    /\ lookups < MaxLookups /\ lookups' = lookups + 1
    /\ Goto(c, IF datas[x] = 0 THEN "create" ELSE "exists",
            [name |-> x, val |-> Junk])
    /\ UNCHANGED <<datas, handle, strayed, listenerVars, loadVars, setVars>>

\* A variable is made with the default and put into the registry.
Insert(c) ==
    LET x == cur[c].name IN
    /\ at[c] = "create"
    /\ datas' = [datas EXCEPT ![x] = @ + 1]
    /\ handle' = [handle EXCEPT ![c][x] = datas'[x]]
    /\ value' = [value EXCEPT ![x] = Default]
    /\ Goto(c, "free", Free)
    /\ UNCHANGED <<strayed, lookups, listenerVars, loadVars, rest, old, told,
                   mixed>>

\* The name exists: the nested Lookup finds the variable, or null when asked
\* for another type, and its guard releases the lock of the outer one.
Existing(c) ==
    LET x == cur[c].name IN
    /\ at[c] = "exists"
    /\ \/ handle' = [handle EXCEPT ![c][x] = datas[x]]
       \/ UNCHANGED handle
    /\ Goto(c, "leave", cur[c])
    /\ UNCHANGED <<datas, strayed, lookups, listenerVars, loadVars, setVars>>

\* The outer guard unlocks what this thread no longer holds.
Leave(c) ==
    /\ at[c] = "leave"
    /\ strayed' = TRUE
    /\ Goto(c, "free", Free)
    /\ UNCHANGED <<datas, handle, lookups, listenerVars, loadVars, setVars>>

\* Lookup without a default, with the type the variable was made with; with
\* another it returns null, as for a name that is unknown.
Find(c, x) ==
    /\ at[c] = "free" /\ handle[c][x] = 0
    /\ ForReaders
    /\ datas[x] # 0
    /\ handle' = [handle EXCEPT ![c][x] = datas[x]]
    /\ UNCHANGED <<datas, strayed, lookups, listenerVars, loadVars, setVars,
                   placeVars>>

-----------------------------------------------------------------------------
(* LoadFromYaml and setValue.                                              *)

\* ListAllMember: the root has no name; a path with a key that is not legal
\* is left out, and so is what is below it.
Listed == [path : Seq(LegalKeys) \ {<<>>}, val : Values \cup {Junk}]
Entries(d) == Only(d, Listed)

BeingSet(x) == \E t \in Loaders : cur[t].name = x

LoadBegin(t) ==
    /\ at[t] = "free" /\ loads < MaxLoads
    /\ loads' = loads + 1
    /\ \E d \in Docs :
         /\ doc' = [doc EXCEPT ![t] = d]
         /\ todo' = [todo EXCEPT ![t] = Entries(d)]
    /\ sole' = [sole EXCEPT ![t] = {x \in Names :
                                       datas[x] # 0 /\ ~BeingSet(x)}]
    /\ Goto(t, "next", Free)
    /\ UNCHANGED <<registryVars, listenerVars, setVars>>

\* LookupBase finds a variable, and the text can be cast.
Settable(e) ==
    e.path \in Names /\ datas[e.path] # 0 /\ e.val \in Values
NextEntry(t) == Head(todo[t])

\* Mutant: an entry that is not for a variable ends the loading.
SkipRest(t) ==
    /\ at[t] = "next" /\ todo[t] # <<>> /\ ForReaders
    /\ \/ ~Settable(NextEntry(t)) /\ todo' = [todo EXCEPT ![t] = <<>>]
       \/ /\ Settable(NextEntry(t)) /\ Writers(NextEntry(t).path) = {}
          /\ NextEntry(t).val = value[NextEntry(t).path]
          /\ todo' = [todo EXCEPT ![t] = Tail(@)]
    /\ UNCHANGED <<registryVars, listenerVars, doc, sole, loads, setVars,
                   placeVars>>

\* No variable, a text that is refused, or the value it has already.
Skip(t) ==
    /\ at[t] = "next" /\ todo[t] # <<>> /\ ForReaders
    /\ \/ ~Settable(NextEntry(t))
       \/ /\ Settable(NextEntry(t)) /\ Writers(NextEntry(t).path) = {}
          /\ NextEntry(t).val = value[NextEntry(t).path]
    /\ todo' = [todo EXCEPT ![t] = Tail(@)]
    /\ UNCHANGED <<registryVars, listenerVars, doc, sole, loads, setVars,
                   placeVars>>

\* setValue takes the read lock and finds another value.
SetBegin(t) ==
    LET e == NextEntry(t) IN
    /\ at[t] = "next" /\ todo[t] # <<>> /\ ForReaders
    /\ Settable(e) /\ Writers(e.path) = {}
    /\ e.val # value[e.path]
    /\ todo' = [todo EXCEPT ![t] = Tail(@)]
    /\ rest' = [rest EXCEPT ![t] = {l.id : l \in cbs[e.path]}]
    /\ old' = [old EXCEPT ![t] = value[e.path]]
    /\ sole' = [u \in Loaders |->
                   IF u = t THEN sole[u] ELSE sole[u] \ {e.path}]
    /\ mixed' = IF BeingSet(e.path) THEN mixed \cup {e.path} ELSE mixed
    /\ Goto(t, "call", [name |-> e.path, val |-> e.val])
    /\ UNCHANGED <<registryVars, listenerVars, doc, loads, value, told>>

\* The loop over m_cbs, in the order of the ids.
CallListener(t) ==
    LET x == cur[t].name IN
    /\ at[t] = "call"
    /\ \E l \in cbs[x] :
         /\ l.id \in rest[t] /\ \A i \in rest[t] : l.id <= i
         /\ told' = [told EXCEPT ![l.cb] = cur[t].val]
         /\ rest' = [rest EXCEPT ![t] = @ \ {l.id}]
    /\ UNCHANGED <<registryVars, listenerVars, loadVars, value, old, mixed,
                   placeVars>>

\* Mutant: the first listener is the only one called.
CallsEndEarly(t) ==
    /\ at[t] = "call"
    /\ rest[t] = {l.id : l \in cbs[cur[t].name]} => rest[t] = {}
    /\ rest' = [rest EXCEPT ![t] = {}]
    /\ Goto(t, "store", cur[t])
    /\ UNCHANGED <<registryVars, listenerVars, loadVars, value, old, told,
                   mixed>>

CallsEnd(t) ==
    /\ at[t] = "call" /\ rest[t] = {}
    /\ Goto(t, "store", cur[t])
    /\ UNCHANGED <<registryVars, listenerVars, loadVars, setVars>>

\* The write lock.
Store(t) ==
    LET x == cur[t].name IN
    /\ at[t] = "store" /\ Unlocked(x)
    /\ value' = [value EXCEPT ![x] = cur[t].val]
    /\ Goto(t, "next", Free)
    /\ UNCHANGED <<registryVars, listenerVars, loadVars, rest, old, told,
                   mixed>>

LoadEnd(t) ==
    /\ at[t] = "next" /\ todo[t] = <<>>
    /\ Goto(t, "free", Free)
    /\ UNCHANGED <<registryVars, listenerVars, loadVars, setVars>>

-----------------------------------------------------------------------------
(* Listeners.  They touch no configuration variable.                       *)

Has(c, x) == at[c] = "free" /\ handle[c][x] # 0

\* Mutant: addListener takes no lock.
AddReadUnlocked(c, x) ==
    /\ Has(c, x)
    /\ Len(told) + Cardinality({k \in Clients : at[k] = "insert"}) < MaxAdds
    /\ read' = [read EXCEPT ![c] = funId[TypeOf[x]]]
    /\ Goto(c, "insert", [name |-> x, val |-> Junk])
    /\ UNCHANGED <<registryVars, cbs, funId, live, late, loadVars, setVars>>

\* addListener takes the write lock and reads s_fun_id ...
AddRead(c, x) ==
    /\ Has(c, x) /\ Unlocked(x)
    /\ Len(told) + Cardinality({k \in Clients : at[k] = "insert"}) < MaxAdds
    /\ read' = [read EXCEPT ![c] = funId[TypeOf[x]]]
    /\ Goto(c, "insert", [name |-> x, val |-> Junk])
    /\ UNCHANGED <<registryVars, cbs, funId, live, late, loadVars, setVars>>

\* ... and adds one to it; the listener replaces one with the same id.
AddInsert(c) ==
    LET x == cur[c].name
        l == [id |-> read[c] + 1, cb |-> Len(told) + 1] IN
    /\ at[c] = "insert"
    /\ funId' = [funId EXCEPT ![TypeOf[x]] = l.id]
    /\ cbs' = [cbs EXCEPT ![x] = {k \in @ : k.id # l.id} \cup {l}]
    /\ live' = [live EXCEPT ![x] = @ \cup {l}]
    /\ told' = Append(told, value[x])
    /\ late' = IF \E t \in Loaders : at[t] = "store" /\ cur[t].name = x
                 THEN late \cup {l.cb} ELSE late
    /\ read' = [read EXCEPT ![c] = 0]
    /\ Goto(c, "free", Free)
    /\ UNCHANGED <<registryVars, loadVars, value, rest, old, mixed>>

\* Mutant: delListener takes the lock for reading.
DeleteShared(c, x) ==
    /\ Has(c, x) /\ Writers(x) = {}
    /\ \E l \in live[x] :
         /\ cbs' = [cbs EXCEPT ![x] = {k \in @ : k.id # l.id}]
         /\ live' = [live EXCEPT ![x] = @ \ {l}]
    /\ UNCHANGED <<registryVars, funId, read, late, loadVars, setVars,
                   placeVars>>

\* delListener, with an id addListener has returned.
Delete(c, x) ==
    /\ Has(c, x) /\ Unlocked(x)
    /\ \E l \in live[x] :
         /\ cbs' = [cbs EXCEPT ![x] = {k \in @ : k.id # l.id}]
         /\ live' = [live EXCEPT ![x] = @ \ {l}]
    /\ UNCHANGED <<registryVars, funId, read, late, loadVars, setVars,
                   placeVars>>

Clear(c, x) ==
    /\ Has(c, x) /\ Unlocked(x)
    /\ cbs' = [cbs EXCEPT ![x] = {}]
    /\ live' = [live EXCEPT ![x] = {}]
    /\ UNCHANGED <<registryVars, funId, read, late, loadVars, setVars,
                   placeVars>>

-----------------------------------------------------------------------------
LoaderStep(t) ==
    \/ Skip(t) \/ SetBegin(t) \/ CallListener(t) \/ CallsEnd(t)
    \/ Store(t) \/ LoadEnd(t)
ClientStep(c) ==
    \/ AddInsert(c) \/ Insert(c) \/ Existing(c) \/ Leave(c)
    \/ \E x \in Names :
         LookupBegin(c, x) \/ Find(c, x) \/ AddRead(c, x) \/ Delete(c, x)
           \/ Clear(c, x)

Next ==
    \/ \E t \in Loaders : LoadBegin(t) \/ LoaderStep(t)
    \/ \E c \in Clients : ClientStep(c)

Spec == Init /\ [][Next]_vars

-----------------------------------------------------------------------------
(* Properties.                                                             *)

\* There is one variable for a name, also when two clients that found none
\* look it up with a default at once: every client that has looked it up sees
\* the values that are loaded.
OneVariable ==
    \A c \in Clients, x \in Names : handle[c][x] \in {0, datas[x]}

\* A listener stays until it is deleted: no other one takes its id.  (The
\* counter is shared by the variables of a type, the lock is not: this needs
\* variables of different types.)
ListenersKept == \A x \in Names : live[x] = cbs[x]

\* While the listeners of a variable are called, neither they nor its value
\* change: the loop's iterator stays valid, a listener whose delListener has
\* returned is not called, and the old value passed by reference is old.
CallsAreStable ==
    \A t \in Loaders : at[t] = "call" =>
        /\ rest[t] \subseteq {l.id : l \in cbs[cur[t].name]}
        /\ value[cur[t].name] = old[t]

\* Unless two threads have set it at once, every listener of a variable knows
\* its value, but for one added between the calls and the store, whom nobody
\* tells.
Informed ==
    \A x \in Names \ mixed : \A l \in cbs[x] :
        told[l.cb] = value[x] \/ l.cb \in late \/ BeingSet(x)

\* What document d says last of the variable x.
Says(d, x, v) ==
    \E i \in DOMAIN d :
        /\ d[i].path = x /\ d[i].val = v /\ v # Junk
        /\ \A k \in (i + 1)..Len(d) : d[k].path = x => d[k].val = Junk

\* When LoadFromYaml returns, every variable that was registered before, and
\* that no other thread has set meanwhile, has the value the document gives it
\* last; an entry that is for no variable, or is refused, does the others no
\* harm.
Loaded ==
    [][\A t \in Loaders : LoadEnd(t) =>
         \A x \in sole[t], v \in Values :
            Says(doc[t], x, v) => value[x] = v]_vars
=============================================================================
