------------------------------ MODULE Backends ------------------------------
(***************************************************************************)
(* Which model backends there are: declared in backends.json or in the     *)
(* database, served by the router, listed and probed by the catalog        *)
(* (internal/app/app.go, internal/api/models.go, internal/models).         *)
(*                                                                         *)
(* A definition stands for everything a declaration says of a name (kind,  *)
(* address, model, node); "none" is no declaration.                        *)
(***************************************************************************)
EXTENDS Naturals, FiniteSets

CONSTANTS
    Names,
    Home,           \* the default of backends.json, which it must declare
    Definitions,    \* what may be declared in the database
    Handlers,       \* requests that may run at once
    Stale,          \* catalog.go: staleAfter, in moments
    MaxTrouble      \* bound: saved or deleted backends, failures, restarts

VARIABLES
    file,       \* the names backends.json declares
    declared,   \* backend_config
    live,       \* Router.backends
    listed,     \* Catalog.backends
    health,     \* backends: the definition last probed under a name, and how
                \* long ago
    actor,      \* what each handler, and the watch, is doing
    trouble,    \* what happened so far of what MaxTrouble bounds
    crossed     \* history: two handlers changed the set at once

sets == <<file, declared, live, listed>>
vars == <<sets, health, actor, trouble, crossed>>

Actors == Handlers \cup {"watch"}
Sets == [Names -> Definitions \cup {"file", "none"}]
Unprobed == [of |-> "none", age |-> 0]
Nowhere == [n \in Names |-> "none"]
Idle == [at |-> "idle", name |-> Home, def |-> "none", set |-> Nowhere, todo |-> {}]

TypeOK ==
    /\ file \subseteq Names /\ Home \in file
    /\ declared \in [Names -> Definitions \cup {"none"}]
    /\ live \in Sets /\ listed \in Sets
    /\ health \in [Names -> [of : Definitions \cup {"file", "none"}, age : 0 .. Stale + 1]]
    /\ actor \in [Actors -> [at : {"idle", "write", "read", "replace", "list", "probe"},
                             name : Names, def : Definitions \cup {"none"},
                             set : Sets, todo : SUBSET Names]]
    /\ trouble \in 0 .. MaxTrouble /\ crossed \in BOOLEAN

\* Mutant: what is declared in the database shadows the file.
BackendSet_RowsFirst(names, rows) ==
    [n \in Names |-> IF rows[n] # "none" THEN rows[n]
                     ELSE IF n \in names THEN "file" ELSE "none"]

\* backendSet: a name in both belongs to the file.
BackendSet(names, rows) ==
    [n \in Names |-> IF n \in names THEN "file" ELSE rows[n]]

Init ==
    /\ file \in { names \in SUBSET Names : Home \in names }
    /\ declared = Nowhere
    /\ live = BackendSet(file, declared) /\ listed = live
    /\ health = [n \in Names |-> Unprobed]
    /\ actor = [a \in Actors |-> Idle]
    /\ trouble = 0 /\ crossed = FALSE

Trouble == trouble < MaxTrouble /\ trouble' = trouble + 1
Go(a, at) == actor' = [actor EXCEPT ![a].at = at]
Reply(a) == actor' = [actor EXCEPT ![a] = Idle]
Changing(a) == actor[a].at \in {"write", "read", "replace", "list"}
Configured(set) == { n \in Names : set[n] # "none" }
Probing(set, names) == [Idle EXCEPT !.at = "probe", !.set = set, !.todo = names]

-----------------------------------------------------------------------------
(* Declaring a backend                                                     *)

\* fileBackend: live, but not declared in the database.  (A name whose row
\* came first is not recognised as the file's.)
FileBackend(n) == declared[n] = "none" /\ live[n] # "none"

\* handleSaveBackend and handleDeleteBackend ("none") refuse what is the
\* file's.
Begin(h, n, d) ==
    /\ actor[h] = Idle /\ Trouble
    /\ ~FileBackend(n)
    /\ actor' = [actor EXCEPT ![h] = [Idle EXCEPT !.at = "write", !.name = n, !.def = d]]
    /\ crossed' = (crossed \/ \E g \in Handlers : Changing(g))
    /\ UNCHANGED <<sets, health>>

\* SaveBackendConfig, DeleteBackendConfig: what is not there is not found.
Write(h) ==
    LET n == actor[h].name  d == actor[h].def
    IN /\ actor[h].at = "write"
       /\ declared' = [declared EXCEPT ![n] = d]
       /\ IF d = "none" /\ declared[n] = "none" THEN Reply(h) ELSE Go(h, "read")
       /\ UNCHANGED <<file, live, listed, health, trouble, crossed>>

\* reloadBackends: the rows are read, ...
Read(h) ==
    /\ actor[h].at = "read"
    /\ actor' = [actor EXCEPT ![h].at = "replace", ![h].set = BackendSet(file, declared)]
    /\ UNCHANGED <<sets, health, trouble, crossed>>

\* ... the router serves them (default and fallback are the file's, so it
\* accepts every set) ...
Replace(h) ==
    /\ actor[h].at = "replace"
    /\ live' = actor[h].set
    /\ Go(h, "list")
    /\ UNCHANGED <<file, declared, listed, health, trouble, crossed>>

\* ... and the catalog lists them.  After a save everything is probed.
SetBackends(h) ==
    /\ actor[h].at = "list"
    /\ listed' = actor[h].set
    /\ IF actor[h].def = "none" THEN Reply(h)
       ELSE actor' = [actor EXCEPT ![h] = Probing(listed', Configured(listed'))]
    /\ UNCHANGED <<file, declared, live, health, trouble, crossed>>

\* A statement fails or the client is gone: the handler answers with an error.
\* What the row says is served from the next reload on.
Fail(h) ==
    /\ actor[h].at \in {"write", "read", "probe"} /\ Trouble
    /\ Reply(h)
    /\ crossed' = (crossed \/ actor[h].at = "read")
    /\ UNCHANGED <<sets, health>>

-----------------------------------------------------------------------------
(* Probing                                                                 *)

\* Mutant: what has a verdict is not probed again.
Sweep_Unprobed ==
    /\ actor["watch"] = Idle
    /\ actor' = [actor EXCEPT !["watch"] =
           Probing(listed, { n \in Configured(listed) : health[n] = Unprobed })]
    /\ UNCHANGED <<sets, health, trouble, crossed>>

\* Refresh, on a tick of Watch, or by a request: a snapshot of the set.
Sweep ==
    /\ actor["watch"] = Idle
    /\ actor' = [actor EXCEPT !["watch"] = Probing(listed, Configured(listed))]
    /\ UNCHANGED <<sets, health, trouble, crossed>>

\* One backend is probed (in some order) and its verdict is written, with the
\* models it reported, if it answered, in place of those it had.
Probe(a) ==
    /\ actor[a].at = "probe"
    /\ \E n \in actor[a].todo :
        /\ health' = [health EXCEPT ![n] = [of |-> actor[a].set[n], age |-> 0]]
        /\ actor' = [actor EXCEPT ![a].todo = @ \ {n}]
    /\ UNCHANGED <<sets, trouble, crossed>>

ProbesDone(a) ==
    /\ actor[a].at = "probe" /\ actor[a].todo = {}
    /\ Reply(a)
    /\ UNCHANGED <<sets, health, trouble, crossed>>

\* RefreshBackend, after a model was loaded or unloaded on the backend.
RefreshBackend(h, n) ==
    /\ actor[h] = Idle /\ Trouble /\ listed[n] # "none"
    /\ actor' = [actor EXCEPT ![h] = Probing(listed, {n})]
    /\ UNCHANGED <<sets, health, crossed>>

Tick ==
    /\ \E n \in Names : health[n] # Unprobed /\ health[n].age <= Stale
    /\ health' = [n \in Names |->
           IF health[n] # Unprobed /\ health[n].age <= Stale
           THEN [health[n] EXCEPT !.age = @ + 1] ELSE health[n]]
    /\ UNCHANGED <<sets, actor, trouble, crossed>>

\* BackendHealth: the row of a name that is configured, unless it is too old.
Shown(n) ==
    IF listed[n] = "none" \/ health[n].age > Stale THEN "unknown" ELSE health[n].of

-----------------------------------------------------------------------------
\* The server starts again, on what the file says by then.
Restart(names) ==
    /\ Trouble /\ Home \in names
    /\ file' = names /\ UNCHANGED declared
    /\ live' = BackendSet(names, declared) /\ listed' = live'
    /\ actor' = [a \in Actors |-> Idle] /\ crossed' = FALSE
    /\ UNCHANGED health

Handle(h) == Write(h) \/ Read(h) \/ Replace(h) \/ SetBackends(h) \/ Probe(h) \/ ProbesDone(h)
Watch == Sweep \/ Probe("watch") \/ ProbesDone("watch")

Next ==
    \/ \E h \in Handlers :
        \/ \E n \in Names : RefreshBackend(h, n) \/ \E d \in Definitions \cup {"none"} : Begin(h, n, d)
        \/ Handle(h) \/ Fail(h)
    \/ Watch \/ Tick
    \/ \E names \in SUBSET Names : Restart(names)

Spec == Init /\ [][Next]_vars

\* A handler goes on (probes time out), and so does the watch.
Fairness == WF_vars(Watch) /\ \A h \in Handlers : WF_vars(Handle(h))

FairSpec == Spec /\ Fairness

-----------------------------------------------------------------------------
(* Properties                                                              *)

\* With no handler at work the router serves, and the catalog lists, exactly
\* what the file and the rows declare, the file's names being the file's,
\* whatever failed and however often the server started again, unless two
\* handlers changed the set at once or a reload failed since (app.go:
\* backendSet, reloadBackends).
ServedAsDeclared ==
    (\A h \in Handlers : ~Changing(h)) /\ ~crossed =>
        /\ \A n \in Names : live[n] = IF n \in file THEN "file" ELSE declared[n]
        /\ listed = live

\* A verdict of another definition of a name, which a probe that was already
\* on its way can leave behind, is not shown for ever (catalog.go: Refresh,
\* SetBackends, BackendHealth).
VerdictsConverge ==
    \A n \in Names : []<>(Shown(n) \in {"unknown", "none", listed[n]})

=============================================================================
