------------------------------ MODULE Canaries ------------------------------
(***************************************************************************)
(* The canaries of internal/twire: decoy listeners an operator switches on *)
(* and off, built in or defined by hand.  The switch is a row, the         *)
(* listener is the process's: every handler changes the rows first and the *)
(* listeners under the lock afterwards, and a restart opens what the rows  *)
(* say.  What a hit sets off is the module Alarms.                         *)
(***************************************************************************)
EXTENDS Naturals, FiniteSets

CONSTANTS
    Catalog,        \* the built-in canaries
    Customs,        \* keys an operator may define, one per port
    Requests,       \* handlers that may run at once
    MaxTrouble      \* bound: failures and restarts

VARIABLES
    enabled,    \* twire_canaries: the keys whose row says on
    custom,     \* twire_custom_canaries
    known,      \* Service.customByKey
    listening,  \* Service.listeners
    failed,     \* Service.bindErrs
    request,    \* what each handler is doing
    up,         \* is the server running?
    trouble,    \* what happened so far of what MaxTrouble bounds
    astray      \* history: keys whose rows and listeners may have parted

rows == <<enabled, custom>>
service == <<known, listening, failed>>
vars == <<rows, service, request, up, trouble, astray>>

Keys == Catalog \cup Customs
NoRequest == [op |-> "none", key |-> "none", at |-> "none"]

TypeOK ==
    /\ enabled \subseteq Keys /\ custom \subseteq Customs
    /\ known \subseteq Customs /\ listening \subseteq Keys /\ failed \subseteq Keys
    /\ request \in [Requests -> {NoRequest} \cup
           [op : {"enable", "disable", "create", "delete"}, key : Keys,
            at : {"write", "clear", "apply"}]]
    /\ up \in BOOLEAN /\ trouble \in 0 .. MaxTrouble /\ astray \subseteq Keys

Init ==
    /\ enabled = {} /\ custom = {}
    /\ known = {} /\ listening = {} /\ failed = {}
    /\ request = [r \in Requests |-> NoRequest]
    /\ up = TRUE /\ trouble = 0 /\ astray = {}

Trouble == trouble < MaxTrouble /\ trouble' = trouble + 1
Busy(k) == \E r \in Requests : request[r].key = k
Go(r, at) == request' = [request EXCEPT ![r].at = at]
Reply(r) == request' = [request EXCEPT ![r] = NoRequest]

-----------------------------------------------------------------------------
(* Listeners                                                               *)

Running == Catalog \cup known

\* startListenerLocked, for the keys that have a profile and do not listen
\* yet: each port can be had, or its error is noted.
Open(keys, profiles) ==
    LET wanted == (keys \cap profiles) \ listening
    IN \E refused \in SUBSET wanted :
        /\ listening' = listening \cup (wanted \ refused)
        /\ failed' = (failed \ wanted) \cup refused

Close(keys) == listening' = listening \ keys /\ failed' = failed \ keys

-----------------------------------------------------------------------------
(* Handlers                                                                *)

\* Two handlers on one key at once: neither waits for the other.
Begin(r, op, k) ==
    /\ up /\ request[r] = NoRequest
    /\ request' = [request EXCEPT ![r] = [op |-> op, key |-> k, at |-> "write"]]
    /\ astray' = IF Busy(k) THEN astray \cup {k} ELSE astray
    /\ UNCHANGED <<rows, service, up, trouble>>

\* Enable and Disable know the key (lookup).
Switch(r, op, k) == k \in Running /\ op \in {"enable", "disable"} /\ Begin(r, op, k)

\* A port of the catalogue is reserved; a built-in canary is not deleted.
Define(r, op, k) == k \in Customs /\ op \in {"create", "delete"} /\ Begin(r, op, k)

At(r, op, at) == up /\ request[r].op = op /\ request[r].at = at

SetCanaryEnabled(r) ==
    LET k == request[r].key
    IN /\ At(r, "enable", "write") \/ At(r, "disable", "write")
       /\ enabled' = IF request[r].op = "enable" THEN enabled \cup {k} ELSE enabled \ {k}
       /\ Go(r, "apply")
       /\ UNCHANGED <<custom, service, up, trouble, astray>>

Enable(r) ==
    /\ At(r, "enable", "apply")
    /\ Open({request[r].key}, Running)
    /\ Reply(r)
    /\ UNCHANGED <<rows, known, up, trouble, astray>>

Disable(r) ==
    /\ At(r, "disable", "apply")
    /\ Close({request[r].key})
    /\ Reply(r)
    /\ UNCHANGED <<rows, known, up, trouble, astray>>

\* A port that is defined is taken.  The switch of an earlier canary on this
\* port may have outlived it.
InsertCustomCanary(r) ==
    LET k == request[r].key
    IN /\ At(r, "create", "write")
       /\ IF k \in custom
          THEN Reply(r) /\ UNCHANGED <<custom, astray>>
          ELSE /\ custom' = custom \cup {k}
               /\ astray' = IF k \in enabled /\ k \notin known THEN astray \cup {k} ELSE astray
               /\ Go(r, "apply")
       /\ UNCHANGED <<enabled, service, up, trouble>>

CreateCustom(r) ==
    /\ At(r, "create", "apply")
    /\ known' = known \cup {request[r].key}
    /\ Reply(r)
    /\ UNCHANGED <<rows, listening, failed, up, trouble, astray>>

\* Two statements: the definition, then its switch.  What was not defined is
\* unknown.
DeleteCustomCanary(r) ==
    LET k == request[r].key
    IN /\ \/ /\ At(r, "delete", "write")
             /\ custom' = custom \ {k}
             /\ IF k \in custom THEN Go(r, "clear") ELSE Reply(r)
             /\ UNCHANGED enabled
          \/ /\ At(r, "delete", "clear")
             /\ enabled' = enabled \ {k}
             /\ Go(r, "apply")
             /\ UNCHANGED custom
       /\ UNCHANGED <<service, up, trouble, astray>>

\* Mutant: the listener of a deleted canary is left open.
DeleteCustom_KeepsListener(r) ==
    /\ At(r, "delete", "apply")
    /\ known' = known \ {request[r].key}
    /\ Reply(r)
    /\ UNCHANGED <<rows, listening, failed, up, trouble, astray>>

DeleteCustom(r) ==
    /\ At(r, "delete", "apply")
    /\ Close({request[r].key})
    /\ known' = known \ {request[r].key}
    /\ Reply(r)
    /\ UNCHANGED <<rows, up, trouble, astray>>

\* A statement fails, or the client is gone: the handler answers with an error
\* where it stands.  Once the rows are written it does not look back.
Fail(r) ==
    /\ up /\ request[r].at \in {"write", "clear"} /\ Trouble
    /\ Reply(r)
    /\ UNCHANGED <<rows, service, up, astray>>

-----------------------------------------------------------------------------
(* The process                                                             *)

\* The server stops, in whatever its handlers were doing; closeAll, or the end
\* of the process, closes the ports.
Stop ==
    /\ up /\ Trouble
    /\ up' = FALSE
    /\ known' = {} /\ Close(Keys)
    /\ request' = [r \in Requests |-> NoRequest]
    /\ UNCHANGED <<rows, astray>>

\* The definitions first, then every canary whose row says on.
Start ==
    /\ ~up /\ up' = TRUE
    /\ known' = custom /\ Open(enabled, Catalog \cup custom) /\ astray' = {}
    /\ UNCHANGED <<rows, request, trouble>>

\* A table cannot be read: its canaries stay off, and the server comes up.
StartUnread ==
    /\ ~up /\ Trouble /\ up' = TRUE
    /\ \/ known' = {} /\ Open(enabled, Catalog) /\ astray' = Customs
       \/ known' = custom /\ Open({}, {}) /\ astray' = Keys
    /\ UNCHANGED <<rows, request>>

-----------------------------------------------------------------------------
Handle(r) ==
    \/ SetCanaryEnabled(r) \/ Enable(r) \/ Disable(r) \/ InsertCustomCanary(r)
    \/ CreateCustom(r) \/ DeleteCustomCanary(r) \/ DeleteCustom(r)

Next ==
    \/ \E r \in Requests :
        \/ \E k \in Keys : Switch(r, "enable", k) \/ Switch(r, "disable", k)
        \/ \E k \in Customs : Define(r, "create", k) \/ Define(r, "delete", k)
        \/ Handle(r) \/ Fail(r)
    \/ Stop \/ Start \/ StartUnread

Spec == Init /\ [][Next]_vars

-----------------------------------------------------------------------------
(* Properties                                                              *)

\* A canary that is switched on watches its port, or says why not, and one
\* that is off or deleted watches nothing: after any failed statement, restart
\* or sequence of requests, unless two requests on the same canary overlapped,
\* or it was defined again over the switch a half-done delete had left
\* (service.go: Enable, Disable, CreateCustom, DeleteCustom, Start).
ListensAsStored ==
    /\ listening \cap failed = {}
    /\ \A k \in Keys \ astray : up /\ ~Busy(k) =>
        (k \in listening \cup failed <=> k \in enabled \cap Running)

=============================================================================
