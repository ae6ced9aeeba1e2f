---------------------------- MODULE Parts_proofs ----------------------------
(***************************************************************************)
(* Theorems about the parts, for every value of their constants: the mails *)
(* of the alarms, the switches of the canaries, the libraries of the       *)
(* agents, and the operator's records: what is stamped as reported, what   *)
(* retention leaves of the backups, what the routes may do to tasks and    *)
(* notes, what an archive holds that is written while the server goes on,  *)
(* what the ledger has of the owner's money, what the router serves and    *)
(* what a node holds under a model's name.  Each is an invariant of its    *)
(* part, which the steps of the others cannot disturb.                     *)
(***************************************************************************)
EXTENDS Parts, Sequences, Collections

\* A step is one of the subject, and leaves the other parts as they are.
LEMMA OnlyMoves ==
    ASSUME NEW p, Only(p)
    PROVE  /\ p # "alerts" => UNCHANGED alertVars
           /\ p # "decoys" => UNCHANGED decoyVars
           /\ p # "libraries" => UNCHANGED libraryVars
           /\ p # "reviews" => UNCHANGED reviewVars
           /\ p # "models" => UNCHANGED modelVars
           /\ p # "nodes" => UNCHANGED nodeVars
           /\ p # "copies" => UNCHANGED copyVars
           /\ p # "exports" => UNCHANGED exportVars
           /\ p # "todo" => UNCHANGED todoVars
           /\ p # "treasury" => UNCHANGED fundVars
BY DEF Only

\* A step of the whole is, for each part of this module, one of its own or none.
LEMMA Steps ==
    ASSUME [Next]_vars
    PROVE  /\ Alerts!Next \/ UNCHANGED alertVars
           /\ Decoys!Next \/ UNCHANGED decoyVars
           /\ Libraries!Next \/ UNCHANGED libraryVars
           /\ Revs!Next \/ UNCHANGED reviewVars
           /\ Models!Next \/ UNCHANGED modelVars
           /\ Nodes!Next \/ UNCHANGED nodeVars
           /\ Copies!Next \/ UNCHANGED copyVars
           /\ Exports!Next \/ UNCHANGED exportVars
           /\ Todo!Next \/ UNCHANGED todoVars
           /\ Funds!Next \/ UNCHANGED fundVars
<1>1. CASE UNCHANGED vars
  BY <1>1 DEF vars
<1>2. CASE Only("alerts") /\ Alerts!Next
  BY <1>2, OnlyMoves
<1>3. CASE Only("decoys") /\ Decoys!Next
  BY <1>3, OnlyMoves
<1>4. CASE Only("libraries") /\ Libraries!Next
  BY <1>4, OnlyMoves
<1>5. CASE Only("reviews") /\ Revs!Next
  BY <1>5, OnlyMoves
<1>6. CASE Only("models") /\ Models!Next
  BY <1>6, OnlyMoves
<1>7. CASE Only("nodes") /\ Nodes!Next
  BY <1>7, OnlyMoves
<1>8. CASE Only("copies") /\ Copies!Next
  BY <1>8, OnlyMoves
<1>9. CASE Only("exports") /\ Exports!Next
  BY <1>9, OnlyMoves
<1>10. CASE Only("todo") /\ Todo!Next
  BY <1>10, OnlyMoves
<1>11. CASE Only("treasury") /\ Funds!Next
  BY <1>11, OnlyMoves
<1>12. CASE \E p \in {"repo", "trades", "fit", "search"} : Only(p)
  BY <1>12, OnlyMoves
<1> QED
  BY <1>1, <1>2, <1>3, <1>4, <1>5, <1>6, <1>7, <1>8, <1>9, <1>10, <1>11, <1>12 DEF Next

-----------------------------------------------------------------------------
(* Alarms.                                                                 *)

MailInv ==
    /\ lastAlert \in [Traps -> Nat] /\ attempted \in [Traps -> Nat]
    /\ hits \subseteq Traps
    /\ OneMailPerCooldown

LEMMA MailStep == MailInv /\ [Next]_vars => MailInv'
<1> SUFFICES ASSUME MailInv, [Next]_vars PROVE MailInv'
  OBVIOUS
<1> USE PartsAssumption DEF MailInv, OneMailPerCooldown, Alerts!OneMailPerCooldown
<1>1. CASE UNCHANGED alertVars
  BY <1>1 DEF alertVars
<1>2. CASE Alerts!Tick
  BY <1>2 DEF Alerts!Tick, Alerts!Older
<1>3. ASSUME NEW x \in Traps, Alerts!RecordHit(x) PROVE MailInv'
  BY <1>3 DEF Alerts!RecordHit, Alerts!ShouldAlert, Alerts!Stamped, Alerts!Never
<1>4. ASSUME NEW x \in Traps, Alerts!SendAlert(x) PROVE MailInv'
  BY <1>4 DEF Alerts!SendAlert
<1>5. ASSUME NEW given, NEW supplied, Alerts!ReadAlertConfig(given, supplied)
      PROVE MailInv'
  BY <1>5 DEF Alerts!ReadAlertConfig
<1>6. CASE Alerts!SetAlertConfig
  BY <1>6 DEF Alerts!SetAlertConfig
<1>7. CASE Alerts!Restart
  BY <1>7 DEF Alerts!Restart, Alerts!Never
<1> QED
  BY <1>1, <1>2, <1>3, <1>4, <1>5, <1>6, <1>7, Steps DEF Alerts!Next

\* However long a canary is hammered, for any number of canaries and sources
\* and any cooldown, a mail about a pair waits until the cooldown of the one
\* before it is over (twire/service.go: shouldAlert).
THEOREM OneMail == Spec => []OneMailPerCooldown
<1>1. Init => MailInv
  BY PartsAssumption DEF Init, Alerts!Init, Alerts!Never, MailInv, OneMailPerCooldown,
     Alerts!OneMailPerCooldown
<1>2. MailInv => OneMailPerCooldown
  BY DEF MailInv
<1> QED
  BY <1>1, <1>2, MailStep, PTL DEF Spec

-----------------------------------------------------------------------------
(* Canaries.  A handler at work on a canary leaves its rows and its        *)
(* listener apart in just the way its last step mends.                     *)

Running == Catalog \cup profiles
Agree(k) == k \in listening \cup failed <=> k \in enabled \cap Running
Idle == [op |-> "none", key |-> "none", at |-> "none"]

\* What holds of a canary while a handler is at work on it.
Owed(k, q) ==
    /\ q.at \in {"write", "clear"} => Agree(k)
    /\ q.at = "write" /\ q.op = "enable" => k \in Running
    /\ q.at = "apply" /\ q.op = "enable" => k \in enabled \cap Running
    /\ q.at = "apply" /\ q.op \in {"disable", "delete"} => k \notin enabled
    /\ q.at = "apply" /\ q.op = "create" => Agree(k) /\ (k \in profiles \/ k \notin enabled)

SwitchTypes ==
    /\ switch \in [Switches -> {Idle} \cup
          [op : {"enable", "disable", "create", "delete"}, key : Catalog \cup Customs,
           at : {"write", "clear", "apply"}]]
    /\ \A r \in Switches : switch[r].op \in {"create", "delete"} => switch[r].key \in Customs
    /\ profiles \subseteq Customs /\ custom \subseteq Customs
    /\ enabled \subseteq Catalog \cup Customs
    /\ serverUp \in BOOLEAN
    /\ listening \subseteq Catalog \cup Customs /\ failed \subseteq Catalog \cup Customs
    /\ listening \cap failed = {}

\* Whoever is alone on a canary owes it what is left to do.
Settled(k) ==
    serverUp /\ k \notin astray =>
        /\ \A r, q \in Switches : switch[r].key = k /\ switch[q].key = k => r = q
        /\ \A r \in Switches : switch[r].key = k => Owed(k, switch[r])
        /\ (\A r \in Switches : switch[r].key # k) => Agree(k)

DecoyInv ==
    /\ SwitchTypes
    /\ ~serverUp => listening = {} /\ failed = {} /\ \A r \in Switches : switch[r] = Idle
    /\ \A k \in Catalog \cup Customs : Settled(k)

LEMMA DecoyTypes == DecoyInv /\ [Next]_vars => SwitchTypes'
<1> SUFFICES ASSUME DecoyInv, [Next]_vars PROVE SwitchTypes'
  OBVIOUS
<1> USE PartsAssumption DEF DecoyInv, SwitchTypes, Idle, Running
<1>0. CASE UNCHANGED decoyVars
  BY <1>0 DEF decoyVars
<1>1. ASSUME NEW r \in Switches, NEW k \in Decoys!Keys, Decoys!Switch(r, "enable", k)
      PROVE SwitchTypes'
  BY <1>1 DEF Decoys!Switch, Decoys!Begin, Decoys!rows, Decoys!service, Decoys!Keys
<1>2. ASSUME NEW r \in Switches, NEW k \in Decoys!Keys, Decoys!Switch(r, "disable", k)
      PROVE SwitchTypes'
  BY <1>2 DEF Decoys!Switch, Decoys!Begin, Decoys!rows, Decoys!service, Decoys!Keys
<1>3. ASSUME NEW r \in Switches, NEW k \in Customs, Decoys!Define(r, "create", k)
      PROVE SwitchTypes'
  BY <1>3 DEF Decoys!Define, Decoys!Begin, Decoys!rows, Decoys!service
<1>4. ASSUME NEW r \in Switches, NEW k \in Customs, Decoys!Define(r, "delete", k)
      PROVE SwitchTypes'
  BY <1>4 DEF Decoys!Define, Decoys!Begin, Decoys!rows, Decoys!service
<1> USE DEF Decoys!At, Decoys!Go, Decoys!Reply, Decoys!NoRequest, Decoys!Trouble,
            Decoys!rows, Decoys!service, Decoys!Open, Decoys!Close
<1>5. ASSUME NEW r \in Switches, Decoys!SetCanaryEnabled(r) PROVE SwitchTypes'
  BY <1>5 DEF Decoys!SetCanaryEnabled
<1>6. ASSUME NEW r \in Switches, Decoys!Enable(r) PROVE SwitchTypes'
  <2>1. PICK turnedAway \in SUBSET (({switch[r].key} \cap Running) \ listening) :
            /\ listening' = listening \cup ((({switch[r].key} \cap Running) \ listening) \ turnedAway)
            /\ failed' = (failed \ (({switch[r].key} \cap Running) \ listening)) \cup turnedAway
    BY <1>6 DEF Decoys!Enable, Decoys!Running
  <2>2. UNCHANGED <<profiles, custom, enabled, serverUp>>
        /\ switch' = [switch EXCEPT ![r] = Decoys!NoRequest]
    BY <1>6 DEF Decoys!Enable
  <2> QED
    BY <2>1, <2>2
<1>7. ASSUME NEW r \in Switches, Decoys!Disable(r) PROVE SwitchTypes'
  BY <1>7 DEF Decoys!Disable
<1>8. ASSUME NEW r \in Switches, Decoys!InsertCustomCanary(r) PROVE SwitchTypes'
  BY <1>8 DEF Decoys!InsertCustomCanary
<1>9. ASSUME NEW r \in Switches, Decoys!CreateCustom(r) PROVE SwitchTypes'
  BY <1>9 DEF Decoys!CreateCustom
<1>10. ASSUME NEW r \in Switches, Decoys!DeleteCustomCanary(r) PROVE SwitchTypes'
  BY <1>10 DEF Decoys!DeleteCustomCanary
<1>11. ASSUME NEW r \in Switches, Decoys!DeleteCustom(r) PROVE SwitchTypes'
  BY <1>11 DEF Decoys!DeleteCustom
<1>12. ASSUME NEW r \in Switches, Decoys!Fail(r) PROVE SwitchTypes'
  BY <1>12 DEF Decoys!Fail
<1>13. CASE Decoys!Stop
  BY <1>13 DEF Decoys!Stop
<1>14. CASE Decoys!Start
  BY <1>14 DEF Decoys!Start
<1>15. CASE Decoys!StartUnread
  BY <1>15 DEF Decoys!StartUnread
<1> QED
  BY <1>0, <1>1, <1>2, <1>3, <1>4, <1>5, <1>6, <1>7, <1>8, <1>9, <1>10, <1>11, <1>12,
     <1>13, <1>14, <1>15, Steps DEF Decoys!Next, Decoys!Handle

\* A canary that a step neither touches nor takes into doubt stays settled; the
\* steps below are looked at for the canary they touch.
LEMMA DecoySettled ==
    ASSUME DecoyInv, [Next]_vars, NEW k \in Catalog \cup Customs
    PROVE  Settled(k)'
<1> USE PartsAssumption DEF DecoyInv, SwitchTypes, Idle, Settled, Owed, Agree, Running
<1>0. CASE UNCHANGED decoyVars
  BY <1>0 DEF decoyVars
<1> USE DEF Decoys!Begin, Decoys!Busy, Decoys!rows, Decoys!service, Decoys!Keys,
            Decoys!NoRequest
<1>1. ASSUME NEW r \in Switches, NEW j \in Decoys!Keys, Decoys!Switch(r, "enable", j)
      PROVE Settled(k)'
  BY <1>1, SMTT(30) DEF Decoys!Switch, Decoys!Running
<1>2. ASSUME NEW r \in Switches, NEW j \in Decoys!Keys, Decoys!Switch(r, "disable", j)
      PROVE Settled(k)'
  BY <1>2 DEF Decoys!Switch
<1>3. ASSUME NEW r \in Switches, NEW j \in Customs, Decoys!Define(r, "create", j)
      PROVE Settled(k)'
  BY <1>3, SMTT(30) DEF Decoys!Define
<1>4. ASSUME NEW r \in Switches, NEW j \in Customs, Decoys!Define(r, "delete", j)
      PROVE Settled(k)'
  BY <1>4, SMTT(30) DEF Decoys!Define
<1> USE DEF Decoys!At, Decoys!Go, Decoys!Reply, Decoys!Trouble,
            Decoys!Open, Decoys!Close, Decoys!Running
<1>5. ASSUME NEW r \in Switches, Decoys!SetCanaryEnabled(r) PROVE Settled(k)'
  <2>1. CASE switch[r].key = k
    BY <1>5, <2>1 DEF Decoys!SetCanaryEnabled
  <2>2. CASE switch[r].key # k
    BY <1>5, <2>2, SMTT(30) DEF Decoys!SetCanaryEnabled
  <2> QED
    BY <2>1, <2>2
<1>6. ASSUME NEW r \in Switches, Decoys!Enable(r) PROVE Settled(k)'
  <2>1. PICK turnedAway \in SUBSET (({switch[r].key} \cap Running) \ listening) :
            /\ listening' = listening \cup ((({switch[r].key} \cap Running) \ listening) \ turnedAway)
            /\ failed' = (failed \ (({switch[r].key} \cap Running) \ listening)) \cup turnedAway
    BY <1>6 DEF Decoys!Enable
  <2>2. CASE switch[r].key = k
    BY <1>6, <2>1, <2>2 DEF Decoys!Enable
  <2>3. CASE switch[r].key # k
    <3>1. /\ k \in listening' <=> k \in listening
          /\ k \in failed' <=> k \in failed
      BY <2>1, <2>3
    <3>2. /\ UNCHANGED <<profiles, enabled, serverUp, astray>>
          /\ switch' = [switch EXCEPT ![r] = Idle]
      BY <1>6 DEF Decoys!Enable
    <3>3. /\ \A q \in Switches : switch'[q].key = k => switch'[q] = switch[q]
          /\ \A q \in Switches : switch[q].key = k => switch'[q] = switch[q]
      BY <3>2, <2>3
    <3>4. Agree(k)' <=> Agree(k)
      BY <3>1, <3>2
    <3> QED
      BY <3>2, <3>3, <3>4
  <2> QED
    BY <2>2, <2>3
<1>7. ASSUME NEW r \in Switches, Decoys!Disable(r) PROVE Settled(k)'
  BY <1>7 DEF Decoys!Disable
<1>8. ASSUME NEW r \in Switches, Decoys!InsertCustomCanary(r) PROVE Settled(k)'
  BY <1>8 DEF Decoys!InsertCustomCanary
<1>9. ASSUME NEW r \in Switches, Decoys!CreateCustom(r) PROVE Settled(k)'
  BY <1>9 DEF Decoys!CreateCustom
<1>10. ASSUME NEW r \in Switches, Decoys!DeleteCustomCanary(r) PROVE Settled(k)'
  BY <1>10 DEF Decoys!DeleteCustomCanary
<1>11. ASSUME NEW r \in Switches, Decoys!DeleteCustom(r) PROVE Settled(k)'
  BY <1>11 DEF Decoys!DeleteCustom
<1>12. ASSUME NEW r \in Switches, Decoys!Fail(r) PROVE Settled(k)'
  BY <1>12 DEF Decoys!Fail
<1>13. CASE Decoys!Stop
  BY <1>13 DEF Decoys!Stop
<1>14. CASE Decoys!Start
  BY <1>14 DEF Decoys!Start
<1>15. CASE Decoys!StartUnread
  BY <1>15, SMTT(30) DEF Decoys!StartUnread
<1> QED
  BY <1>0, <1>1, <1>2, <1>3, <1>4, <1>5, <1>6, <1>7, <1>8, <1>9, <1>10, <1>11, <1>12,
     <1>13, <1>14, <1>15, Steps DEF Decoys!Next, Decoys!Handle

LEMMA DecoyStep == DecoyInv /\ [Next]_vars => DecoyInv'
<1> SUFFICES ASSUME DecoyInv, [Next]_vars PROVE DecoyInv'
  OBVIOUS
<1>1. SwitchTypes'
  BY DecoyTypes
<1>2. (~serverUp => listening = {} /\ failed = {} /\ \A r \in Switches : switch[r] = Idle)'
  <2> USE DEF DecoyInv, Idle
  <2>1. CASE UNCHANGED decoyVars
    BY <2>1 DEF decoyVars
  <2>2. CASE Decoys!Stop
    <3>1. listening \subseteq Catalog \cup Customs /\ failed \subseteq Catalog \cup Customs
      BY DEF SwitchTypes
    <3> QED
      BY <2>2, <3>1 DEF Decoys!Stop, Decoys!Close, Decoys!Keys, Decoys!NoRequest
  <2>3. CASE serverUp /\ serverUp'
    BY <2>3
  <2>4. CASE Decoys!Start \/ Decoys!StartUnread
    BY <2>4 DEF Decoys!Start, Decoys!StartUnread
  <2>5. CASE Decoys!Next /\ ~Decoys!Stop /\ ~Decoys!Start /\ ~Decoys!StartUnread
    <3>1. UNCHANGED serverUp /\ serverUp
      BY <2>5 DEF Decoys!Next, Decoys!Handle, Decoys!Switch, Decoys!Define, Decoys!Begin,
         Decoys!SetCanaryEnabled, Decoys!Enable, Decoys!Disable, Decoys!InsertCustomCanary,
         Decoys!CreateCustom, Decoys!DeleteCustomCanary, Decoys!DeleteCustom, Decoys!Fail,
         Decoys!At
    <3> QED
      BY <3>1
  <2> QED
    BY <2>1, <2>2, <2>3, <2>4, <2>5, Steps
<1> QED
  BY <1>1, <1>2, DecoySettled DEF DecoyInv

\* Whatever statements fail and whenever the server stops, for any number of
\* canaries and handlers, a canary that no two handlers worked on at once has
\* a listener, or an error of its port, exactly when it is switched on
\* (twire/service.go: Enable, Disable, CreateCustom, DeleteCustom, Start).
THEOREM SwitchedIsListening == Spec => []ListensAsStored
<1>1. Init => DecoyInv
  BY PartsAssumption DEF Init, Decoys!Init, Decoys!NoRequest, DecoyInv, SwitchTypes, Idle,
     Settled, Agree, Running
<1>2. DecoyInv => ListensAsStored
  BY PartsAssumption DEF DecoyInv, SwitchTypes, Settled, Agree, Running, ListensAsStored,
     Decoys!ListensAsStored, Decoys!Keys, Decoys!Busy, Decoys!Running
<1> QED
  BY <1>1, <1>2, DecoyStep, PTL DEF Spec

-----------------------------------------------------------------------------
(* Libraries.  A document a turn has checked and not read yet is the one   *)
(* its id stands for, or gone for good: an id is given out once.           *)

LibraryInv ==
    /\ nextDoc \in Nat
    /\ DOMAIN documents \subseteq {d \in Nat : d < nextDoc}
    /\ DOMAIN passages = DOMAIN documents
    /\ \A d \in DOMAIN documents : passages[d] = documents[d].content
    /\ DOMAIN turn = Sessions
    /\ \A s \in Sessions : turn[s].at = "passages" =>
        /\ turn[s].doc \in Nat /\ turn[s].doc < nextDoc
        /\ turn[s].doc \in DOMAIN documents =>
            /\ documents[turn[s].doc].agent = turn[s].agent
            /\ documents[turn[s].doc].content = turn[s].opened

LEMMA LibraryStep == LibraryInv /\ [Next]_vars => LibraryInv'
<1> SUFFICES ASSUME LibraryInv, [Next]_vars PROVE LibraryInv'
  OBVIOUS
<1> USE DEF LibraryInv, Libraries!library
<1>0. CASE UNCHANGED libraryVars
  BY <1>0 DEF libraryVars
<1>1. ASSUME NEW a \in Agents, Libraries!CreateAgent(a) PROVE LibraryInv'
  BY <1>1 DEF Libraries!CreateAgent
<1>2. ASSUME NEW a \in Agents, Libraries!DeleteAgent(a) PROVE LibraryInv'
  BY <1>2 DEF Libraries!DeleteAgent, Libraries!Keep, Libraries!Restrict
<1>3. ASSUME NEW a \in Agents, Libraries!Detach(a) PROVE LibraryInv'
  BY <1>3 DEF Libraries!Detach
<1> USE DEF Libraries!Turn, Libraries!NoTurn
<1>4. ASSUME NEW s \in Sessions, NEW a \in Agents, Libraries!Resolve(s, a) PROVE LibraryInv'
  BY <1>4 DEF Libraries!Resolve
<1>5. ASSUME NEW s \in Sessions, Libraries!Open(s) PROVE LibraryInv'
  BY <1>5 DEF Libraries!Open
<1>6. ASSUME NEW s \in Sessions, Libraries!BeginTurn(s) PROVE LibraryInv'
  BY <1>6 DEF Libraries!BeginTurn
<1>7. ASSUME NEW s \in Sessions, Libraries!EndTurn(s) PROVE LibraryInv'
  BY <1>7 DEF Libraries!EndTurn
<1>8. ASSUME NEW s \in Sessions, NEW d \in DOMAIN documents, Libraries!OpenDocument(s, d)
      PROVE LibraryInv'
  BY <1>8 DEF Libraries!OpenDocument, Libraries!Of
<1>9. ASSUME NEW s \in Sessions, Libraries!ReadPassages(s) PROVE LibraryInv'
  BY <1>9 DEF Libraries!ReadPassages
<1>10. ASSUME NEW u \in Uploads, NEW a, NEW c, Libraries!BeginUpload(u, a, c)
       PROVE LibraryInv'
  BY <1>10 DEF Libraries!BeginUpload
<1>11. ASSUME NEW u \in Uploads, Libraries!LookForDuplicate(u) PROVE LibraryInv'
  BY <1>11 DEF Libraries!LookForDuplicate
<1>12. ASSUME NEW u \in Uploads, Libraries!AddDocument(u) PROVE LibraryInv'
  <2>1. CASE UNCHANGED <<documents, passages, nextDoc>>
    BY <1>12, <2>1 DEF Libraries!AddDocument
  <2>2. CASE ~UNCHANGED <<documents, passages, nextDoc>>
    <3> DEFINE new == [agent |-> upload[u].agent, content |-> upload[u].content]
               With(table, row) == [d \in DOMAIN table \cup {nextDoc} |->
                                        IF d = nextDoc THEN row ELSE table[d]]
    <3>1. /\ UNCHANGED turn
          /\ nextDoc' = nextDoc + 1
          /\ documents' = With(documents, new)
          /\ passages' = With(passages, new.content)
      BY <1>12, <2>2 DEF Libraries!AddDocument, Libraries!NextDocument
    <3>2. /\ DOMAIN documents' = DOMAIN documents \cup {nextDoc}
          /\ DOMAIN passages' = DOMAIN passages \cup {nextDoc}
          /\ documents'[nextDoc] = new /\ passages'[nextDoc] = new.content
          /\ \A d \in DOMAIN documents : documents'[d] = documents[d]
                                        /\ passages'[d] = passages[d]
      BY <3>1
    <3> QED
      BY <3>1, <3>2, SMTT(30)
  <2> QED
    BY <2>1, <2>2
<1>13. ASSUME NEW d \in DOMAIN documents, Libraries!DeleteDocument(d) PROVE LibraryInv'
  BY <1>13 DEF Libraries!DeleteDocument, Libraries!Keep, Libraries!Restrict
<1> QED
  BY <1>0, <1>1, <1>2, <1>3, <1>4, <1>5, <1>6, <1>7, <1>8, <1>9, <1>10, <1>11, <1>12,
     <1>13, Steps DEF Libraries!Next

\* However documents, passages and agents come and go between the check of a
\* document and the read of its passages, a turn reads its own agent's text of
\* the checked document, or nothing (knowledge/service.go: ReadDocument).
THEOREM OwnLibrary == Spec => []OwnLibraryOnly
<1>1. Init => LibraryInv
  BY DEF Init, Libraries!Init, Libraries!NoTurn, LibraryInv
<1>2. LibraryInv => OwnLibraryOnly
  BY DEF LibraryInv, OwnLibraryOnly, Libraries!OwnLibraryOnly
<1> QED
  BY <1>1, <1>2, LibraryStep, PTL DEF Spec

-----------------------------------------------------------------------------
(* Reviews.  A row that a pass has sent is not handed to a new review      *)
(* before that pass is done with it.                                       *)

ReviewInv ==
    /\ rows \in [ReviewRows -> {"free", "new", "sent"}]
    /\ DOMAIN pass = Cycles \cup {"scan"}
    /\ \A p \in Cycles \cup {"scan"} :
        /\ {"at", "mail"} \subseteq DOMAIN pass[p]
        /\ pass[p].mail \subseteq ReviewRows
        /\ pass[p].at = "stamping" => \A r \in pass[p].mail : rows[r] # "new"

\* A pass becomes another, and keeps the invariant while it is not stamping.
LEMMA PassBecomes ==
    ASSUME ReviewInv, NEW p \in Cycles \cup {"scan"}, NEW new, Revs!Become(p, new),
           {"at", "mail"} \subseteq DOMAIN new, new.mail \subseteq ReviewRows,
           new.at # "stamping", UNCHANGED rows
    PROVE  ReviewInv'
BY DEF ReviewInv, Revs!Become

\* A step of a pass, and what it may do to the reviews.
LEMMA ReviewStep ==
    ASSUME ReviewInv, [Next]_vars
    PROVE  /\ ReviewInv'
           /\ \A r \in ReviewRows : rows[r] # "free" /\ rows'[r] = "free" => rows[r] = "sent"
<1> DEFINE Told == \A r \in ReviewRows : rows[r] # "free" /\ rows'[r] = "free" => rows[r] = "sent"
<1>u. UNCHANGED rows => Told
  OBVIOUS
<1>k. UNCHANGED <<pass, rows>> => ReviewInv'
  BY DEF ReviewInv
<1>p. ASSUME NEW p \in Cycles \cup {"scan"}
      PROVE  /\ {"at", "mail"} \subseteq DOMAIN pass[p] /\ pass[p].mail \subseteq ReviewRows
             /\ {"at", "mail"} \subseteq DOMAIN Revs!Idle /\ Revs!Idle.mail \subseteq ReviewRows
             /\ Revs!Idle.at = "idle"
  BY DEF ReviewInv, Revs!Idle
<1>1. CASE UNCHANGED reviewVars
  BY <1>1, <1>u, <1>k DEF reviewVars
<1>2. ASSUME NEW s \in Symbols, Revs!AddToWatchlist(s) \/ Revs!RemoveFromWatchlist(s)
      PROVE  ReviewInv' /\ Told
  BY <1>2, <1>u, <1>k DEF Revs!AddToWatchlist, Revs!RemoveFromWatchlist
<1>3. CASE Revs!SetReviewConfig
  BY <1>3, <1>u, <1>k DEF Revs!SetReviewConfig
<1>4. ASSUME NEW f \in Forecasts, Revs!Mature(f) \/ Revs!DeleteForecast(f)
      PROVE  ReviewInv' /\ Told
  BY <1>4, <1>u, <1>k DEF Revs!Mature, Revs!DeleteForecast
<1>5. ASSUME NEW p \in Cycles \cup {"scan"}, Revs!BeginPass(p) PROVE ReviewInv' /\ Told
  <2> DEFINE new == [Revs!Idle EXCEPT !.at = "scoring",
                                      !.due = { f \in Forecasts : forecasts[f] = "due" }]
  <2>1. Revs!Become(p, new) /\ UNCHANGED rows
    BY <1>5 DEF Revs!BeginPass
  <2>2. {"at", "mail"} \subseteq DOMAIN new /\ new.mail \subseteq ReviewRows /\ new.at = "scoring"
    BY <1>p DEF Revs!Idle
  <2> HIDE DEF new
  <2> QED
    BY <2>1, <2>2, <1>u, PassBecomes
<1>6. ASSUME NEW p \in Cycles \cup {"scan"}, Revs!EvaluateForecast(p) PROVE ReviewInv' /\ Told
  <2>1. PICK f \in pass[p].due : Revs!Become(p, [pass[p] EXCEPT !.due = @ \ {f}])
    BY <1>6 DEF Revs!EvaluateForecast
  <2> DEFINE new == [pass[p] EXCEPT !.due = @ \ {f}]
  <2>2. {"at", "mail"} \subseteq DOMAIN new /\ new.mail \subseteq ReviewRows /\ new.at = "scoring"
    BY <1>p, <1>6 DEF Revs!EvaluateForecast
  <2>3. UNCHANGED rows
    BY <1>6 DEF Revs!EvaluateForecast
  <2>4. Revs!Become(p, new)
    BY <2>1
  <2> HIDE DEF new
  <2> QED
    BY <2>4, <2>2, <2>3, <1>u, PassBecomes
<1>7. CASE Revs!GenerateDue
  <2>1. PICK todo : Revs!Become("scan", [pass["scan"] EXCEPT !.at = "forecasting",
                                                             !.todo = todo])
    BY <1>7 DEF Revs!GenerateDue
  <2> DEFINE new == [pass["scan"] EXCEPT !.at = "forecasting", !.todo = todo]
  <2>2. {"at", "mail"} \subseteq DOMAIN new /\ new.mail \subseteq ReviewRows /\ new.at = "forecasting"
    BY <1>p
  <2>3. UNCHANGED rows
    BY <1>7 DEF Revs!GenerateDue
  <2>4. Revs!Become("scan", new)
    BY <2>1
  <2> HIDE DEF new
  <2> QED
    BY <2>4, <2>2, <2>3, <1>u, PassBecomes
<1>8. CASE Revs!ScanForecasts
  <2> DEFINE new == [pass["scan"] EXCEPT !.todo = Tail(@)]
  <2>1. Revs!Become("scan", Revs!Idle) \/ Revs!Become("scan", new)
    BY <1>8 DEF Revs!ScanForecasts
  <2>2. {"at", "mail"} \subseteq DOMAIN new /\ new.mail \subseteq ReviewRows /\ new.at = "forecasting"
    BY <1>p, <1>8 DEF Revs!ScanForecasts
  <2>3. UNCHANGED rows
    BY <1>8 DEF Revs!ScanForecasts
  <2> HIDE DEF new
  <2> QED
    BY <2>1, <2>2, <2>3, <1>u, <1>p, PassBecomes
<1>9. ASSUME NEW c \in Cycles, Revs!BeginReviews(c) PROVE ReviewInv' /\ Told
  <2>1. PICK held : Revs!Become(c, [Revs!Idle EXCEPT !.at = "reviewing",
                                         !.todo = Revs!Capped(Revs!CollectTargets(held))])
    BY <1>9 DEF Revs!BeginReviews
  <2> DEFINE new == [Revs!Idle EXCEPT !.at = "reviewing",
                                      !.todo = Revs!Capped(Revs!CollectTargets(held))]
  <2>2. {"at", "mail"} \subseteq DOMAIN new /\ new.mail \subseteq ReviewRows /\ new.at = "reviewing"
    BY <1>p DEF Revs!Idle
  <2>3. UNCHANGED rows
    BY <1>9 DEF Revs!BeginReviews
  <2>4. Revs!Become(c, new)
    BY <2>1
  <2> HIDE DEF new
  <2> QED
    BY <2>4, <2>2, <2>3, <1>u, PassBecomes
<1>10. ASSUME NEW c \in Cycles, Revs!CreateForecast(c) PROVE ReviewInv' /\ Told
  <2>1. PICK f : Revs!Become(c, [pass[c] EXCEPT !.at = "rating", !.made = f])
    BY <1>10 DEF Revs!CreateForecast
  <2> DEFINE new == [pass[c] EXCEPT !.at = "rating", !.made = f]
  <2>2. {"at", "mail"} \subseteq DOMAIN new /\ new.mail \subseteq ReviewRows /\ new.at = "rating"
    BY <1>p
  <2>3. UNCHANGED rows
    BY <1>10 DEF Revs!CreateForecast
  <2>4. Revs!Become(c, new)
    BY <2>1
  <2> HIDE DEF new
  <2> QED
    BY <2>4, <2>2, <2>3, <1>u, PassBecomes
<1>n. ASSUME NEW c \in Cycles
      PROVE  /\ {"at", "mail"} \subseteq DOMAIN Revs!NextTarget(c)
             /\ Revs!NextTarget(c).mail = {} /\ Revs!NextTarget(c).at = "reviewing"
  BY DEF Revs!NextTarget, Revs!Idle
<1>11. ASSUME NEW c \in Cycles, Revs!InsertReview(c) PROVE ReviewInv' /\ Told
  <2>1. CASE UNCHANGED rows
    BY <1>11, <2>1, <1>n, <1>u, PassBecomes DEF Revs!InsertReview
  <2>2. ASSUME NEW r \in ReviewRows, rows[r] = "free", r \notin Revs!HeldRows,
               rows' = [rows EXCEPT ![r] = "new"]
        PROVE  ReviewInv' /\ Told
    <3>1. \A p \in Cycles \cup {"scan"} : r \notin pass[p].mail
      BY <2>2 DEF Revs!HeldRows, Revs!Passes
    <3>2. Told
      BY <2>2 DEF ReviewInv
    <3>3. pass' = [pass EXCEPT ![c] = Revs!NextTarget(c)]
      BY <1>11 DEF Revs!InsertReview, Revs!Become
    <3> QED
      BY <2>2, <3>1, <3>2, <3>3, <1>n DEF ReviewInv
  <2>3. UNCHANGED rows \/ \E r \in Revs!Unused(rows, Revs!HeldRows) :
            rows' = IF r = Revs!Untracked THEN rows ELSE [rows EXCEPT ![r] = "new"]
    BY <1>11 DEF Revs!InsertReview
  <2>4. \A r \in Revs!Unused(rows, Revs!HeldRows) :
            \/ r = Revs!Untracked
            \/ r \in ReviewRows /\ rows[r] = "free" /\ r \notin Revs!HeldRows
    <3> DEFINE free == { x \in DOMAIN rows : rows[x] = "free" /\ x \notin Revs!HeldRows }
    <3>1. Revs!Unused(rows, Revs!HeldRows) = IF free = {} THEN {Revs!Untracked} ELSE free
      BY Zenon DEF Revs!Unused
    <3>2. \A r \in free : r \in ReviewRows /\ rows[r] = "free" /\ r \notin Revs!HeldRows
      BY DEF ReviewInv
    <3>3. ASSUME NEW r \in Revs!Unused(rows, Revs!HeldRows)
          PROVE  r = Revs!Untracked \/ r \in free
      BY <3>1
    <3> QED
      BY <3>2, <3>3
  <2> QED
    BY <2>1, <2>2, <2>3, <2>4
<1>12. ASSUME NEW c \in Cycles, Revs!HoldDigest(c) PROVE ReviewInv' /\ Told
  BY <1>12, <1>u, <1>p, PassBecomes DEF Revs!HoldDigest
<1>13. ASSUME NEW c \in Cycles, Revs!ComposeDigest(c) PROVE ReviewInv' /\ Told
  <2> DEFINE new == [Revs!Idle EXCEPT !.at = "sending", !.mail = Revs!Unreported]
  <2>1. Revs!Become(c, new) /\ UNCHANGED rows
    BY <1>13 DEF Revs!ComposeDigest
  <2>2. {"at", "mail"} \subseteq DOMAIN new /\ new.mail \subseteq ReviewRows /\ new.at = "sending"
    BY DEF Revs!Idle, Revs!Unreported
  <2> HIDE DEF new
  <2> QED
    BY <2>1, <2>2, <1>u, PassBecomes
<1>14. ASSUME NEW c \in Cycles, Revs!Send(c) PROVE ReviewInv' /\ Told
  <2> DEFINE new == [pass[c] EXCEPT !.at = "stamping"]
  <2>1. pass' = [pass EXCEPT ![c] = new]
    BY <1>14 DEF Revs!Send, Revs!Become
  <2>2. {"at", "mail"} \subseteq DOMAIN new /\ new.mail = pass[c].mail
    BY <1>p
  <2> HIDE DEF new
  <2>3. rows' = [r \in ReviewRows |-> IF r \in pass[c].mail /\ rows[r] = "new"
                                      THEN "sent" ELSE rows[r]]
    BY <1>14 DEF Revs!Send
  <2>4. rows' \in [ReviewRows -> {"free", "new", "sent"}]
    BY <2>3 DEF ReviewInv
  <2>5. \A r \in ReviewRows : /\ rows'[r] = "new" => rows[r] = "new"
                              /\ r \in pass[c].mail => rows'[r] # "new"
                              /\ rows'[r] = "free" => rows[r] = "free"
    BY <2>3 DEF ReviewInv
  <2> QED
    BY <2>1, <2>2, <2>4, <2>5 DEF ReviewInv
<1>15. ASSUME NEW c \in Cycles, Revs!MarkReviewsReported(c) PROVE ReviewInv' /\ Told
  <2>1. rows' = [r \in ReviewRows |-> IF r \in pass[c].mail THEN "free" ELSE rows[r]]
    BY <1>15 DEF Revs!MarkReviewsReported
  <2>2. pass' = [pass EXCEPT ![c] = Revs!Idle] /\ pass[c].at = "stamping"
    BY <1>15 DEF Revs!MarkReviewsReported, Revs!Become
  <2>3. rows' \in [ReviewRows -> {"free", "new", "sent"}]
    BY <2>1 DEF ReviewInv
  <2>4. \A r \in ReviewRows : rows'[r] = "new" => rows[r] = "new"
    BY <2>1 DEF ReviewInv
  <2>5. \A r \in pass[c].mail : rows[r] # "new"
    BY <2>2 DEF ReviewInv
  <2>6. Told
    BY <2>1, <2>5 DEF ReviewInv
  <2> QED
    BY <2>2, <2>3, <2>4, <2>6, <1>p DEF ReviewInv
<1>16. ASSUME NEW c \in Cycles, Revs!SkipTarget(c) PROVE ReviewInv' /\ Told
  BY <1>16, <1>n, <1>u, PassBecomes DEF Revs!SkipTarget
<1>17. ASSUME NEW p \in Cycles \cup {"scan"}, Revs!Interrupt(p) PROVE ReviewInv' /\ Told
  BY <1>17, <1>p, <1>u, PassBecomes DEF Revs!Interrupt
<1>s. CASE Revs!ScanStep
  BY <1>s, <1>5, <1>6, <1>7, <1>8 DEF Revs!ScanStep
<1>c. ASSUME NEW c \in Cycles, Revs!CycleStep(c) PROVE ReviewInv' /\ Told
  BY <1>c, <1>5, <1>6, <1>9, <1>10, <1>11, <1>12, <1>13, <1>14, <1>15 DEF Revs!CycleStep
<1> QED
  BY <1>1, <1>2, <1>3, <1>4, <1>s, <1>c, <1>16, <1>17, Steps DEF Revs!Next, Revs!Passes

\* Whatever cycles overlap, and however each is cut short, for any number of
\* cycles and of reviews: none is stamped as reported before a digest with it
\* was sent (review.go: deliverPendingReviews).
THEOREM ReportedWasSent == Spec => StampedWasSent
<1>1. Init => ReviewInv
  BY DEF Init, Revs!Init, Revs!Idle, Revs!Passes, ReviewInv
<1>2. ReviewInv /\ [Next]_vars => ReviewInv'
  BY ReviewStep
<1>3. ReviewInv /\ [Next]_vars =>
        [\A r \in ReviewRows : rows[r] # "free" /\ rows'[r] = "free" => rows[r] = "sent"]_(Revs!vars)
  BY ReviewStep
<1> QED
  BY <1>1, <1>2, <1>3, PTL DEF Spec, StampedWasSent, Revs!StampedWasSent

-----------------------------------------------------------------------------
(* Backups.  The newest two directories are kept, and only the backup on   *)
(* demand can still be at work in one of them: the other is a whole copy.  *)

LEMMA GreatestOf ==
    ASSUME NEW n \in Nat, NEW S \in SUBSET (1 .. n), S # {}
    PROVE  \E m \in S : \A q \in S : q <= m
<1> DEFINE below == { n - x : x \in S }
<1>1. below \in SUBSET Nat /\ below # {}
  <2>1. \A x \in S : n - x \in Nat
    OBVIOUS
  <2> QED
    BY <2>1
<1>2. PICK k \in below : \A q \in below : k <= q
  BY <1>1, LeastOf
<1>3. PICK m \in S : k = n - m
  BY <1>2
<1>4. ASSUME NEW q \in S PROVE q <= m
  <2>1. n - m <= n - q
    BY <1>2, <1>3
  <2> QED
    BY <2>1
<1> QED
  BY <1>4

Written == {"vacuum", "writing", "check", "manifest"}
AtWork(c) == task[c].at \in Written
Whole(d) ==
    copy[d] = "copy" /\ \A c \in {"timer", "manual"} : AtWork(c) => task[c].dir # d

\* What a backup at work has made of its directory: that, or it was removed.
Found(c) ==
    /\ task[c].at = "vacuum" => copy[task[c].dir] \in {"none", "absent"}
    /\ task[c].at = "writing" => copy[task[c].dir] \in {"part", "absent"}
    /\ task[c].at \in {"check", "manifest"} => copy[task[c].dir] \in {"copy", "absent"}
    /\ AtWork(c) /\ copy[task[c].dir] = "absent" => task[c].dir < now

Chores ==
    [at : {"idle", "vacuum", "writing", "check", "manifest", "list", "prune"},
     dir : 1 .. Seconds, doomed : SUBSET (1 .. Seconds)]

BackupTypes ==
    /\ now \in 1 .. Seconds
    /\ copy \in [1 .. Seconds -> {"absent", "none", "part", "copy"}]
    /\ task \in [{"timer", "manual"} -> Chores]
    /\ reported \in BOOLEAN /\ sameSecond \in BOOLEAN

\* A directory newer than the timer's holds a copy, or is at work on one.
NewerAreCopies ==
    \A d \in 1 .. Seconds : d > task["timer"].dir /\ copy[d] # "absent" =>
        \/ copy[d] = "copy"
        \/ AtWork("manual") /\ task["manual"].dir = d

BackupShape ==
    /\ \A d \in 1 .. Seconds : copy[d] # "absent" => d <= now
    /\ \A c \in {"timer", "manual"} : task[c].dir <= now /\ Found(c)
    /\ \A d \in task["timer"].doomed : d < now
    /\ AtWork("timer") /\ AtWork("manual") => task["timer"].dir # task["manual"].dir
    /\ task["timer"].at \in Written \cup {"list"} => NewerAreCopies
    /\ task["timer"].at = "list" => Whole(task["timer"].dir) /\ KeptCopies > 0
    /\ task["timer"].at = "prune" =>
           \E d \in 1 .. Seconds : d \notin task["timer"].doomed /\ Whole(d)
    /\ reported => \E d \in 1 .. Seconds : Whole(d)

BackupInv == BackupTypes /\ (~sameSecond => BackupShape)

LEMMA SameCardinality == \A S : Copies!Cardinality(S) = Cardinality(S)
BY DEF Copies!Cardinality, Cardinality

\* Retention leaves a whole copy if it keeps two directories or more.
LEMMA OneIsKept ==
    ASSUME BackupTypes, BackupShape, task["timer"].at = "list", KeptCopies # 1
    PROVE  \E d \in 1 .. Seconds : d \notin Copies!Doomed /\ Whole(d)
<1> DEFINE t == task["timer"].dir
           newer == { d \in Copies!Present : d > t }
<1>1. t \in 1 .. Seconds /\ Whole(t) /\ KeptCopies \in Nat /\ KeptCopies >= 2 /\ NewerAreCopies
  BY PartsAssumption DEF BackupTypes, BackupShape, Chores
<1>2. Copies!Present \subseteq 1 .. Seconds
  BY DEF Copies!Present, Copies!Dirs
<1>3. CASE t \notin Copies!Doomed
  BY <1>1, <1>3
<1>4. CASE t \in Copies!Doomed
  <2>1. Cardinality(newer) >= 2
    <3>1. Copies!Newer(t) = newer
      BY DEF Copies!Newer
    <3>2. Cardinality(Copies!Newer(t)) >= KeptCopies
      BY <1>4, Zenon, SameCardinality DEF Copies!Doomed
    <3>3. IsFiniteSet(newer)
      <4>1. IsFiniteSet(1 .. Seconds)
        BY PartsAssumption, FS_Interval
      <4>2. newer \subseteq 1 .. Seconds
        BY <1>2
      <4> QED
        BY <4>1, <4>2, FS_Subset
    <3>4. Cardinality(newer) \in Nat
      BY <3>3, FS_CardinalityType
    <3> QED
      BY <3>1, <3>2, <3>4, <1>1
  <2>2. newer # {} /\ \A x : newer # {x}
    BY <2>1, FS_EmptySet, FS_Singleton
  <2>3. PICK m \in newer : \A q \in newer : q <= m
    BY <2>2, <1>2, PartsAssumption, GreatestOf
  <2>4. newer \ {m} # {}
    BY <2>2, <2>3
  <2>5. PICK k \in newer \ {m} : \A q \in newer \ {m} : q <= k
    BY <2>4, <1>2, PartsAssumption, GreatestOf
  <2>n. \A x : x \in newer <=> x \in Copies!Present /\ x > t
    OBVIOUS
  <2>i. \A x \in Copies!Present : x \in Int /\ t \in Int
    BY <1>1, <1>2
  <2> HIDE DEF newer, t
  <2>6. Copies!Newer(m) = {}
    <3>1. \A e \in Copies!Present : ~ (e > m)
      BY <2>3, <2>i, <2>n
    <3> QED
      BY <3>1 DEF Copies!Newer
  <2>7. Copies!Newer(k) = {m}
    <3>1. m \in Copies!Present /\ k \in Copies!Present /\ m > k
      BY <2>3, <2>5, <2>i, <2>n
    <3>2. \A e \in Copies!Present : e > k => e = m
      BY <2>3, <2>5, <2>i, <2>n
    <3> QED
      BY <3>1, <3>2 DEF Copies!Newer
  <2>8. m \notin Copies!Doomed /\ k \notin Copies!Doomed
    <3>1. Cardinality(Copies!Newer(m)) = 0 /\ Cardinality(Copies!Newer(k)) = 1
      BY <2>6, <2>7, FS_EmptySet, FS_Singleton
    <3>2. ~(0 >= KeptCopies) /\ ~(1 >= KeptCopies)
      BY <1>1
    <3>3. \A d \in Copies!Doomed : Cardinality(Copies!Newer(d)) >= KeptCopies
      BY Zenon, SameCardinality DEF Copies!Doomed
    <3> QED
      BY <3>1, <3>2, <3>3
  <2>9. ASSUME NEW d \in newer, ~(AtWork("manual") /\ task["manual"].dir = d)
        PROVE  d \in 1 .. Seconds /\ Whole(d)
    <3>1. copy[d] # "absent" /\ d \in 1 .. Seconds /\ d > t
      BY <1>2, <2>n DEF Copies!Present
    <3>2. copy[d] = "copy"
      BY <3>1, <2>9, <1>1 DEF NewerAreCopies, t
    <3>3. task["timer"].dir # d
      BY <3>1, <1>1 DEF t
    <3> QED
      BY <3>1, <3>2, <3>3, <2>9 DEF Whole
  <2> QED
    BY <2>3, <2>5, <2>8, <2>9
<1> QED
  BY <1>3, <1>4

\* What a task does to itself, and to a directory.
LEMMA Returns ==
    ASSUME BackupTypes, NEW c \in {"timer", "manual"}, Copies!Return(c)
    PROVE  /\ task' \in [{"timer", "manual"} -> Chores]
           /\ task'[c].at = "idle" /\ task'[c].dir = 1 /\ task'[c].doomed = {}
           /\ \A k \in {"timer", "manual"} : k # c => task'[k] = task[k]
<1>1. Copies!Idle \in Chores
  BY PartsAssumption DEF Copies!Idle, Chores
<1>2. task' = [task EXCEPT ![c] = Copies!Idle]
  BY DEF Copies!Return
<1>3. Copies!Idle.at = "idle" /\ Copies!Idle.dir = 1 /\ Copies!Idle.doomed = {}
  BY DEF Copies!Idle
<1> QED
  BY <1>1, <1>2, <1>3 DEF BackupTypes

LEMMA Goes ==
    ASSUME BackupTypes, NEW c \in {"timer", "manual"},
           NEW at \in {"writing", "check", "manifest", "list"}, Copies!Go(c, at)
    PROVE  /\ task' \in [{"timer", "manual"} -> Chores]
           /\ task'[c].at = at /\ task'[c].dir = task[c].dir
           /\ task'[c].doomed = task[c].doomed
           /\ \A k \in {"timer", "manual"} : k # c => task'[k] = task[k]
<1> DEFINE new == [task[c] EXCEPT !.at = at]
<1>1. task[c] \in Chores
  BY DEF BackupTypes
<1>2. new \in Chores /\ new.at = at /\ new.dir = task[c].dir /\ new.doomed = task[c].doomed
  BY <1>1 DEF Chores
<1>3. task' = [task EXCEPT ![c] = new]
  BY DEF Copies!Go
<1> HIDE DEF new
<1> QED
  BY <1>2, <1>3 DEF BackupTypes

LEMMA Removes ==
    ASSUME BackupTypes, NEW d \in 1 .. Seconds, Copies!RemoveAll(d)
    PROVE  /\ copy' \in [1 .. Seconds -> {"absent", "none", "part", "copy"}]
           /\ copy'[d] = "absent" /\ \A e \in 1 .. Seconds : e # d => copy'[e] = copy[e]
BY DEF BackupTypes, Copies!RemoveAll

LEMMA MinIn ==
    ASSUME NEW S \in SUBSET (1 .. Seconds), S # {}
    PROVE  Copies!Min(S) \in S
<1>1. PICK m \in S : \A q \in S : m <= q
  BY LeastOf
<1> QED
  BY <1>1 DEF Copies!Min

LEMMA Begins ==
    ASSUME BackupTypes, NEW c \in {"timer", "manual"}, Copies!Backup(c)
    PROVE  /\ task' \in [{"timer", "manual"} -> Chores]
           /\ task'[c].at = "vacuum" /\ task'[c].dir = now /\ task'[c].doomed = {}
           /\ \A k \in {"timer", "manual"} : k # c => task'[k] = task[k]
           /\ copy' \in [1 .. Seconds -> {"absent", "none", "part", "copy"}]
           /\ copy[now] = "absent" => copy'[now] = "none"
           /\ \A e \in 1 .. Seconds : e # now => copy'[e] = copy[e]
           /\ sameSecond' = (sameSecond \/ copy[now] # "absent")
           /\ now' = now /\ reported' = reported
<1> DEFINE new == [Copies!Idle EXCEPT !.at = "vacuum", !.dir = now]
<1>1. new \in Chores /\ new.at = "vacuum" /\ new.dir = now /\ new.doomed = {}
  BY DEF Copies!Idle, Chores, BackupTypes
<1>2. task' = [task EXCEPT ![c] = new]
  BY DEF Copies!Backup
<1> HIDE DEF new
<1>3. copy' = [copy EXCEPT ![now] = IF copy[now] = "absent" THEN "none" ELSE copy[now]]
  BY DEF Copies!Backup
<1>4. now \in Copies!Present <=> copy[now] # "absent"
  BY DEF Copies!Present, Copies!Dirs, BackupTypes
<1>5. /\ task' \in [{"timer", "manual"} -> Chores] /\ task'[c] = new
      /\ \A k \in {"timer", "manual"} : k # c => task'[k] = task[k]
  BY <1>1, <1>2 DEF BackupTypes
<1>6. /\ copy' \in [1 .. Seconds -> {"absent", "none", "part", "copy"}]
      /\ copy[now] = "absent" => copy'[now] = "none"
      /\ \A e \in 1 .. Seconds : e # now => copy'[e] = copy[e]
  BY <1>3 DEF BackupTypes
<1>7. sameSecond' = (sameSecond \/ copy[now] # "absent") /\ now' = now /\ reported' = reported
  BY <1>4 DEF Copies!Backup
<1> QED
  BY <1>1, <1>5, <1>6, <1>7

\* One directory of those that are doomed goes, or retention ends.
LEMMA Thins ==
    ASSUME BackupTypes, Copies!RemoveOld
    PROVE  /\ task["timer"].at = "prune"
           /\ task' \in [{"timer", "manual"} -> Chores] /\ task'["manual"] = task["manual"]
           /\ copy' \in [1 .. Seconds -> {"absent", "none", "part", "copy"}]
           /\ UNCHANGED <<now, reported, sameSecond>>
           /\ \/ /\ task'["timer"].at = "idle" /\ task'["timer"].dir = 1
                 /\ task'["timer"].doomed = {} /\ copy' = copy
              \/ \E d \in task["timer"].doomed :
                    /\ task'["timer"].at = "prune"
                    /\ task'["timer"].dir = task["timer"].dir
                    /\ task'["timer"].doomed = task["timer"].doomed \ {d}
                    /\ copy'[d] = "absent"
                    /\ \A e \in 1 .. Seconds : e # d => copy'[e] = copy[e]
<1>1. task["timer"] \in Chores /\ task["timer"].doomed \subseteq 1 .. Seconds
  BY DEF BackupTypes, Chores
<1>2. CASE Copies!Return("timer") /\ copy' = copy
  BY <1>2, Returns DEF Copies!RemoveOld, BackupTypes
<1>3. ASSUME NEW d \in task["timer"].doomed, Copies!RemoveAll(d),
             task' = [task EXCEPT !["timer"].doomed = task["timer"].doomed \ {d}]
      PROVE  /\ task' \in [{"timer", "manual"} -> Chores] /\ task'["manual"] = task["manual"]
             /\ copy' \in [1 .. Seconds -> {"absent", "none", "part", "copy"}]
             /\ task'["timer"].at = task["timer"].at
             /\ task'["timer"].dir = task["timer"].dir
             /\ task'["timer"].doomed = task["timer"].doomed \ {d}
             /\ copy'[d] = "absent"
             /\ \A e \in 1 .. Seconds : e # d => copy'[e] = copy[e]
  <2> DEFINE new == [task["timer"] EXCEPT !.doomed = task["timer"].doomed \ {d}]
  <2>1. new \in Chores /\ new.at = task["timer"].at /\ new.dir = task["timer"].dir
          /\ new.doomed = task["timer"].doomed \ {d}
    BY <1>1 DEF Chores
  <2>2. task' = [task EXCEPT !["timer"] = new]
    BY <1>3 DEF BackupTypes
  <2> HIDE DEF new
  <2>3. d \in 1 .. Seconds
    BY <1>1
  <2>4. /\ task' \in [{"timer", "manual"} -> Chores] /\ task'["timer"] = new
        /\ task'["manual"] = task["manual"]
    BY <2>1, <2>2 DEF BackupTypes
  <2>5. /\ copy' \in [1 .. Seconds -> {"absent", "none", "part", "copy"}]
        /\ copy'[d] = "absent" /\ \A e \in 1 .. Seconds : e # d => copy'[e] = copy[e]
    BY <1>3, <2>3, Removes
  <2> QED
    BY <2>1, <2>4, <2>5
<1>4. task["timer"].doomed # {} => Copies!Min(task["timer"].doomed) \in task["timer"].doomed
  BY <1>1, MinIn
<1>5. CASE Copies!RemoveAll(Copies!Min(task["timer"].doomed)) /\ task["timer"].doomed # {}
           /\ task' = [task EXCEPT !["timer"].doomed =
                            task["timer"].doomed \ {Copies!Min(task["timer"].doomed)}]
  BY <1>3, <1>4, <1>5, ZenonT(60) DEF Copies!RemoveOld
<1> QED
  BY <1>2, <1>5 DEF Copies!RemoveOld

\* What retention lists is older than something.
LEMMA DoomedIsOld ==
    ASSUME BackupTypes, BackupShape, KeptCopies > 0
    PROVE  \A d \in Copies!Doomed : d \in 1 .. Seconds /\ d < now
<1> SUFFICES ASSUME NEW d \in Copies!Doomed PROVE d \in 1 .. Seconds /\ d < now
  OBVIOUS
<1>1. d \in 1 .. Seconds
  BY DEF Copies!Doomed, Copies!Present, Copies!Dirs
<1>2. Cardinality(Copies!Newer(d)) >= KeptCopies
  BY Zenon, SameCardinality DEF Copies!Doomed
<1>3. Copies!Newer(d) # {}
  BY <1>2, FS_EmptySet, PartsAssumption
<1>4. PICK e \in 1 .. Seconds : copy[e] # "absent" /\ e > d
  BY <1>3 DEF Copies!Newer, Copies!Present, Copies!Dirs
<1>5. e <= now
  BY <1>4 DEF BackupShape
<1> QED
  BY <1>1, <1>4, <1>5 DEF BackupTypes

LEMMA Lists ==
    ASSUME BackupTypes, Copies!PruneBackups
    PROVE  /\ task["timer"].at = "list"
           /\ task' \in [{"timer", "manual"} -> Chores] /\ task'["manual"] = task["manual"]
           /\ task'["timer"].at = "prune" /\ task'["timer"].dir = task["timer"].dir
           /\ task'["timer"].doomed = Copies!Doomed
           /\ UNCHANGED <<copy, now, reported, sameSecond>>
<1>1. Copies!Doomed \subseteq 1 .. Seconds
  BY DEF Copies!Doomed, Copies!Present, Copies!Dirs
<1> DEFINE new == [task["timer"] EXCEPT !.at = "prune", !.doomed = Copies!Doomed]
<1>2. new \in Chores /\ new.at = "prune" /\ new.dir = task["timer"].dir
        /\ new.doomed = Copies!Doomed
  BY <1>1 DEF Chores, BackupTypes
<1>3. task' = [task EXCEPT !["timer"] = new]
  BY DEF Copies!PruneBackups, BackupTypes
<1> HIDE DEF new
<1> QED
  BY <1>2, <1>3, ZenonT(60) DEF BackupTypes, Copies!PruneBackups

\* A step keeps the types.
LEMMA BackupTyped == BackupTypes /\ [Next]_vars => BackupTypes'
<1> SUFFICES ASSUME BackupTypes, [Next]_vars PROVE BackupTypes'
  OBVIOUS
<1> DEFINE C == {"timer", "manual"}
<1>d. \A c \in C : task[c].dir \in 1 .. Seconds
  BY DEF BackupTypes, Chores
<1>1. CASE UNCHANGED copyVars
  BY <1>1 DEF copyVars, BackupTypes
<1>2. CASE Copies!Tick
  BY <1>2, PartsAssumption DEF Copies!Tick, BackupTypes
<1>3. CASE Copies!PruneBackups
  BY <1>3, Lists DEF BackupTypes
<1>4. CASE Copies!RemoveOld
  BY <1>4, Thins DEF BackupTypes
<1>5. CASE Copies!Restart
  BY <1>5, PartsAssumption DEF Copies!Restart, Copies!Idle, Copies!Callers, BackupTypes, Chores
<1>6. ASSUME NEW c \in C, Copies!Backup(c) PROVE BackupTypes'
  <2>1. sameSecond' \in BOOLEAN
    BY <1>6 DEF Copies!Backup, BackupTypes
  <2> QED
    BY <1>6, <2>1, Begins DEF BackupTypes
<1>7. ASSUME NEW c \in C, Copies!BackupTo(c) PROVE BackupTypes'
  <2>1. CASE copy[task[c].dir] = "none"
    BY <1>7, <2>1, Goes DEF Copies!BackupTo, BackupTypes
  <2>2. CASE copy[task[c].dir] # "none"
    BY <1>7, <2>2, <1>d, Returns, Removes DEF Copies!BackupTo, BackupTypes
  <2> QED
    BY <2>1, <2>2
<1>8. ASSUME NEW c \in C, Copies!Written(c) PROVE BackupTypes'
  BY <1>8, Goes DEF Copies!Written, BackupTypes
<1>9. ASSUME NEW c \in C, Copies!BackupFails(c) PROVE BackupTypes'
  BY <1>9, <1>d, Returns, Removes DEF Copies!BackupFails, BackupTypes
<1>10. ASSUME NEW c \in C, Copies!LeftBehind(c) PROVE BackupTypes'
  BY <1>10, Returns DEF Copies!LeftBehind, BackupTypes
<1>11. ASSUME NEW c \in C, Copies!VerifySnapshot(c) PROVE BackupTypes'
  BY <1>11, Goes, Returns DEF Copies!VerifySnapshot, BackupTypes
<1>12. ASSUME NEW c \in C, Copies!WriteManifest(c) PROVE BackupTypes'
  <2>1. (Copies!Return(c) \/ Copies!Go(c, "list")) /\ reported' \in BOOLEAN
    BY <1>12 DEF Copies!WriteManifest, BackupTypes
  <2> QED
    BY <1>12, <2>1, Goes, Returns DEF Copies!WriteManifest, BackupTypes
<1> QED
  BY <1>1, <1>2, <1>3, <1>4, <1>5, <1>6, <1>7, <1>8, <1>9, <1>10, <1>11, <1>12, Steps
     DEF Copies!Next, Copies!Callers

\* A backup that fails removes its own directory, and no whole copy.
LEMMA Withdraws ==
    ASSUME BackupTypes, BackupShape, NEW c \in {"timer", "manual"}, AtWork(c),
           Copies!RemoveAll(task[c].dir), Copies!Return(c), UNCHANGED <<now, reported>>
    PROVE  BackupShape'
<1> DEFINE C == {"timer", "manual"}
           d == task[c].dir
<1>d. d \in 1 .. Seconds /\ now \in Nat /\ 1 <= now
  BY PartsAssumption DEF BackupTypes, Chores
<1>c. /\ copy'[d] = "absent"
      /\ \A e \in 1 .. Seconds : e # d => copy'[e] = copy[e]
  BY <1>d, Removes
<1>r. /\ task'[c].at = "idle" /\ task'[c].dir = 1 /\ task'[c].doomed = {}
      /\ \A k \in C : k # c => task'[k] = task[k]
  BY Returns
<1>w. \A e \in 1 .. Seconds : Whole(e) => Whole(e)'
  BY <1>c, <1>r DEF Whole, AtWork, Written
<1>f. ASSUME NEW k \in C PROVE task'[k].dir <= now' /\ Found(k)'
  <2>1. CASE k = c
    BY <2>1, <1>r, <1>d DEF Found, AtWork, Written
  <2>2. CASE k # c
    <3>1. task'[k] = task[k] /\ task[k].dir \in 1 .. Seconds /\ task[k].dir <= now /\ Found(k)
      BY <2>2, <1>r DEF BackupShape, BackupTypes, Chores
    <3>2. AtWork(k) => task[k].dir # d
      BY <2>2 DEF BackupShape
    <3> QED
      BY <3>1, <3>2, <1>c DEF Found, AtWork, Written
  <2> QED
    BY <2>1, <2>2
<1>1. \A e \in 1 .. Seconds : copy'[e] # "absent" => e <= now'
  BY <1>c DEF BackupShape
<1>2. \A e \in task'["timer"].doomed : e < now'
  BY <1>r DEF BackupShape
<1>3. (AtWork("timer") /\ AtWork("manual") => task["timer"].dir # task["manual"].dir)'
  BY <1>r DEF BackupShape, AtWork, Written
<1>4. task'["timer"].at \in Written \cup {"list"} => NewerAreCopies'
  <2>1. CASE c = "timer"
    BY <2>1, <1>r DEF Written
  <2>2. CASE c = "manual"
    <3>1. task'["timer"] = task["timer"]
      BY <2>2, <1>r
    <3> QED
      BY <3>1, <2>2, <1>c DEF BackupShape, NewerAreCopies
  <2> QED
    BY <2>1, <2>2
<1>5. task'["timer"].at = "list" => Whole(task["timer"].dir)' /\ KeptCopies > 0
  <2>1. task'["timer"].at = "list" => task'["timer"] = task["timer"]
    BY <1>r
  <2>2. task["timer"].dir \in 1 .. Seconds
    BY DEF BackupTypes, Chores
  <2> QED
    BY <2>1, <2>2, <1>w DEF BackupShape, Whole, AtWork
<1>6. task'["timer"].at = "prune" =>
          \E e \in 1 .. Seconds : e \notin task'["timer"].doomed /\ Whole(e)'
  BY <1>r, <1>w DEF BackupShape
<1>7. reported' => \E e \in 1 .. Seconds : Whole(e)'
  BY <1>w DEF BackupShape
<1> QED
  BY <1>f, <1>1, <1>2, <1>3, <1>4, <1>5, <1>6, <1>7 DEF BackupShape

LEMMA BackupStep ==
    ASSUME KeptCopies # 1, BackupInv, [Next]_vars
    PROVE  BackupInv'
<1> SUFFICES ASSUME ~sameSecond' PROVE BackupShape'
  BY BackupTyped DEF BackupInv
<1> DEFINE C == {"timer", "manual"}
<1>t. BackupTypes /\ now \in Nat /\ \A c \in C : task[c].dir \in 1 .. Seconds
  BY PartsAssumption DEF BackupInv, BackupTypes, Chores
<1>s. ASSUME sameSecond' = sameSecond PROVE BackupShape
  BY <1>s DEF BackupInv
<1>1. CASE UNCHANGED copyVars
  BY <1>1, <1>s DEF copyVars, BackupShape, Found, NewerAreCopies, Whole, AtWork
<1>2. CASE Copies!Tick
  BY <1>2, <1>s, <1>t, PartsAssumption
     DEF Copies!Tick, BackupShape, Found, NewerAreCopies, Whole, AtWork, BackupTypes, Chores
<1>3. CASE Copies!PruneBackups
  <2>1. BackupShape /\ task["timer"].at = "list"
    BY <1>3, <1>s DEF Copies!PruneBackups
  <2>2. \E d \in 1 .. Seconds : d \notin Copies!Doomed /\ Whole(d)
    BY <1>t, <2>1, OneIsKept
  <2>3. \A d \in Copies!Doomed : d < now
    BY <1>t, <2>1, DoomedIsOld DEF BackupShape
  <2>4. \A d : Whole(d) => Whole(d)'
    BY <1>3, <1>t, Lists, <2>1 DEF Whole, AtWork, Written
  <2> QED
    BY <1>3, <1>t, Lists, <2>1, <2>2, <2>3, <2>4 DEF BackupShape, Found, AtWork, Written
<1>4. CASE Copies!RemoveOld
  <2>1. BackupShape
    BY <1>4, <1>s, <1>t, Thins
  <2> QED
    BY <1>4, <2>1, <1>t, Thins, PartsAssumption, SMTT(30)
       DEF BackupShape, Found, NewerAreCopies, Whole, AtWork, Written, BackupTypes, Chores
<1>5. CASE Copies!Restart
  BY <1>5, <1>s, <1>t, PartsAssumption
     DEF Copies!Restart, Copies!Idle, Copies!Callers, BackupShape, Found, NewerAreCopies,
         Whole, AtWork, Written, BackupTypes
<1>6. ASSUME NEW c \in C, Copies!Backup(c) PROVE BackupShape'
  <2>1. BackupShape /\ copy[now] = "absent"
    BY <1>6, <1>t, Begins DEF BackupInv
  <2>2. \A k \in C : AtWork(k) => task[k].dir # now
    BY <2>1, <1>t DEF BackupShape, Found, AtWork
  <2>c. /\ copy'[now] = "none"
        /\ \A e \in 1 .. Seconds : e # now => copy'[e] = copy[e]
        /\ now' = now /\ reported' = reported
    BY <1>6, <1>t, <2>1, Begins
  <2>r. /\ task'[c].at = "vacuum" /\ task'[c].dir = now /\ task'[c].doomed = {}
        /\ \A k \in C : k # c => task'[k] = task[k]
    BY <1>6, <1>t, Begins
  <2>w. \A e \in 1 .. Seconds : Whole(e) => Whole(e)'
    BY <2>1, <2>c, <2>r DEF Whole, AtWork, Written
  <2>f. ASSUME NEW k \in C PROVE task'[k].dir <= now' /\ Found(k)'
    <3>1. CASE k = c
      BY <3>1, <2>c, <2>r, <1>t DEF Found, AtWork, Written
    <3>2. CASE k # c
      <4>1. task'[k] = task[k] /\ task[k].dir \in 1 .. Seconds /\ task[k].dir <= now /\ Found(k)
        BY <3>2, <2>1, <2>r, <1>t DEF BackupShape
      <4> QED
        BY <4>1, <2>2, <2>c DEF Found, AtWork, Written
    <3> QED
      BY <3>1, <3>2
  <2>4. \A e \in 1 .. Seconds : copy'[e] # "absent" => e <= now'
    BY <2>1, <2>c, <1>t DEF BackupShape
  <2>5. \A e \in task'["timer"].doomed : e < now'
    BY <2>1, <2>c, <2>r DEF BackupShape
  <2>6. (AtWork("timer") /\ AtWork("manual") => task["timer"].dir # task["manual"].dir)'
    BY <2>1, <2>2, <2>r DEF BackupShape, AtWork
  <2>7. task'["timer"].at \in Written \cup {"list"} => NewerAreCopies'
    <3>1. CASE c = "timer"
      BY <3>1, <2>1, <2>r, <2>c, <1>t DEF NewerAreCopies, BackupShape
    <3>2. CASE c = "manual"
      <4>1. task'["timer"] = task["timer"] /\ AtWork("manual")' /\ task'["manual"].dir = now
        BY <3>2, <2>r DEF AtWork, Written
      <4>2. ~AtWork("manual")
        BY <1>6, <3>2 DEF Copies!Backup, AtWork, Written
      <4> QED
        BY <4>1, <4>2, <2>1, <2>c DEF BackupShape, NewerAreCopies
    <3> QED
      BY <3>1, <3>2
  <2>8. task'["timer"].at = "list" => Whole(task["timer"].dir)' /\ KeptCopies > 0
    <3>1. task'["timer"].at = "list" => task'["timer"] = task["timer"]
      BY <2>r
    <3> QED
      BY <3>1, <2>w, <2>1, <1>t DEF BackupShape, Whole, AtWork
  <2>9. task'["timer"].at = "prune" =>
            \E e \in 1 .. Seconds : e \notin task'["timer"].doomed /\ Whole(e)'
    BY <2>1, <2>r, <2>w DEF BackupShape
  <2>10. reported' => \E e \in 1 .. Seconds : Whole(e)'
    BY <2>1, <2>c, <2>w DEF BackupShape
  <2> QED
    BY <2>f, <2>4, <2>5, <2>6, <2>7, <2>8, <2>9, <2>10 DEF BackupShape
<1>7. ASSUME NEW c \in C, Copies!BackupTo(c) PROVE BackupShape'
  <2>1. BackupShape /\ task[c].at = "vacuum" /\ UNCHANGED <<now, reported>>
    BY <1>7, <1>s DEF Copies!BackupTo
  <2>2. CASE copy[task[c].dir] = "none"
    BY <1>7, <2>1, <2>2, <1>t, Goes, SMTT(30)
       DEF Copies!BackupTo, BackupShape, Found, NewerAreCopies, Whole, AtWork, Written, BackupTypes
  <2>3. CASE copy[task[c].dir] # "none"
    <3>1. Copies!RemoveAll(task[c].dir) /\ Copies!Return(c)
      BY <1>7, <2>3 DEF Copies!BackupTo
    <3> QED
      BY <3>1, <2>1, <1>t, Withdraws DEF AtWork, Written
  <2> QED
    BY <2>2, <2>3
<1>8. ASSUME NEW c \in C, Copies!Written(c) PROVE BackupShape'
  BY <1>8, <1>s, <1>t, Goes, SMTT(30)
     DEF Copies!Written, BackupShape, Found, NewerAreCopies, Whole, AtWork, Written, BackupTypes
<1>9. ASSUME NEW c \in C, Copies!BackupFails(c) PROVE BackupShape'
  BY <1>9, <1>s, <1>t, Withdraws DEF Copies!BackupFails, AtWork, Written
<1>10. ASSUME NEW c \in C, Copies!LeftBehind(c) PROVE BackupShape'
  BY <1>10, <1>s, <1>t, Returns, PartsAssumption, SMTT(30)
     DEF Copies!LeftBehind, BackupShape, Found, NewerAreCopies, Whole, AtWork, Written
<1>11. ASSUME NEW c \in C, Copies!VerifySnapshot(c) PROVE BackupShape'
  BY <1>11, <1>s, <1>t, Goes, Returns, PartsAssumption, SMTT(30)
     DEF Copies!VerifySnapshot, BackupShape, Found, NewerAreCopies, Whole, AtWork, Written
<1>12. ASSUME NEW c \in C, Copies!WriteManifest(c) PROVE BackupShape'
  BY <1>12, <1>s, <1>t, Goes, Returns, PartsAssumption, SMTT(30)
     DEF Copies!WriteManifest, BackupShape, Found, NewerAreCopies, Whole, AtWork, Written
<1> QED
  BY <1>1, <1>2, <1>3, <1>4, <1>5, <1>6, <1>7, <1>8, <1>9, <1>10, <1>11, <1>12, Steps
     DEF Copies!Next, Copies!Callers

\* Whatever is thinned out, fails, is cut short or runs at once, once a backup
\* was reported as verified there is a complete copy: for every number of
\* retained backups but one (backup.go: PruneBackups).
THEOREM AlwaysABackup == ASSUME KeptCopies # 1 PROVE Spec => []NeverWithoutBackup
<1>1. Init => BackupInv
  <2> SUFFICES ASSUME Init PROVE BackupInv
    OBVIOUS
  <2>1. /\ now = 1 /\ copy = [d \in 1 .. Seconds |-> "absent"]
        /\ task = [c \in {"timer", "manual"} |-> Copies!Idle]
        /\ reported = FALSE /\ sameSecond = FALSE
    BY DEF Init, Copies!Init, Copies!Dirs, Copies!Callers
  <2>2. Copies!Idle \in Chores /\ Copies!Idle.at = "idle" /\ Copies!Idle.dir = 1
          /\ Copies!Idle.doomed = {}
    BY PartsAssumption DEF Copies!Idle, Chores
  <2>3. BackupTypes
    <3>1. now \in 1 .. Seconds
      BY <2>1, PartsAssumption
    <3>2. copy \in [1 .. Seconds -> {"absent", "none", "part", "copy"}]
      BY <2>1
    <3>3. task \in [{"timer", "manual"} -> Chores]
      BY <2>1, <2>2
    <3>4. reported \in BOOLEAN /\ sameSecond \in BOOLEAN
      BY <2>1, Zenon
    <3> QED
      BY <3>1, <3>2, <3>3, <3>4 DEF BackupTypes
  <2>4. BackupShape
    BY <2>1, <2>2 DEF BackupShape, Found, NewerAreCopies, Whole, AtWork, Written
  <2> QED
    BY <2>3, <2>4 DEF BackupInv
<1>2. BackupInv => NeverWithoutBackup
  BY DEF BackupInv, BackupShape, Whole, NeverWithoutBackup, Copies!NeverWithoutBackup, Copies!Dirs
<1> QED
  BY <1>1, <1>2, BackupStep, PTL DEF Spec

-----------------------------------------------------------------------------
(* Tasks.  Ids are not given out twice, a list keeps its slug and a task   *)
(* its list: what a route has checked stays so until it acts.              *)

Rows == [list : Nat, status : {"todo", "done"}, stamped : BOOLEAN]
Calls ==
    [op : {"none", "add", "note", "unlist", "tick", "erase"},
     by : {"none", "web", "tool", "note"}, list : Nat, task : Nat,
     status : {"todo", "done"}, seen : Rows,
     at : {"none", "create", "insert", "read", "write", "erase", "clear", "unlist"}]

Stamped(row) == row.stamped <=> row.status = "done"

TableInv ==
    /\ nextList \in Nat /\ nextTask \in Nat
    /\ \A l \in DOMAIN lists : l \in Nat /\ l < nextList
    /\ \A t \in DOMAIN tasks :
        /\ t \in Nat /\ t < nextTask
        /\ tasks[t] \in Rows /\ tasks[t].list \in DOMAIN lists
        /\ Stamped(tasks[t])
    /\ \A k, l \in DOMAIN lists : lists[k] = "notes" /\ lists[l] = "notes" => k = l

\* The kind of a task is the one its route is for.
RightKind(q) ==
    /\ q.by = "note" => lists[tasks[q.task].list] = "notes"
    /\ q.by = "tool" => lists[tasks[q.task].list] # "notes"

CallInv(q) ==
    /\ q.at = "create" => q.op \in {"tick", "erase", "add", "note"}
    /\ q.at = "create" /\ q.op \in {"tick", "erase"} =>
        /\ q.list < nextList /\ q.task < nextTask
        /\ q.task \in DOMAIN tasks => tasks[q.task].list = q.list
    /\ q.at \in {"clear", "unlist"} =>
        q.list < nextList /\ (q.list \in DOMAIN lists => lists[q.list] = "none")
    /\ q.at \in {"read", "write", "erase"} =>
        q.task < nextTask /\ (q.task \in DOMAIN tasks => RightKind(q))
    /\ q.at = "write" => Stamped(q.seen)

TaskInv ==
    /\ TableInv /\ request \in [Routes -> Calls]
    /\ \A r \in Routes : CallInv(request[r])

\* What a statement may do to the tables.
TablesGo ==
    /\ nextList' \in Nat /\ nextList' >= nextList
    /\ nextTask' \in Nat /\ nextTask' >= nextTask
    /\ \A l \in DOMAIN lists' : (l \in DOMAIN lists /\ lists'[l] = lists[l]) \/ l = nextList
    /\ \A t \in DOMAIN tasks' :
        (t \in DOMAIN tasks /\ tasks'[t].list = tasks[t].list) \/ t = nextTask

LEMMA CallKeeps ==
    ASSUME TableInv, TableInv', TablesGo, NEW q \in Calls, CallInv(q)
    PROVE  CallInv(q)'
<1>1. q.task \in Nat /\ q.list \in Nat
  BY DEF Calls
<1>2. \A l \in DOMAIN lists' : l < nextList => l \in DOMAIN lists /\ lists'[l] = lists[l]
  BY DEF TableInv, TablesGo
<1>3. \A t \in DOMAIN tasks' : t < nextTask =>
          t \in DOMAIN tasks /\ tasks'[t].list = tasks[t].list
  BY DEF TableInv, TablesGo
<1>4. q.task \in DOMAIN tasks' /\ q.task < nextTask =>
          lists'[tasks'[q.task].list] = lists[tasks[q.task].list]
  <2> SUFFICES ASSUME q.task \in DOMAIN tasks', q.task < nextTask
               PROVE  lists'[tasks'[q.task].list] = lists[tasks[q.task].list]
    OBVIOUS
  <2>1. q.task \in DOMAIN tasks /\ tasks'[q.task].list = tasks[q.task].list
    BY <1>3
  <2>2. tasks'[q.task].list \in DOMAIN lists' /\ tasks[q.task].list < nextList
    BY <2>1 DEF TableInv
  <2> QED
    BY <1>2, <2>1, <2>2
<1>5. nextList \in Nat /\ nextList' \in Nat /\ nextList <= nextList'
        /\ nextTask \in Nat /\ nextTask' \in Nat /\ nextTask <= nextTask'
  BY DEF TableInv, TablesGo
<1>6. (q.list < nextList => q.list < nextList') /\ (q.task < nextTask => q.task < nextTask')
  BY <1>1, <1>5
<1> QED
  BY <1>2, <1>3, <1>4, <1>6 DEF CallInv, RightKind

\* A route goes on to q, when the rest is as it may be.
LEMMA CallBecomes ==
    ASSUME TaskInv, TableInv', TablesGo, NEW r \in Routes, NEW q \in Calls,
           request' = [request EXCEPT ![r] = q], CallInv(q)'
    PROVE  TaskInv'
<1>1. request' \in [Routes -> Calls]
  BY DEF TaskInv
<1>2. ASSUME NEW k \in Routes PROVE CallInv(request[k])'
  <2>1. CASE k = r
    BY <2>1 DEF TaskInv, CallInv, RightKind
  <2>2. CASE k # r
    <3>1. PICK p \in Calls : p = request[k]
      BY DEF TaskInv
    <3>2. CallInv(p)'
      BY <3>1, CallKeeps DEF TaskInv
    <3>3. request'[k] = p
      BY <3>1, <2>2 DEF TaskInv
    <3> QED
      BY <3>2, <3>3 DEF CallInv, RightKind
  <2> QED
    BY <2>1, <2>2
<1> QED
  BY <1>1, <1>2 DEF TaskInv

LEMMA CallsStay ==
    ASSUME TaskInv, TableInv', TablesGo, UNCHANGED request
    PROVE  TaskInv'
<1>2. ASSUME NEW k \in Routes PROVE CallInv(request[k])'
  <2>1. PICK p \in Calls : p = request[k]
    BY DEF TaskInv
  <2>2. CallInv(p)'
    BY <2>1, CallKeeps DEF TaskInv
  <2>3. request'[k] = p
    BY <2>1
  <2> QED
    BY <2>2, <2>3 DEF CallInv, RightKind
<1> QED
  BY <1>2 DEF TaskInv

LEMMA TablesStay ==
    ASSUME TaskInv, UNCHANGED Todo!table
    PROVE  TableInv' /\ TablesGo
BY DEF TaskInv, TableInv, TablesGo, Todo!table, Stamped

\* Rows go: of tasks, and of a list that has no task left and is not the notes'.
LEMMA RowsGo ==
    ASSUME TaskInv, NEW S \in SUBSET DOMAIN tasks, NEW L \in SUBSET DOMAIN lists,
           lists' = [l \in L |-> lists[l]], tasks' = [t \in S |-> tasks[t]],
           \A t \in S : tasks[t].list \in L, UNCHANGED <<nextList, nextTask>>
    PROVE  TableInv' /\ TablesGo
BY DEF TaskInv, TableInv, TablesGo, Stamped

LEMMA TaskComes ==
    ASSUME TaskInv, NEW l, NEW s \in {"todo", "done"}, Todo!InsertTask(l, s)
    PROVE  TableInv' /\ TablesGo
<1> DEFINE row == [list |-> l, status |-> s, stamped |-> s = "done"]
<1>1. row \in Rows /\ row.list = l /\ l \in DOMAIN lists
  BY DEF Todo!InsertTask, Rows, TaskInv, TableInv
<1>2. Stamped(row)
  BY DEF Stamped
<1>3. tasks' = [t \in DOMAIN tasks \cup {nextTask} |-> IF t = nextTask THEN row ELSE tasks[t]]
        /\ nextTask' = nextTask + 1 /\ UNCHANGED <<lists, nextList>>
  BY DEF Todo!InsertTask, Todo!Insertion, Todo!NewTask
<1> HIDE DEF row
<1>4. DOMAIN tasks' = DOMAIN tasks \cup {nextTask} /\ tasks'[nextTask] = row
  BY <1>3
<1>5. \A t \in DOMAIN tasks : tasks'[t] = tasks[t] /\ t < nextTask
  BY <1>3 DEF TaskInv, TableInv
<1>6. nextTask' \in Nat /\ nextTask < nextTask' /\ nextTask \in Nat
  BY <1>3 DEF TaskInv, TableInv
<1>7. ASSUME NEW t \in DOMAIN tasks'
      PROVE  /\ t \in Nat /\ t < nextTask' /\ tasks'[t] \in Rows
             /\ tasks'[t].list \in DOMAIN lists' /\ Stamped(tasks'[t])
  BY <1>1, <1>2, <1>3, <1>4, <1>5, <1>6 DEF TaskInv, TableInv
<1>8. TableInv'
  BY <1>3, <1>6, <1>7 DEF TaskInv, TableInv, Stamped
<1>9. TablesGo
  BY <1>3, <1>4, <1>5, <1>6 DEF TaskInv, TableInv, TablesGo
<1> QED
  BY <1>8, <1>9

LEMMA ListComes ==
    ASSUME TaskInv, NEW slug, Todo!InsertList(slug), UNCHANGED <<tasks, nextTask>>,
           slug = "notes" => Todo!Kept("notes") = {}
    PROVE  TableInv' /\ TablesGo /\ nextList' = nextList + 1
<1>1. lists' = [l \in DOMAIN lists \cup {nextList} |-> IF l = nextList THEN slug ELSE lists[l]]
        /\ nextList' = nextList + 1
  BY DEF Todo!InsertList, Todo!Insertion
<1>2. DOMAIN lists' = DOMAIN lists \cup {nextList} /\ lists'[nextList] = slug
  BY <1>1
<1>3. nextList \in Nat /\ \A l \in DOMAIN lists : l < nextList /\ l \in Nat
  BY DEF TaskInv, TableInv
<1>4. \A l \in DOMAIN lists : lists'[l] = lists[l] /\ l # nextList
  BY <1>1, <1>3
<1>5. slug = "notes" => \A l \in DOMAIN lists : lists[l] # "notes"
  BY DEF Todo!Kept
<1>6. \A k, l \in DOMAIN lists' : lists'[k] = "notes" /\ lists'[l] = "notes" => k = l
  BY <1>2, <1>4, <1>5 DEF TaskInv, TableInv
<1>7. \A l \in DOMAIN lists' : l \in Nat /\ l < nextList'
  BY <1>1, <1>2, <1>3
<1>t. \A t \in DOMAIN tasks' :
          /\ t \in Nat /\ t < nextTask' /\ tasks'[t] \in Rows
          /\ tasks'[t].list \in DOMAIN lists' /\ Stamped(tasks'[t])
  BY <1>2 DEF TaskInv, TableInv
<1>n. nextList' \in Nat /\ nextTask' \in Nat
  BY <1>1, <1>3 DEF TaskInv, TableInv
<1>8. TableInv'
  BY <1>6, <1>7, <1>t, <1>n DEF TableInv, Stamped
<1>9. TablesGo
  BY <1>1, <1>2, <1>3, <1>4 DEF TaskInv, TableInv, TablesGo
<1> QED
  BY <1>1, <1>8, <1>9

LEMMA Calling ==
    /\ Todo!NoRequest \in Calls
    /\ CallInv(Todo!NoRequest)' /\ CallInv(Todo!NoRequest)
BY DEF Todo!NoRequest, Todo!NoTask, Calls, Rows, CallInv

\* A route that replies, or leaves.
LEMMA Leaves ==
    ASSUME TaskInv, TableInv', TablesGo, NEW r \in Routes, Todo!Reply(r)
    PROVE  TaskInv'
BY Calling, CallBecomes DEF Todo!Reply

\* Where a route goes from a list l: its task's list, or that of the notes, or
\* for a new task any.
LEMMA PlacedKeeps ==
    ASSUME TaskInv, NEW q \in Calls, NEW l \in Nat,
           q.op \in {"tick", "erase", "add", "note"},
           q.op \in {"tick", "erase"} =>
             /\ q.task < nextTask
             /\ q.task \in DOMAIN tasks =>
                    /\ tasks[q.task].list = q.list
                    /\ lists[q.list] = "notes" <=> q.list = l
    PROVE  Todo!Placed(q, l) \in Calls /\ CallInv(Todo!Placed(q, l))
<1>1. CASE q.op \in {"add", "note"}
  <2> DEFINE new == [q EXCEPT !.list = l, !.at = "insert"]
  <2>1. Todo!Placed(q, l) = new
    BY <1>1 DEF Todo!Placed
  <2>2. new \in Calls /\ new.at = "insert"
    BY DEF Calls
  <2> HIDE DEF new
  <2> QED
    BY <2>1, <2>2 DEF CallInv
<1>2. CASE q.op \in {"tick", "erase"} /\ (q.list = l) /= (q.by = "note")
  BY <1>2, Calling DEF Todo!Placed
<1>3. CASE q.op \in {"tick", "erase"} /\ ~((q.list = l) /= (q.by = "note"))
  <2> DEFINE new == [q EXCEPT !.list = 0, !.at = IF q.op = "erase" THEN "erase" ELSE "read"]
  <2>1. Todo!Placed(q, l) = new
    BY <1>3 DEF Todo!Placed
  <2>2. new \in Calls /\ new.at \in {"erase", "read"} /\ new.task = q.task /\ new.by = q.by
    BY DEF Calls
  <2> HIDE DEF new
  <2> QED
    BY <2>1, <2>2, <1>3 DEF CallInv, RightKind
<1> QED
  BY <1>1, <1>2, <1>3

\* A route that asks for its list.
LEMMA SoughtKeeps ==
    ASSUME TaskInv, NEW q \in Calls, q.op \in {"tick", "erase", "add", "note"},
           q.op \in {"tick", "erase"} =>
             /\ q.list < nextList /\ q.task < nextTask
             /\ q.task \in DOMAIN tasks => tasks[q.task].list = q.list
    PROVE  Todo!Sought(q) \in Calls /\ CallInv(Todo!Sought(q))
<1> DEFINE kept == Todo!Kept(Todo!SlugOf(q))
<1>1. CASE kept = {}
  <2> DEFINE new == [q EXCEPT !.at = "create"]
  <2>1. Todo!Sought(q) = new
    BY <1>1 DEF Todo!Sought
  <2>2. new \in Calls /\ new.at = "create" /\ new.task = q.task /\ new.list = q.list /\ new.op = q.op
    BY DEF Calls
  <2> HIDE DEF new
  <2> QED
    BY <2>1, <2>2 DEF CallInv
<1>2. CASE kept # {}
  <2> DEFINE l == CHOOSE k \in kept : TRUE
  <2>1. l \in kept /\ Todo!Sought(q) = Todo!Placed(q, l)
    BY <1>2 DEF Todo!Sought
  <2> HIDE DEF l
  <2>2. l \in DOMAIN lists /\ lists[l] = Todo!SlugOf(q) /\ l \in Nat
    BY <2>1 DEF Todo!Kept, TaskInv, TableInv
  <2>3. q.op \in {"tick", "erase"} /\ q.task \in DOMAIN tasks =>
            (lists[q.list] = "notes" <=> q.list = l)
    BY <2>2 DEF Todo!SlugOf, TaskInv, TableInv
  <2> QED
    BY <2>1, <2>2, <2>3, PlacedKeeps
<1> QED
  BY <1>1, <1>2

\* A route that begins or goes on leaves the tables alone.
LEMMA Continues ==
    ASSUME TaskInv, UNCHANGED Todo!table, NEW r \in Routes, NEW q \in Calls,
           request' = [request EXCEPT ![r] = q], CallInv(q)
    PROVE  TaskInv'
<1>1. TableInv' /\ TablesGo
  BY TablesStay
<1>2. CallInv(q)'
  BY <1>1, CallKeeps DEF TaskInv
<1> QED
  BY <1>1, <1>2, CallBecomes

LEMMA StartKeeps ==
    ASSUME TaskInv, NEW r \in Routes, Todo!Start(r)
    PROVE  TaskInv'
<1> DEFINE N == Todo!NoRequest
<1>n. N \in Calls
  BY Calling
<1>1. ASSUME NEW l \in DOMAIN lists, Todo!BeginUnlist(r, l) PROVE TaskInv'
  <2> DEFINE new == [N EXCEPT !.op = "unlist", !.list = l, !.at = "clear"]
  <2>1. l \in Nat /\ l < nextList /\ lists[l] = "none"
    BY <1>1 DEF Todo!BeginUnlist, TaskInv, TableInv
  <2>2. new \in Calls /\ new.at = "clear" /\ new.list = l
    BY <1>n, <2>1 DEF Calls
  <2>3. UNCHANGED Todo!table /\ request' = [request EXCEPT ![r] = new]
    BY <1>1 DEF Todo!BeginUnlist, Todo!Begin
  <2> HIDE DEF new
  <2> QED
    BY <2>1, <2>2, <2>3, Continues DEF CallInv
<1>2. CASE Todo!BeginNote(r)
  <2> DEFINE q == [N EXCEPT !.op = "note"]
  <2>1. q \in Calls /\ q.op = "note"
    BY <1>n DEF Calls
  <2>2. UNCHANGED Todo!table /\ request' = [request EXCEPT ![r] = Todo!Sought(q)]
    BY <1>2 DEF Todo!BeginNote, Todo!Begin
  <2> HIDE DEF q
  <2>3. Todo!Sought(q) \in Calls /\ CallInv(Todo!Sought(q))
    BY <2>1, SoughtKeeps
  <2> QED
    BY <2>2, <2>3, Continues
<1>3. CASE Todo!BeginUnfiled(r)
  <2> DEFINE q == [N EXCEPT !.op = "add"]
  <2>1. q \in Calls /\ q.op = "add"
    BY <1>n DEF Calls
  <2>2. \/ Todo!Begin(r, Todo!Sought(q))
        \/ \E l \in DOMAIN lists : Todo!Begin(r, Todo!Placed(q, l))
    BY <1>3 DEF Todo!BeginUnfiled
  <2> HIDE DEF q
  <2>3. Todo!Sought(q) \in Calls /\ CallInv(Todo!Sought(q))
    BY <2>1, SoughtKeeps
  <2>4. \A l \in DOMAIN lists : Todo!Placed(q, l) \in Calls /\ CallInv(Todo!Placed(q, l))
    BY <2>1, PlacedKeeps DEF TaskInv, TableInv
  <2>5. CASE Todo!Begin(r, Todo!Sought(q))
    BY <2>3, <2>5, Continues DEF Todo!Begin
  <2>6. ASSUME NEW l \in DOMAIN lists, Todo!Begin(r, Todo!Placed(q, l)) PROVE TaskInv'
    BY <2>4, <2>6, Continues DEF Todo!Begin
  <2> QED
    BY <2>2, <2>5, <2>6
<1>4. ASSUME NEW op \in {"tick", "erase"}, NEW by \in {"web", "tool", "note"},
             NEW t \in DOMAIN tasks, Todo!BeginChange(r, op, by, t)
      PROVE  TaskInv'
  <2> DEFINE q == [N EXCEPT !.op = op, !.by = by, !.task = t]
  <2>1. t \in Nat /\ t < nextTask /\ tasks[t].list \in DOMAIN lists
          /\ tasks[t].list \in Nat /\ tasks[t].list < nextList
    BY DEF TaskInv, TableInv
  <2>2. q \in Calls /\ q.op = op /\ q.by = by /\ q.task = t
    BY <1>n, <2>1 DEF Calls
  <2>3. CASE by = "web"
    <3> DEFINE new == [q EXCEPT !.at = "read"]
    <3>1. new \in Calls /\ new.at = "read" /\ new.task = t /\ new.by = "web"
      BY <2>2, <2>3, ZenonT(60) DEF Calls
    <3>2. UNCHANGED Todo!table /\ request' = [request EXCEPT ![r] = new]
      BY <1>4, <2>3 DEF Todo!BeginChange, Todo!Begin
    <3> HIDE DEF new
    <3> QED
      BY <2>1, <3>1, <3>2, Continues DEF CallInv, RightKind
  <2>4. CASE by # "web"
    <3> DEFINE new == [q EXCEPT !.list = tasks[t].list]
    <3>1. new \in Calls /\ new.op = op /\ new.task = t /\ new.list = tasks[t].list
      BY <2>1, <2>2 DEF Calls
    <3>2. UNCHANGED Todo!table /\ request' = [request EXCEPT ![r] = Todo!Sought(new)]
      BY <1>4, <2>4 DEF Todo!BeginChange, Todo!Begin
    <3> HIDE DEF new
    <3>3. Todo!Sought(new) \in Calls /\ CallInv(Todo!Sought(new))
      BY <2>1, <3>1, SoughtKeeps
    <3> QED
      BY <3>2, <3>3, Continues
  <2> QED
    BY <2>3, <2>4
<1> QED
  BY <1>1, <1>2, <1>3, <1>4 DEF Todo!Start

LEMMA CreateKeeps ==
    ASSUME TaskInv, NEW r \in Routes, Todo!Create(r)
    PROVE  TaskInv'
<1>1. PICK q \in Calls : q = request[r]
  BY DEF TaskInv
<1>2. CallInv(q) /\ q.at = "create" /\ q.list \in Nat
  BY <1>1 DEF TaskInv, Todo!Create, Todo!At, Calls
<1>3. CASE Todo!Kept(Todo!SlugOf(q)) # {} /\ UNCHANGED Todo!table
           /\ request' = [request EXCEPT ![r] = Todo!Sought(q)]
  <2>1. Todo!Sought(q) \in Calls /\ CallInv(Todo!Sought(q))
    BY <1>2, SoughtKeeps DEF CallInv
  <2> QED
    BY <1>3, <2>1, Continues
<1>4. CASE Todo!Kept(Todo!SlugOf(q)) = {} /\ Todo!InsertList(Todo!SlugOf(q))
           /\ request' = [request EXCEPT ![r] = Todo!Placed(q, nextList)]
           /\ UNCHANGED <<tasks, nextTask>>
  <2>1. PICK l \in Nat : l = nextList
    BY DEF TaskInv, TableInv
  <2>2. TableInv' /\ TablesGo
    BY <1>4, ListComes
  <2>3. q.op \in {"tick", "erase"} /\ q.task \in DOMAIN tasks =>
            (lists[q.list] = "notes" <=> q.list = l)
    <3>1. q.op \in {"tick", "erase"} => q.list < l
      BY <1>2, <2>1 DEF CallInv
    <3>2. q.op \in {"tick", "erase"} /\ q.task \in DOMAIN tasks => q.list \in DOMAIN lists
      BY <1>2 DEF CallInv, TaskInv, TableInv
    <3>3. q.op \in {"tick", "erase"} => \A k \in DOMAIN lists : lists[k] # "notes"
      BY <1>4 DEF Todo!SlugOf, Todo!Kept
    <3> QED
      BY <3>1, <3>2, <3>3, <1>2
  <2>4. Todo!Placed(q, l) \in Calls /\ CallInv(Todo!Placed(q, l))
    BY <1>2, <2>3, PlacedKeeps DEF CallInv
  <2>5. PICK new \in Calls : new = Todo!Placed(q, l)
    BY <2>4
  <2>6. CallInv(new)'
    BY <2>2, <2>4, <2>5, CallKeeps DEF TaskInv
  <2>7. request' = [request EXCEPT ![r] = new]
    BY <1>4, <2>1, <2>5
  <2> QED
    BY <2>2, <2>6, <2>7, CallBecomes
<1> QED
  BY <1>1, <1>3, <1>4 DEF Todo!Create

LEMMA ClearListKeeps ==
    ASSUME TaskInv, NEW r \in Routes, Todo!ClearList(r)
    PROVE  TaskInv'
<1> DEFINE S == {t \in DOMAIN tasks : tasks[t].list /= request[r].list}
           new == [request[r] EXCEPT !.at = "unlist"]
<1>1. tasks' = [t \in S |-> tasks[t]] /\ UNCHANGED <<lists, nextList, nextTask>>
        /\ request' = [request EXCEPT ![r] = new]
  BY DEF Todo!ClearList, Todo!Restrict, TaskInv
<1>2. TableInv' /\ TablesGo
  BY <1>1 DEF TaskInv, TableInv, TablesGo, Stamped
<1>3. PICK q \in Calls : q = request[r] /\ CallInv(q) /\ q.at = "clear"
  BY DEF TaskInv, Todo!ClearList, Todo!At
<1>4. CallInv(q)'
  BY <1>2, <1>3, CallKeeps DEF TaskInv
<1>5. PICK p \in Calls : p = new /\ p.at = "unlist" /\ p.list = q.list
  <2>1. new \in Calls /\ new.at = "unlist" /\ new.list = q.list
    BY <1>3 DEF Calls
  <2> QED
    BY <2>1
<1>6. CallInv(p)'
  BY <1>3, <1>4, <1>5 DEF CallInv
<1> QED
  BY <1>1, <1>2, <1>5, <1>6, CallBecomes

LEMMA DeleteListKeeps ==
    ASSUME TaskInv, NEW r \in Routes, Todo!DeleteList(r)
    PROVE  TaskInv'
<1> DEFINE S == {t \in DOMAIN tasks : tasks[t].list /= request[r].list}
           L == DOMAIN lists \ {request[r].list}
<1>1. tasks' = [t \in S |-> tasks[t]] /\ lists' = [l \in L |-> lists[l]]
        /\ UNCHANGED <<nextList, nextTask>> /\ Todo!Reply(r)
  BY DEF Todo!DeleteList, Todo!Restrict
<1>2. S \in SUBSET DOMAIN tasks /\ L \in SUBSET DOMAIN lists
        /\ \A t \in S : tasks[t].list \in L
  BY DEF TaskInv, TableInv
<1> HIDE DEF S, L
<1>3. TableInv' /\ TablesGo
  BY <1>1, <1>2, RowsGo
<1> QED
  BY <1>1, <1>3, Leaves

LEMMA ReadKeeps ==
    ASSUME TaskInv, NEW r \in Routes, Todo!Read(r)
    PROVE  TaskInv'
<1>t. UNCHANGED Todo!table
  BY DEF Todo!Read
<1>1. CASE Todo!Reply(r)
  BY <1>1, <1>t, TablesStay, Leaves
<1>2. ASSUME request[r].task \in DOMAIN tasks, NEW s \in {"todo", "done"},
             request' = [request EXCEPT ![r].seen = tasks[request[r].task],
                                        ![r].status = s, ![r].at = "write"]
      PROVE  TaskInv'
  <2>1. PICK q \in Calls : q = request[r] /\ CallInv(q) /\ q.at = "read"
    BY DEF TaskInv, Todo!Read, Todo!At
  <2>2. tasks[q.task] \in Rows /\ Stamped(tasks[q.task])
    BY <1>2, <2>1 DEF TaskInv, TableInv
  <2> DEFINE new == [q EXCEPT !.seen = tasks[q.task], !.status = s, !.at = "write"]
  <2>3. new \in Calls /\ new.at = "write" /\ new.task = q.task /\ new.by = q.by
          /\ new.seen = tasks[q.task]
    BY <2>2 DEF Calls
  <2>4. request' = [request EXCEPT ![r] = new]
    BY <1>2, <2>1 DEF TaskInv
  <2> HIDE DEF new
  <2>5. CallInv(new)
    BY <2>1, <2>2, <2>3 DEF CallInv, RightKind
  <2> QED
    BY <1>t, <2>3, <2>4, <2>5, Continues
<1> QED
  BY <1>1, <1>2 DEF Todo!Read, Todo!Statuses

LEMMA WriteKeeps ==
    ASSUME TaskInv, NEW r \in Routes, Todo!Write(r)
    PROVE  TaskInv'
<1>1. PICK q \in Calls : q = request[r] /\ CallInv(q) /\ q.at = "write"
  BY DEF TaskInv, Todo!Write, Todo!At
<1>r. Todo!Reply(r) /\ UNCHANGED <<lists, nextList, nextTask>>
  BY DEF Todo!Write
<1>2. CASE q.task \notin DOMAIN tasks
  <2>1. UNCHANGED Todo!table
    BY <1>1, <1>2, <1>r DEF Todo!Write, Todo!table
  <2> QED
    BY <1>r, <2>1, TablesStay, Leaves
<1>3. CASE q.task \in DOMAIN tasks
  <2> DEFINE old == tasks[q.task]
             new == [old EXCEPT !.status = q.status, !.stamped = Todo!Stamp(q.status, q.seen)]
  <2>1. old \in Rows /\ q.status \in {"todo", "done"} /\ q.seen \in Rows /\ Stamped(q.seen)
    BY <1>1, <1>3 DEF TaskInv, TableInv, Calls, CallInv
  <2>2. Todo!Stamp(q.status, q.seen) = (q.status = "done")
    BY <2>1, Zenon DEF Todo!Stamp, Stamped
  <2>3. new \in Rows /\ new.list = old.list /\ Stamped(new)
    BY <2>1, <2>2 DEF Rows, Stamped
  <2>4. tasks' = [tasks EXCEPT ![q.task] = new]
    BY <1>1, <1>3 DEF Todo!Write
  <2> HIDE DEF new
  <2>5. TableInv' /\ TablesGo
    BY <1>r, <2>3, <2>4, SMTT(30) DEF TaskInv, TableInv, TablesGo, Stamped
  <2> QED
    BY <1>r, <2>5, Leaves
<1> QED
  BY <1>2, <1>3

LEMMA EraseTaskKeeps ==
    ASSUME TaskInv, NEW t, Todo!EraseTask(t)
    PROVE  TableInv' /\ TablesGo
BY DEF Todo!EraseTask, Todo!Restrict, TaskInv, TableInv, TablesGo, Stamped

LEMMA TaskStep == TaskInv /\ [Next]_vars => TaskInv'
<1> SUFFICES ASSUME TaskInv, [Next]_vars PROVE TaskInv'
  OBVIOUS
<1>1. CASE UNCHANGED todoVars
  BY <1>1, TablesStay, CallsStay DEF todoVars, Todo!table
<1>2. ASSUME NEW r \in Routes, Todo!Step(r) PROVE TaskInv'
  <2>1. CASE Todo!Insert(r)
    <3>1. Todo!InsertTask(request[r].list, "todo") \/ UNCHANGED Todo!table
      BY <2>1 DEF Todo!Insert
    <3>2. TableInv' /\ TablesGo
      BY <3>1, TaskComes, TablesStay
    <3> QED
      BY <2>1, <3>2, Leaves DEF Todo!Insert
  <2>2. CASE Todo!Erase(r)
    BY <2>2, EraseTaskKeeps, Leaves DEF Todo!Erase
  <2> QED
    BY <1>2, <2>1, <2>2, CreateKeeps, ClearListKeeps, DeleteListKeeps, ReadKeeps, WriteKeeps
       DEF Todo!Step
<1>3. ASSUME NEW r \in Routes, Todo!Fail(r) PROVE TaskInv'
  BY <1>3, TablesStay, Leaves DEF Todo!Fail
<1>4. CASE Todo!MakeList
  BY <1>4, ListComes, CallsStay DEF Todo!MakeList
<1>5. ASSUME NEW l \in DOMAIN lists, NEW s \in {"todo", "done"}, Todo!AddTo(l, s)
      PROVE  TaskInv'
  BY <1>5, TaskComes, CallsStay DEF Todo!AddTo
<1>6. ASSUME NEW t \in DOMAIN tasks, Todo!EraseAny(t) PROVE TaskInv'
  BY <1>6, EraseTaskKeeps, CallsStay DEF Todo!EraseAny
<1> QED
  BY <1>1, <1>2, <1>3, <1>4, <1>5, <1>6, StartKeeps, Steps DEF Todo!Next, Todo!Statuses

\* However routes, tools and deletions overlap, for any number of them, of
\* lists and of tasks: a route for notes changes notes only and a tool for
\* tasks none, and what is done is stamped (todo/service.go: requireNote,
\* UpdateTask; tools.go: requireTask).
THEOREM RoutesAreSafe == Spec => []TasksSafe
<1>1. Init => TaskInv
  <2> SUFFICES ASSUME Init PROVE TaskInv
    OBVIOUS
  <2>1. lists = <<>> /\ tasks = <<>> /\ nextList = 1 /\ nextTask = 1
          /\ request = [r \in Routes |-> Todo!NoRequest]
    BY DEF Init, Todo!Init
  <2>2. DOMAIN lists = {} /\ DOMAIN tasks = {}
    BY <2>1
  <2>3. TableInv
    BY <2>1, <2>2 DEF TableInv
  <2> QED
    BY <2>1, <2>3, Calling DEF TaskInv
<1>2. TaskInv => TasksSafe
  <2> SUFFICES ASSUME TaskInv PROVE TasksSafe
    OBVIOUS
  <2>1. Todo!RoutesKeepToTheirKind
    BY DEF TaskInv, CallInv, RightKind, Todo!RoutesKeepToTheirKind, Todo!Checked
  <2>2. Todo!DoneIsStamped
    BY Zenon DEF TaskInv, TableInv, Stamped, Todo!DoneIsStamped
  <2> QED
    BY <2>1, <2>2 DEF TasksSafe
<1> QED
  BY <1>1, <1>2, TaskStep, PTL DEF Spec

-----------------------------------------------------------------------------
(* The archive.  In a database every row has what it refers to and the     *)
(* messages of a conversation are numbered 1 .. n; in what is written of   *)
(* an archive, while nothing was begun meanwhile, a table has all that the *)
(* tables read after it can still refer to.                                *)

Of(db, s) == { m \in db.messages : m.of = s }
Numbers(db, s) == { m.seq : m \in Of(db, s) }
OnePerPlace(messages) ==
    \A m, k \in messages : m.of = k.of /\ m.seq = k.seq => m = k

\* One table of each kind; the messages of a conversation are counted through.
Counted(db) ==
    /\ DOMAIN db = {"clients", "owner", "messages", "audit"}
    /\ db = [clients |-> db.clients, owner |-> db.owner, messages |-> db.messages,
             audit |-> db.audit]
    /\ DOMAIN db.owner = Conversations
    /\ "none" \notin db.clients
    /\ OnePerPlace(db.messages)
    /\ \A s \in Conversations : \E n \in Nat : Numbers(db, s) = 1 .. n

Owned(db) == \A s \in Exports!Held(db) : db.owner[s] \in db.clients
MessagesHeld(db) == \A m \in db.messages : m.of \in Exports!Held(db)

\* Nothing refers to what is not there.
Sound(db) ==
    /\ Counted(db) /\ Owned(db) /\ MessagesHeld(db)
    /\ db.audit \subseteq Exports!Held(db)

\* What the archive owes: next is the table to be read.
Covers(next, a) ==
    /\ next = "sessions" => home.clients \subseteq a.clients
    /\ next \in {"messages", "audit"} => Exports!Held(home) \subseteq Exports!Held(a)
    /\ next \in {"messages", "audit", "done"} => Owned(a)
    /\ next \in {"audit", "done"} => MessagesHeld(a)
    /\ next = "done" => a.audit \subseteq Exports!Held(a)

ArchiveInv ==
    /\ Sound(home) /\ Sound(away)
    /\ archive = [next |-> archive.next, data |-> archive.data]
    /\ archive.next \in Exports!Tables \cup {"none", "done"}
    /\ Counted(archive.data)
    /\ ~torn => Covers(archive.next, archive.data)

\* As many messages as the last one's number says.
LEMMA MessagesCounted ==
    ASSUME NEW db, Counted(db), NEW s \in Conversations, NEW n \in Nat,
           Numbers(db, s) = 1 .. n
    PROVE  Exports!Cardinality({ m \in db.messages : m.of = s }) = n
<1> DEFINE S == Of(db, s)
           f == [i \in 1 .. n |-> CHOOSE m \in S : m.seq = i]
<1>1. \A i \in 1 .. n : f[i] \in S /\ f[i].seq = i
  BY DEF Numbers
<1>2. \A m \in S : m.seq \in 1 .. n /\ f[m.seq] = m
  BY <1>1 DEF Numbers, Of, Counted, OnePerPlace
<1>3. f \in [1 .. n -> S]
  BY <1>1
<1> HIDE DEF f, S
<1>4. f \in Bijection(1 .. n, S)
  <2>1. \A i, j \in 1 .. n : f[i] = f[j] => i = j
    BY <1>1
  <2>2. \A m \in S : \E i \in 1 .. n : f[i] = m
    BY <1>2
  <2> QED
    BY <1>3, <2>1, <2>2 DEF Bijection, Injection, Surjection, IsInjective
<1>5. Cardinality(S) = n
  BY <1>4, FS_CountingElements DEF ExistsBijection
<1> QED
  BY <1>5, Zenon DEF S, Of, Exports!Cardinality, Cardinality

\* A message, an audited call.
LEMMA ServeSound ==
    ASSUME NEW db, NEW new, Sound(db), Exports!Serve(db, new)
    PROVE  Sound(new) /\ new.clients = db.clients /\ new.owner = db.owner
<1>1. ASSUME NEW s \in Exports!Held(db), NEW t \in Texts, NEW n,
             n = Exports!Cardinality({ m \in db.messages : m.of = s }) + 1,
             new = [db EXCEPT !.messages = @ \cup {[of |-> s, seq |-> n, text |-> t]}]
      PROVE  Sound(new) /\ new.clients = db.clients /\ new.owner = db.owner
  <2> DEFINE row == [of |-> s, seq |-> n, text |-> t]
  <2>1. /\ new = [clients |-> db.clients, owner |-> db.owner,
                  messages |-> db.messages \cup {row}, audit |-> db.audit]
        /\ new.clients = db.clients /\ new.owner = db.owner /\ new.audit = db.audit
        /\ new.messages = db.messages \cup {row}
        /\ DOMAIN new = {"clients", "owner", "messages", "audit"}
    BY <1>1 DEF Sound, Counted
  <2>2. s \in Conversations
    BY DEF Exports!Held
  <2>3. PICK k \in Nat : Numbers(db, s) = 1 .. k
    BY <2>2 DEF Sound, Counted
  <2>4. n = k + 1
    BY <1>1, <2>2, <2>3, MessagesCounted DEF Sound
  <2>5. row.of = s /\ row.seq = n
    OBVIOUS
  <2> HIDE DEF row
  <2>6. \A m \in db.messages : m.of = s => m.seq \in 1 .. k
    BY <2>3 DEF Numbers, Of
  <2>7. OnePerPlace(new.messages)
    BY <2>1, <2>4, <2>5, <2>6 DEF Sound, Counted, OnePerPlace
  <2>8. ASSUME NEW r \in Conversations PROVE \E l \in Nat : Numbers(new, r) = 1 .. l
    <3>1. CASE r = s
      <4>1. Numbers(new, s) = Numbers(db, s) \cup {n}
        BY <2>1, <2>5 DEF Numbers, Of
      <4>2. Numbers(new, s) = 1 .. k + 1
        BY <4>1, <2>3, <2>4
      <4> QED
        BY <3>1, <4>2
    <3>2. CASE r # s
      <4>1. Numbers(new, r) = Numbers(db, r)
        BY <2>1, <2>5, <3>2 DEF Numbers, Of
      <4> QED
        BY <4>1 DEF Sound, Counted
    <3> QED
      BY <3>1, <3>2
  <2>9. Exports!Held(new) = Exports!Held(db)
    BY <2>1 DEF Exports!Held
  <2>10. Counted(new)
    BY <2>1, <2>7, <2>8 DEF Sound, Counted
  <2>11. Owned(new) /\ MessagesHeld(new) /\ new.audit \subseteq Exports!Held(new)
    BY <2>1, <2>5, <2>9 DEF Sound, Owned, MessagesHeld
  <2> QED
    BY <2>1, <2>10, <2>11 DEF Sound
<1>2. ASSUME NEW s \in Exports!Held(db), new = [db EXCEPT !.audit = @ \cup {s}]
      PROVE  Sound(new) /\ new.clients = db.clients /\ new.owner = db.owner
  <2>1. /\ new = [clients |-> db.clients, owner |-> db.owner,
                  messages |-> db.messages, audit |-> db.audit \cup {s}]
        /\ new.clients = db.clients /\ new.owner = db.owner /\ new.audit = db.audit \cup {s}
        /\ new.messages = db.messages
        /\ DOMAIN new = {"clients", "owner", "messages", "audit"}
    BY <1>2 DEF Sound, Counted
  <2>2. Exports!Held(new) = Exports!Held(db)
    BY <2>1 DEF Exports!Held
  <2>3. Counted(new)
    BY <2>1 DEF Sound, Counted, Numbers, Of
  <2> QED
    BY <2>1, <2>2, <2>3 DEF Sound, Owned, MessagesHeld
<1> QED
  BY <1>1, <1>2 DEF Exports!Serve, Exports!AppendMessage, Exports!AuditCall

\* A client, a conversation.
LEMMA StartSound ==
    ASSUME NEW db, NEW new, Sound(db), Exports!Start(db, new)
    PROVE  Sound(new)
<1>1. ASSUME NEW c \in Clients, new = [db EXCEPT !.clients = @ \cup {c}] PROVE Sound(new)
  <2>1. /\ new = [clients |-> db.clients \cup {c}, owner |-> db.owner,
                  messages |-> db.messages, audit |-> db.audit]
        /\ new.clients = db.clients \cup {c} /\ new.owner = db.owner /\ new.audit = db.audit
        /\ new.messages = db.messages
        /\ DOMAIN new = {"clients", "owner", "messages", "audit"}
    BY <1>1 DEF Sound, Counted
  <2>2. Exports!Held(new) = Exports!Held(db)
    BY <2>1 DEF Exports!Held
  <2>3. Counted(new)
    BY <2>1, PartsAssumption DEF Sound, Counted, Numbers, Of
  <2> QED
    BY <2>1, <2>2, <2>3 DEF Sound, Owned, MessagesHeld
<1>2. ASSUME NEW s \in Conversations \ Exports!Held(db), NEW c \in db.clients,
             new = [db EXCEPT !.owner[s] = c]
      PROVE  Sound(new)
  <2> DEFINE w == [db.owner EXCEPT ![s] = c]
  <2>1. /\ new = [clients |-> db.clients, owner |-> w,
                  messages |-> db.messages, audit |-> db.audit]
        /\ new.clients = db.clients /\ new.owner = w /\ new.audit = db.audit
        /\ new.messages = db.messages
        /\ DOMAIN new = {"clients", "owner", "messages", "audit"}
    BY <1>2 DEF Sound, Counted
  <2>2. DOMAIN w = Conversations /\ w[s] = c
          /\ \A r \in Conversations : r # s => w[r] = db.owner[r]
    BY DEF Sound, Counted
  <2> HIDE DEF w
  <2>3. Exports!Held(new) = Exports!Held(db) \cup {s}
    BY <2>1, <2>2, <1>2 DEF Exports!Held, Sound, Counted
  <2>4. Counted(new)
    BY <2>1, <2>2 DEF Sound, Counted, Numbers, Of
  <2>5. Owned(new)
    BY <2>1, <2>2, <2>3, <1>2 DEF Sound, Owned, Exports!Held
  <2> QED
    BY <2>1, <2>3, <2>4, <2>5 DEF Sound, MessagesHeld
<1> QED
  BY <1>1, <1>2 DEF Exports!Start, Exports!AddClient, Exports!CreateSession

\* Sessions leave with all that refers to them.
LEMMA WithoutSound ==
    ASSUME NEW db, NEW gone, Sound(db), NEW new, new = Exports!Without(db, gone)
    PROVE  /\ Sound(new) /\ new.clients = db.clients
           /\ Exports!Held(new) = Exports!Held(db) \ gone
           /\ \A s \in Exports!Held(new) : new.owner[s] = db.owner[s]
<1> DEFINE w == [s \in Conversations |-> IF s \in gone THEN "none" ELSE db.owner[s]]
<1>1. /\ new = [clients |-> db.clients, owner |-> w,
                messages |-> { m \in db.messages : m.of \notin gone }, audit |-> db.audit \ gone]
      /\ new.clients = db.clients /\ new.owner = w /\ new.audit = db.audit \ gone
      /\ new.messages = { m \in db.messages : m.of \notin gone }
      /\ DOMAIN new = {"clients", "owner", "messages", "audit"}
  BY DEF Exports!Without, Sound, Counted
<1>2. DOMAIN w = Conversations
        /\ \A s \in Conversations : w[s] = IF s \in gone THEN "none" ELSE db.owner[s]
  OBVIOUS
<1> HIDE DEF w
<1>3. Exports!Held(new) = Exports!Held(db) \ gone
        /\ \A s \in Exports!Held(new) : new.owner[s] = db.owner[s]
  BY <1>1, <1>2 DEF Exports!Held
<1>4. ASSUME NEW s \in Conversations PROVE \E n \in Nat : Numbers(new, s) = 1 .. n
  <2>1. CASE s \in gone
    <3>1. Numbers(new, s) = {}
      BY <1>1, <2>1 DEF Numbers, Of
    <3> QED
      BY <3>1, 0 \in Nat, 1 .. 0 = {}
  <2>2. CASE s \notin gone
    <3>1. Numbers(new, s) = Numbers(db, s)
      BY <1>1, <2>2 DEF Numbers, Of
    <3> QED
      BY <3>1 DEF Sound, Counted
  <2> QED
    BY <2>1, <2>2
<1>5. Counted(new)
  BY <1>1, <1>2, <1>4 DEF Sound, Counted, OnePerPlace
<1> QED
  BY <1>1, <1>3, <1>5 DEF Sound, Owned, MessagesHeld

\* What is dropped leaves nothing behind that refers to it.
LEMMA DropSound ==
    ASSUME NEW db, NEW new, Sound(db), Exports!Drop(db, new)
    PROVE  /\ Sound(new) /\ new.clients \subseteq db.clients
           /\ Exports!Held(new) \subseteq Exports!Held(db)
<1>1. ASSUME NEW gone, new = Exports!Without(db, gone)
      PROVE  /\ Sound(new) /\ new.clients \subseteq db.clients
             /\ Exports!Held(new) \subseteq Exports!Held(db)
  BY <1>1, WithoutSound
<1>2. ASSUME NEW c \in db.clients,
             new = [Exports!Without(db, { s \in Conversations : db.owner[s] = c })
                        EXCEPT !.clients = @ \ {c}]
      PROVE  /\ Sound(new) /\ new.clients \subseteq db.clients
             /\ Exports!Held(new) \subseteq Exports!Held(db)
  <2> DEFINE gone == { s \in Conversations : db.owner[s] = c }
  <2>1. PICK mid : mid = Exports!Without(db, gone)
    OBVIOUS
  <2>2. /\ Sound(mid) /\ mid.clients = db.clients
        /\ Exports!Held(mid) = Exports!Held(db) \ gone
        /\ \A s \in Exports!Held(mid) : mid.owner[s] = db.owner[s]
    BY <2>1, WithoutSound
  <2>3. new = [mid EXCEPT !.clients = @ \ {c}]
    BY <1>2, <2>1
  <2>4. /\ new = [clients |-> mid.clients \ {c}, owner |-> mid.owner,
                  messages |-> mid.messages, audit |-> mid.audit]
        /\ new.clients = mid.clients \ {c} /\ new.owner = mid.owner
        /\ new.audit = mid.audit /\ new.messages = mid.messages
        /\ DOMAIN new = {"clients", "owner", "messages", "audit"}
    BY <2>2, <2>3 DEF Sound, Counted
  <2>5. Exports!Held(new) = Exports!Held(mid)
    BY <2>4 DEF Exports!Held
  <2>6. Counted(new)
    BY <2>2, <2>4 DEF Sound, Counted, Numbers, Of
  <2>7. Owned(new)
    BY <2>2, <2>4, <2>5 DEF Sound, Owned, Exports!Held
  <2> QED
    BY <2>2, <2>4, <2>5, <2>6, <2>7 DEF Sound, MessagesHeld
<1>3. ASSUME NEW s \in db.audit, new = [db EXCEPT !.audit = @ \ {s}]
      PROVE  /\ Sound(new) /\ new.clients \subseteq db.clients
             /\ Exports!Held(new) \subseteq Exports!Held(db)
  <2>1. /\ new = [clients |-> db.clients, owner |-> db.owner,
                  messages |-> db.messages, audit |-> db.audit \ {s}]
        /\ new.clients = db.clients /\ new.owner = db.owner /\ new.audit = db.audit \ {s}
        /\ new.messages = db.messages
        /\ DOMAIN new = {"clients", "owner", "messages", "audit"}
    BY <1>3 DEF Sound, Counted
  <2>2. Exports!Held(new) = Exports!Held(db)
    BY <2>1 DEF Exports!Held
  <2>3. Counted(new)
    BY <2>1 DEF Sound, Counted, Numbers, Of
  <2> QED
    BY <2>1, <2>2, <2>3 DEF Sound, Owned, MessagesHeld
<1> QED
  BY <1>1, <1>2, <1>3
     DEF Exports!Drop, Exports!DeleteSessions, Exports!DeleteClient, Exports!PruneAudit

\* An accepted archive leaves a sound database that has all it had.
LEMMA MergedSound ==
    ASSUME NEW a, NEW db, Counted(a), Sound(db), Exports!Accepted(a, db),
           NEW new, new = Exports!Merged(a, db)
    PROVE  /\ Sound(new)
           /\ db.clients \subseteq new.clients /\ db.messages \subseteq new.messages
           /\ \A s \in Exports!Held(db) : new.owner[s] = db.owner[s]
<1> DEFINE w == [s \in Conversations |->
                    IF db.owner[s] # "none" THEN db.owner[s] ELSE a.owner[s]]
           more == { m \in a.messages :
                       \A k \in db.messages : <<k.of, k.seq>> # <<m.of, m.seq>> }
<1>1. /\ new = [clients |-> a.clients \cup db.clients, owner |-> w,
                messages |-> db.messages \cup more, audit |-> a.audit \cup db.audit]
      /\ new.clients = a.clients \cup db.clients /\ new.owner = w
      /\ new.messages = db.messages \cup more /\ new.audit = a.audit \cup db.audit
      /\ DOMAIN new = {"clients", "owner", "messages", "audit"}
  BY DEF Exports!Merged
<1>2. /\ DOMAIN w = Conversations
      /\ \A s \in Conversations : w[s] = IF db.owner[s] # "none" THEN db.owner[s] ELSE a.owner[s]
  OBVIOUS
<1>3. /\ more \subseteq a.messages
      /\ \A m \in more : \A k \in db.messages : ~(k.of = m.of /\ k.seq = m.seq)
      /\ \A m \in a.messages \ more : \E k \in db.messages : k.of = m.of /\ k.seq = m.seq
  OBVIOUS
<1> HIDE DEF w, more
<1>4. OnePerPlace(new.messages)
  BY <1>1, <1>3 DEF Sound, Counted, OnePerPlace
<1>5. ASSUME NEW s \in Conversations PROVE \E n \in Nat : Numbers(new, s) = 1 .. n
  <2>1. Numbers(new, s) = Numbers(a, s) \cup Numbers(db, s)
    <3>1. Numbers(new, s) \subseteq Numbers(a, s) \cup Numbers(db, s)
      BY <1>1, <1>3 DEF Numbers, Of
    <3>2. Numbers(db, s) \subseteq Numbers(new, s)
      BY <1>1 DEF Numbers, Of
    <3>3. ASSUME NEW m \in a.messages, m.of = s PROVE m.seq \in Numbers(new, s)
      BY <3>3, <1>1, <1>3 DEF Numbers, Of
    <3>4. Numbers(a, s) \subseteq Numbers(new, s)
      BY <3>3 DEF Numbers, Of
    <3> QED
      BY <3>1, <3>2, <3>4
  <2>2. PICK k \in Nat : Numbers(a, s) = 1 .. k
    BY DEF Counted
  <2>3. PICK l \in Nat : Numbers(db, s) = 1 .. l
    BY DEF Sound, Counted
  <2>4. CASE k <= l
    BY <2>1, <2>2, <2>3, <2>4
  <2>5. CASE l < k
    BY <2>1, <2>2, <2>3, <2>5
  <2> QED
    BY <2>4, <2>5
<1>6. Counted(new)
  BY <1>1, <1>2, <1>4, <1>5 DEF Sound, Counted
<1>7. /\ Exports!Held(new) = Exports!Held(a) \cup Exports!Held(db)
      /\ \A s \in Exports!Held(db) : new.owner[s] = db.owner[s]
  BY <1>1, <1>2 DEF Exports!Held
<1>8. Owned(new)
  BY <1>1, <1>2 DEF Sound, Owned, Exports!Held, Exports!Accepted
<1>9. MessagesHeld(new) /\ new.audit \subseteq Exports!Held(new)
  <2>1. /\ \A m \in a.messages : m.of \in Exports!Held(a) \cup Exports!Held(db)
        /\ a.audit \subseteq Exports!Held(a) \cup Exports!Held(db)
    BY DEF Exports!Accepted
  <2> QED
    BY <1>1, <1>3, <1>7, <2>1 DEF Sound, MessagesHeld
<1> QED
  BY <1>1, <1>6, <1>7, <1>8, <1>9 DEF Sound

\* Only an import of a whole archive may be refused, and only if the archive
\* was overtaken.
LEMMA CoveredIsAccepted ==
    ASSUME NEW a, Covers("done", a), NEW db
    PROVE  Exports!Accepted(a, db)
BY DEF Covers, Owned, MessagesHeld, Exports!Accepted

LEMMA ArchiveStep ==
    ASSUME ArchiveInv, [Next]_vars
    PROVE  ArchiveInv'
<1>1. CASE UNCHANGED exportVars
  BY <1>1 DEF exportVars, ArchiveInv, Covers
<1>2. CASE Exports!AtHome
  <2>1. CASE Exports!Serve(home, home') /\ UNCHANGED <<trouble, torn>>
    <3>1. Sound(home') /\ home'.clients = home.clients /\ home'.owner = home.owner
      BY <2>1, ServeSound DEF ArchiveInv
    <3>2. Exports!Held(home') = Exports!Held(home)
      BY <3>1 DEF Exports!Held
    <3> QED
      BY <1>2, <2>1, <3>1, <3>2 DEF Exports!AtHome, ArchiveInv, Covers
  <2>2. CASE Exports!Start(home, home') /\ torn' = (torn \/ Exports!Writing)
    <3>1. Sound(home')
      BY <2>2, StartSound DEF ArchiveInv
    <3>2. ~torn' => ~torn /\ archive.next \notin Exports!Tables
      BY <2>2 DEF Exports!Writing
    <3>3. ~torn' => Covers(archive.next, archive.data)'
      BY <1>2, <3>2 DEF Exports!AtHome, ArchiveInv, Covers, Exports!Tables
    <3> QED
      BY <1>2, <3>1, <3>3 DEF Exports!AtHome, ArchiveInv
  <2>3. CASE Exports!Drop(home, home') /\ UNCHANGED torn
    <3>1. /\ Sound(home') /\ home'.clients \subseteq home.clients
          /\ Exports!Held(home') \subseteq Exports!Held(home)
      BY <2>3, DropSound DEF ArchiveInv
    <3> QED
      BY <1>2, <2>3, <3>1 DEF Exports!AtHome, ArchiveInv, Covers
  <2> QED
    BY <1>2, <2>1, <2>2, <2>3 DEF Exports!AtHome
<1>3. CASE Exports!Elsewhere
  <2>1. Sound(away')
    BY <1>3, ServeSound, StartSound, DropSound DEF Exports!Elsewhere, ArchiveInv
  <2> QED
    BY <1>3, <2>1 DEF Exports!Elsewhere, ArchiveInv, Covers
<1>e. Counted(Exports!Empty)
  <2>1. /\ \A s \in Conversations : Numbers(Exports!Empty, s) = {}
        /\ 0 \in Nat /\ 1 .. 0 = {}
    BY DEF Exports!Empty, Numbers, Of
  <2>2. \A s \in Conversations : \E n \in Nat : Numbers(Exports!Empty, s) = 1 .. n
    BY <2>1
  <2> QED
    BY <2>2 DEF Counted, Exports!Empty, OnePerPlace
<1>4. CASE Exports!ExportBegins
  BY <1>4, <1>e DEF Exports!ExportBegins, ArchiveInv, Covers, Exports!Tables
<1>5. CASE Exports!ExportTable
  <2> DEFINE a == archive.data
  <2>1. PICK b, next : /\ b = archive'.data /\ next = archive'.next
                       /\ archive' = [next |-> next, data |-> b]
    BY <1>5 DEF Exports!ExportTable
  <2>2. UNCHANGED <<home, away, torn>>
    BY <1>5 DEF Exports!ExportTable
  <2>h. Sound(home) /\ Counted(home) /\ Counted(a)
    BY DEF ArchiveInv, Sound
  <2>3. CASE archive.next = "clients"
    <3>1. next = "sessions" /\ b = [a EXCEPT !.clients = home.clients]
      BY <1>5, <2>1, <2>3, Zenon DEF Exports!ExportTable, Exports!After
    <3>2. /\ b = [clients |-> home.clients, owner |-> a.owner, messages |-> a.messages,
                  audit |-> a.audit]
          /\ b.clients = home.clients /\ b.owner = a.owner /\ b.messages = a.messages
          /\ b.audit = a.audit /\ DOMAIN b = {"clients", "owner", "messages", "audit"}
      BY <3>1, <2>h DEF Counted
    <3>3. Counted(b)
      BY <3>2, <2>h DEF Counted, Numbers, Of
    <3>4. Covers(next, b)
      BY <3>1, <3>2 DEF Covers
    <3> QED
      BY <2>1, <2>2, <3>1, <3>3, <3>4 DEF ArchiveInv, Covers, Exports!Tables
  <2>4. CASE archive.next = "sessions"
    <3>1. next = "messages" /\ b = [a EXCEPT !.owner = home.owner]
      BY <1>5, <2>1, <2>4, Zenon DEF Exports!ExportTable, Exports!After
    <3>2. /\ b = [clients |-> a.clients, owner |-> home.owner, messages |-> a.messages,
                  audit |-> a.audit]
          /\ b.clients = a.clients /\ b.owner = home.owner /\ b.messages = a.messages
          /\ b.audit = a.audit /\ DOMAIN b = {"clients", "owner", "messages", "audit"}
      BY <3>1, <2>h DEF Counted
    <3>3. Counted(b)
      BY <3>2, <2>h DEF Counted, Numbers, Of
    <3>4. Exports!Held(b) = Exports!Held(home)
      BY <3>2 DEF Exports!Held
    <3>5. ~torn => Covers(next, b)
      <4> SUFFICES ASSUME ~torn PROVE Covers(next, b)
        OBVIOUS
      <4>1. home.clients \subseteq a.clients
        BY <2>4 DEF ArchiveInv, Covers
      <4>2. Owned(b)
        BY <4>1, <3>2, <3>4, <2>h DEF Sound, Owned
      <4> QED
        BY <3>1, <3>4, <4>2 DEF Covers
    <3> QED
      BY <2>1, <2>2, <3>1, <3>3, <3>5 DEF ArchiveInv, Covers, Exports!Tables
  <2>5. CASE archive.next = "messages"
    <3>1. next = "audit" /\ b = [a EXCEPT !.messages = home.messages]
      BY <1>5, <2>1, <2>5, Zenon DEF Exports!ExportTable, Exports!After
    <3>2. /\ b = [clients |-> a.clients, owner |-> a.owner, messages |-> home.messages,
                  audit |-> a.audit]
          /\ b.clients = a.clients /\ b.owner = a.owner /\ b.messages = home.messages
          /\ b.audit = a.audit /\ DOMAIN b = {"clients", "owner", "messages", "audit"}
      BY <3>1, <2>h DEF Counted
    <3>3. Counted(b)
      BY <3>2, <2>h DEF Counted, Numbers, Of
    <3>4. Exports!Held(b) = Exports!Held(a)
      BY <3>2 DEF Exports!Held
    <3>5. ~torn => Covers(next, b)
      BY <2>5, <2>h, <3>1, <3>2, <3>4 DEF ArchiveInv, Covers, Sound, Owned, MessagesHeld
    <3> QED
      BY <2>1, <2>2, <3>1, <3>3, <3>5 DEF ArchiveInv, Covers, Exports!Tables
  <2>6. CASE archive.next = "audit"
    <3>1. next = "done" /\ b = [a EXCEPT !.audit = home.audit]
      BY <1>5, <2>1, <2>6, Zenon DEF Exports!ExportTable, Exports!After
    <3>2. /\ b = [clients |-> a.clients, owner |-> a.owner, messages |-> a.messages,
                  audit |-> home.audit]
          /\ b.clients = a.clients /\ b.owner = a.owner /\ b.messages = a.messages
          /\ b.audit = home.audit /\ DOMAIN b = {"clients", "owner", "messages", "audit"}
      BY <3>1, <2>h DEF Counted
    <3>3. Counted(b)
      BY <3>2, <2>h DEF Counted, Numbers, Of
    <3>4. Exports!Held(b) = Exports!Held(a)
      BY <3>2 DEF Exports!Held
    <3>5. ~torn => Covers(next, b)
      BY <2>6, <2>h, <3>1, <3>2, <3>4 DEF ArchiveInv, Covers, Sound, Owned, MessagesHeld
    <3> QED
      BY <2>1, <2>2, <3>1, <3>3, <3>5 DEF ArchiveInv, Covers, Exports!Tables
  <2> QED
    BY <1>5, <2>3, <2>4, <2>5, <2>6 DEF Exports!ExportTable, Exports!Writing, Exports!Tables
<1>6. CASE Exports!ArchiveLost
  BY <1>6, <1>e DEF Exports!ArchiveLost, Exports!NoArchive, ArchiveInv, Covers
<1>7. CASE Exports!ImportMemory
  <2>1. Sound(away')
    BY <1>7, MergedSound DEF Exports!ImportMemory, ArchiveInv
  <2> QED
    BY <1>7, <2>1 DEF Exports!ImportMemory, ArchiveInv, Covers
<1> QED
  BY <1>1, <1>2, <1>3, <1>4, <1>5, <1>6, <1>7, Steps DEF Exports!Next

\* What an import does.
LEMMA ImportIsSafe ==
    ASSUME ArchiveInv, Exports!ImportMemory
    PROVE  /\ refused' => torn
           /\ away.clients \subseteq away'.clients /\ away.messages \subseteq away'.messages
           /\ \A s \in Exports!Held(away) : away'.owner[s] = away.owner[s]
           /\ { m.of : m \in away'.messages } \cup away'.audit \subseteq Exports!Held(away')
           /\ \A m, k \in away'.messages : m.of = k.of /\ m.seq = k.seq => m = k
<1>1. refused' => torn
  BY CoveredIsAccepted DEF Exports!ImportMemory, ArchiveInv
<1>2. /\ Sound(away')
      /\ away.clients \subseteq away'.clients /\ away.messages \subseteq away'.messages
      /\ \A s \in Exports!Held(away) : away'.owner[s] = away.owner[s]
  BY MergedSound DEF Exports!ImportMemory, ArchiveInv
<1> QED
  BY <1>1, <1>2 DEF Sound, Counted, OnePerPlace, MessagesHeld

\* For any clients, conversations and messages, and however the two servers go
\* on while an archive is written: one written to its end can be imported
\* unless a client or a conversation was begun meanwhile, an import changes
\* nothing that is there, and leaves every row with what it refers to and each
\* place in a conversation with one message (utilities/export.go: ExportMemory,
\* ImportMemory).
THEOREM ArchiveIsSafe == Spec => ArchiveSafe
<1>1. Init => ArchiveInv
  <2> SUFFICES ASSUME Init PROVE ArchiveInv
    OBVIOUS
  <2>1. /\ home = Exports!Empty /\ away = Exports!Empty /\ archive = Exports!NoArchive
        /\ torn = FALSE
    BY DEF Init, Exports!Init
  <2>2. /\ \A s \in Conversations : Numbers(Exports!Empty, s) = {}
        /\ 0 \in Nat /\ 1 .. 0 = {}
    BY DEF Exports!Empty, Numbers, Of
  <2>3. \A s \in Conversations : \E n \in Nat : Numbers(Exports!Empty, s) = 1 .. n
    BY <2>2
  <2>4. Counted(Exports!Empty)
    BY <2>3 DEF Counted, Exports!Empty, OnePerPlace
  <2>5. Sound(Exports!Empty)
    BY <2>4 DEF Sound, Owned, MessagesHeld, Exports!Empty, Exports!Held
  <2> QED
    BY <2>1, <2>4, <2>5 DEF ArchiveInv, Exports!NoArchive, Covers
<1>2. ArchiveInv /\ [Next]_vars
        => /\ [Exports!ImportMemory /\ refused' => torn]_(Exports!vars)
           /\ [Exports!ImportMemory =>
                 /\ away.clients \subseteq away'.clients /\ away.messages \subseteq away'.messages
                 /\ \A s \in Exports!Held(away) : away'.owner[s] = away.owner[s]
                 /\ { m.of : m \in away'.messages } \cup away'.audit \subseteq Exports!Held(away')
                 /\ \A m, k \in away'.messages : m.of = k.of /\ m.seq = k.seq => m = k]_(Exports!vars)
  BY ImportIsSafe
<1> QED
  BY <1>1, <1>2, ArchiveStep, PTL
     DEF Spec, ArchiveSafe, Exports!CompleteIsImportable, Exports!MergeIsSafe

-----------------------------------------------------------------------------
(* The treasury.  What the ledger holds of a record is its entry, until    *)
(* the record is taken back, and then nothing.                             *)

Lines == { l \in [Funds!Accounts -> Int] : Funds!Balanced(l) }

Entries == [day : 1 .. LastDay, lines : Lines, of : 0 .. MaxRecords, mirrors : Nat]

Postings(offer) ==
    IF offer.kind = "expense" THEN Funds!ExpensePostings(offer)
                              ELSE Funds!FundingPostings(offer)

\* What a handler has in hand.
InHand(w) ==
    /\ DOMAIN w = DOMAIN Funds!Idle
    /\ w.at \in {"idle", "record", "hand", "reverse", "erase"}
    /\ w.at \in {"record", "hand", "reverse"} => w.day \in 1 .. LastDay
    /\ w.at = "record" => w.row \in Offers
    /\ w.at = "hand" => w.lines \in Lines
    /\ w.at = "reverse" => w.entry \in 1 .. Len(journal)
    /\ w.seen \in 0 .. Len(journal) /\ w.id \in 0 .. nextRecord - 1
    /\ w.at = "erase" => w.id # 0

FundTypes ==
    /\ today \in 1 .. LastDay
    /\ journal \in Seq(Entries)
    /\ nextRecord \in 1 .. MaxRecords + 1
    /\ DOMAIN records \subseteq 1 .. nextRecord - 1
    /\ DOMAIN clerk = Clerks
    /\ \A c \in Clerks : InHand(clerk[c])

\* The entries that are not reversals, of records that were made.
Originals ==
    /\ \A n \in 1 .. Len(journal) : journal[n].of < nextRecord
    /\ \A id \in DOMAIN records :
        /\ records[id].offer \in Offers
        /\ LET n == records[id].entry IN
            /\ n \in 1 .. Len(journal)
            /\ journal[n].of = id /\ journal[n].mirrors = 0
            /\ journal[n].lines = Postings(records[id].offer)
    /\ \A c \in Clerks : clerk[c].at = "reverse" /\ clerk[c].id # 0 =>
        journal[clerk[c].entry].of = clerk[c].id /\ journal[clerk[c].entry].mirrors = 0

MadeOf(J, id) == { n \in 1 .. Len(J) : J[n].of = id }
HeldOf(J, a, id) == Sum([n \in 1 .. Len(J) |-> J[n].lines[a]], MadeOf(J, id))

\* Is the record there, and nobody about to remove its row?
Booked(id) == id \in DOMAIN records /\ \A c \in Clerks : clerk[c].at = "erase" => clerk[c].id # id

\* A record is in the ledger once, or was there and was taken out of it again.
InLedger(id) ==
    IF Booked(id)
    THEN MadeOf(journal, id) = {records[id].entry}
    ELSE /\ \A a \in Funds!Accounts : HeldOf(journal, a, id) = 0
         /\ \A n \in MadeOf(journal, id) : journal[n].mirrors = 0 =>
                \E m \in 1 .. Len(journal) : journal[m].mirrors = n

\* What a repayment takes, or the removal of a loan, was still owed when the
\* handler looked; if anything was posted since, it can tell.
CoveredFor(w) ==
    w.seen = Len(journal) =>
        /\ w.at = "record" /\ w.row.kind = "repayment" =>
             w.row.amount <= Funds!OwnerLoanBalance(w.day)
        /\ w.at = "reverse" /\ w.id # 0 =>
             LET moved == journal[w.entry].lines["loan"]
             IN moved < 0 => -moved <= Funds!OwnerLoanBalance(w.day)

FundInv ==
    /\ FundTypes /\ Originals
    /\ \A id \in 1 .. MaxRecords \ unsure : InLedger(id)
    /\ \A c \in Clerks : CoveredFor(clerk[c])

-----------------------------------------------------------------------------
(* What the ledger holds                                                   *)

OnAccount(J, a) == [n \in 1 .. Len(J) |-> J[n].lines[a]]
Upto(J, ids, d) == { n \in DOMAIN J : J[n].of \in ids /\ J[n].day <= d }
EffectIn(J, a, ids, d) == MapThenSumSet(LAMBDA n : J[n].lines[a], Upto(J, ids, d))

LEMMA EffectNow == \A a, ids, d : Funds!Effect(a, ids, d) = EffectIn(journal, a, ids, d)
BY DEF Funds!Effect, Funds!MapThenSumSet, Funds!MapThenFoldSet, MapThenSumSet, MapThenFoldSet,
       EffectIn, Upto

LEMMA EffectNext == \A a, ids, d : Funds!Effect(a, ids, d)' = EffectIn(journal', a, ids, d)
BY DEF Funds!Effect, Funds!MapThenSumSet, Funds!MapThenFoldSet, MapThenSumSet, MapThenFoldSet,
       EffectIn, Upto

LEMMA EntryTypes ==
    ASSUME NEW J \in Seq(Entries), NEW a \in Funds!Accounts
    PROVE  /\ Len(J) \in Nat /\ DOMAIN J = 1 .. Len(J) /\ IsFiniteSet(1 .. Len(J))
           /\ \A n \in 1 .. Len(J) :
                /\ J[n] \in Entries /\ J[n].lines[a] \in Int
                /\ J[n].day \in Nat /\ J[n].day <= LastDay /\ J[n].of \in 0 .. MaxRecords
           /\ \A n \in 1 .. Len(J) : OnAccount(J, a)[n] = J[n].lines[a]
<1>1. Len(J) \in Nat /\ DOMAIN J = 1 .. Len(J) /\ \A n \in 1 .. Len(J) : J[n] \in Entries
  OBVIOUS
<1>2. IsFiniteSet(1 .. Len(J))
  BY <1>1, FS_Interval
<1>3. ASSUME NEW n \in 1 .. Len(J)
      PROVE  /\ J[n].lines[a] \in Int /\ J[n].day \in 1 .. LastDay
             /\ J[n].of \in 0 .. MaxRecords
  BY <1>1 DEF Entries, Lines
<1>4. \A n \in 1 .. Len(J) : OnAccount(J, a)[n] = J[n].lines[a]
  BY DEF OnAccount
<1>5. \A n \in 1 .. Len(J) : J[n].day \in Nat /\ J[n].day <= LastDay
  BY <1>3, FundsAssumption
<1> QED
  BY <1>1, <1>2, <1>3, <1>4, <1>5

LEMMA EffectIsSum ==
    ASSUME NEW J \in Seq(Entries), NEW a \in Funds!Accounts, NEW ids, NEW d
    PROVE  /\ EffectIn(J, a, ids, d) = Sum(OnAccount(J, a), Upto(J, ids, d))
           /\ IsFiniteSet(Upto(J, ids, d)) /\ Upto(J, ids, d) \subseteq 1 .. Len(J)
<1> DEFINE F == OnAccount(J, a)
           S == Upto(J, ids, d)
           Adds(h) == h = [s \in SUBSET S |-> IF s = {} THEN 0
                             ELSE LET x == CHOOSE x \in s : TRUE IN J[x].lines[a] + h[s \ {x}]]
           h == CHOOSE h : Adds(h)
<1>0. S \subseteq 1 .. Len(J) /\ IsFiniteSet(S) /\ \A n \in S : F[n] = J[n].lines[a]
  <2>1. S \subseteq 1 .. Len(J)
    BY EntryTypes DEF Upto
  <2> QED
    BY <2>1, EntryTypes, FS_Subset
<1>4. EffectIn(J, a, ids, d) = h[S]
  BY DEF EffectIn, MapThenSumSet, MapThenFoldSet
<1> HIDE DEF S, F
<1>1. ASSUME NEW g PROVE Adds(g) <=> Sums(F, S, g)
  BY <1>0, ZenonT(60) DEF Sums
<1>2. \E g : Adds(g)
  <2> HIDE DEF Adds
  <2> QED
    BY <1>0, <1>1, SumsExist
<1>3. Adds(h)
  <2> HIDE DEF Adds
  <2> QED
    BY <1>2
<1>5. Sums(F, S, h)
  <2> HIDE DEF Adds, h
  <2> QED
    BY <1>1, <1>3
<1> HIDE DEF h, Adds
<1> QED
  BY <1>0, <1>4, <1>5, SumOf DEF F, S

\* A longer journal.
LEMMA Appended ==
    ASSUME NEW J \in Seq(Entries), NEW e \in Entries
    PROVE  /\ Append(J, e) \in Seq(Entries) /\ Len(Append(J, e)) = Len(J) + 1
           /\ \A n \in 1 .. Len(J) : Append(J, e)[n] = J[n]
           /\ Append(J, e)[Len(J) + 1] = e
OBVIOUS

\* A new entry adds its lines to the sums it is part of.
LEMMA SumAppended ==
    ASSUME NEW J \in Seq(Entries), NEW e \in Entries, NEW a \in Funds!Accounts,
           NEW S \in SUBSET (1 .. Len(J))
    PROVE  LET L == Append(J, e) IN
             /\ Sum(OnAccount(L, a), S) = Sum(OnAccount(J, a), S)
             /\ Sum(OnAccount(L, a), S \cup {Len(J) + 1}) =
                  Sum(OnAccount(J, a), S) + e.lines[a]
             /\ Sum(OnAccount(J, a), S) \in Int
<1> DEFINE L == Append(J, e)
           F == OnAccount(J, a)
           G == OnAccount(L, a)
<1>1. IsFiniteSet(S) /\ Len(J) + 1 \notin S
  BY EntryTypes, FS_Subset
<1>2. L \in Seq(Entries) /\ Len(L) = Len(J) + 1 /\ \A n \in 1 .. Len(J) : L[n] = J[n]
  BY Appended
<1>3. L[Len(J) + 1] = e
  BY Appended
<1> HIDE DEF L
<1>4. \A n \in S : F[n] = G[n] /\ F[n] \in Int /\ n \in 1 .. Len(L)
  BY <1>2, EntryTypes
<1>5. G[Len(J) + 1] = e.lines[a] /\ e.lines[a] \in Int
  BY <1>2, <1>3, EntryTypes
<1> HIDE DEF F, G
<1>6. Sum(F, S) = Sum(G, S)
  <2>1. \A n \in S : F[n] = G[n]
    BY <1>4
  <2> QED
    BY <1>1, <2>1, SumSame
<1>s. Sum(F, S) \in Int
  <2>1. \A n \in S : F[n] \in Int
    BY <1>4
  <2> QED
    BY <1>1, <2>1, SumTake
<1>7. PICK x : x = Len(J) + 1
  OBVIOUS
<1>8. \A n \in S \cup {x} : G[n] \in Int
  BY <1>4, <1>5, <1>7
<1>9. Sum(G, S \cup {x}) = G[x] + Sum(G, S)
  BY <1>1, <1>7, <1>8, SumAdd
<1> QED
  BY <1>5, <1>6, <1>s, <1>7, <1>9 DEF F, G, L

\* What each kind of record posts.
LEMMA PostingsAre ==
    ASSUME NEW o \in Offers
    PROVE  LET l == Postings(o)
               tax == Funds!VAT(o.amount, o.rate)
           IN /\ l \in Lines /\ o.amount \in Nat \ {0} /\ tax \in Int
              /\ o.kind \in {"capital", "loan", "repayment", "expense"}
              /\ o.kind = "capital" => l["bank"] = o.amount /\ l["capital"] = -o.amount
                                       /\ l["loan"] = 0 /\ l["vat"] = 0
              /\ o.kind = "loan" => l["bank"] = o.amount /\ l["loan"] = -o.amount
                                    /\ l["capital"] = 0 /\ l["vat"] = 0
              /\ o.kind = "repayment" => l["bank"] = -o.amount /\ l["loan"] = o.amount
                                         /\ l["capital"] = 0 /\ l["vat"] = 0
              /\ o.kind = "expense" =>
                   /\ l["bank"] = -o.amount - tax /\ l["loan"] = 0 /\ l["capital"] = 0
                   /\ l["vat"] = IF o.reclaimable THEN tax ELSE 0
<1>1. /\ o.amount \in Nat \ {0} /\ o.rate \in Nat
      /\ o.kind \in {"capital", "loan", "repayment", "expense"}
  BY FundsAssumption DEF Funds!Offer, Funds!Fundings
<1>2. PICK tax : tax = Funds!VAT(o.amount, o.rate)
  OBVIOUS
<1>3. tax \in Int
  BY <1>1, <1>2 DEF Funds!VAT
<1>4. PICK n \in Int : n = o.amount
  BY <1>1
<1>5. CASE o.kind = "capital"
  <2>1. Postings(o) = Funds!Move("bank", "capital", o.amount)
    BY <1>5 DEF Postings, Funds!FundingPostings
  <2>2. /\ Postings(o) \in [Funds!Accounts -> Int]
        /\ Postings(o)["bank"] = o.amount /\ Postings(o)["capital"] = -o.amount
        /\ Postings(o)["loan"] = 0 /\ Postings(o)["cost"] = 0 /\ Postings(o)["vat"] = 0
    BY <1>4, <2>1 DEF Funds!Move, Funds!Accounts
  <2>3. Postings(o) \in Lines
    BY <1>1, <2>2 DEF Lines, Funds!Balanced
  <2> QED
    BY <1>1, <1>2, <1>3, <1>5, <2>2, <2>3
<1>6. CASE o.kind = "loan"
  <2>1. Postings(o) = Funds!Move("bank", "loan", o.amount)
    BY <1>6 DEF Postings, Funds!FundingPostings
  <2>2. /\ Postings(o) \in [Funds!Accounts -> Int]
        /\ Postings(o)["bank"] = o.amount /\ Postings(o)["loan"] = -o.amount
        /\ Postings(o)["capital"] = 0 /\ Postings(o)["cost"] = 0 /\ Postings(o)["vat"] = 0
    BY <1>4, <2>1 DEF Funds!Move, Funds!Accounts
  <2>3. Postings(o) \in Lines
    BY <1>1, <2>2 DEF Lines, Funds!Balanced
  <2> QED
    BY <1>1, <1>2, <1>3, <1>6, <2>2, <2>3
<1>7. CASE o.kind = "repayment"
  <2>1. Postings(o) = Funds!Move("loan", "bank", o.amount)
    BY <1>7 DEF Postings, Funds!FundingPostings
  <2>2. /\ Postings(o) \in [Funds!Accounts -> Int]
        /\ Postings(o)["loan"] = o.amount /\ Postings(o)["bank"] = -o.amount
        /\ Postings(o)["capital"] = 0 /\ Postings(o)["cost"] = 0 /\ Postings(o)["vat"] = 0
    BY <1>4, <2>1 DEF Funds!Move, Funds!Accounts
  <2>3. Postings(o) \in Lines
    BY <1>1, <2>2 DEF Lines, Funds!Balanced
  <2> QED
    BY <1>1, <1>2, <1>3, <1>7, <2>2, <2>3
<1>8. CASE o.kind = "expense" /\ o.reclaimable
  <2>1. PICK m : m = Funds!Move("cost", "bank", o.amount)
    OBVIOUS
  <2>2. Postings(o) = [m EXCEPT !["vat"] = tax, !["bank"] = @ - tax]
    BY <1>2, <1>8, <2>1 DEF Postings, Funds!ExpensePostings
  <2>3. /\ m \in [Funds!Accounts -> Int] /\ m["cost"] = o.amount /\ m["bank"] = -o.amount
        /\ m["loan"] = 0 /\ m["capital"] = 0 /\ m["vat"] = 0
    BY <1>4, <2>1 DEF Funds!Move, Funds!Accounts
  <2>4. /\ Postings(o) \in [Funds!Accounts -> Int]
        /\ Postings(o)["cost"] = o.amount /\ Postings(o)["bank"] = -o.amount - tax
        /\ Postings(o)["loan"] = 0 /\ Postings(o)["capital"] = 0 /\ Postings(o)["vat"] = tax
    BY <1>1, <1>3, <2>2, <2>3 DEF Funds!Accounts
  <2> QED
    BY <1>1, <1>2, <1>3, <1>8, <2>4 DEF Lines, Funds!Balanced
<1>9. CASE o.kind = "expense" /\ ~o.reclaimable
  <2>1. PICK m \in Int : m = o.amount + tax
    BY <1>1, <1>3
  <2>2. Postings(o) = Funds!Move("cost", "bank", m)
    BY <1>2, <1>9, <2>1 DEF Postings, Funds!ExpensePostings
  <2>3. /\ Postings(o) \in [Funds!Accounts -> Int]
        /\ Postings(o)["cost"] = m /\ Postings(o)["bank"] = -m
        /\ Postings(o)["loan"] = 0 /\ Postings(o)["capital"] = 0 /\ Postings(o)["vat"] = 0
    BY <2>1, <2>2 DEF Funds!Move, Funds!Accounts
  <2>4. Postings(o) \in Lines
    <3>1. -m + 0 + 0 + m + 0 = 0
      BY <2>1
    <3> QED
      BY <2>3, <3>1 DEF Lines, Funds!Balanced
  <2>5. -m = -o.amount - tax
    BY <1>1, <1>3, <2>1
  <2> QED
    BY <1>1, <1>2, <1>3, <1>9, <2>3, <2>4, <2>5
<1> QED
  BY <1>1, <1>5, <1>6, <1>7, <1>8, <1>9

\* The mirror image of an entry takes it out.
LEMMA Mirrored ==
    ASSUME NEW l \in Lines
    PROVE  /\ [a \in Funds!Accounts |-> -l[a]] \in Lines
           /\ \A a \in Funds!Accounts : l[a] \in Int
<1>1. l \in [Funds!Accounts -> Int] /\ Funds!Balanced(l)
  BY DEF Lines
<1> QED
  BY <1>1 DEF Lines, Funds!Balanced, Funds!Accounts

LEMMA HeldType ==
    ASSUME NEW J \in Seq(Entries), NEW a \in Funds!Accounts, NEW id
    PROVE  /\ HeldOf(J, a, id) \in Int
           /\ MadeOf(J, id) \subseteq 1 .. Len(J)
           /\ MadeOf(J, id) = {} => HeldOf(J, a, id) = 0
           /\ \A n : MadeOf(J, id) = {n} => HeldOf(J, a, id) = J[n].lines[a]
<1>1. HeldOf(J, a, id) = Sum(OnAccount(J, a), MadeOf(J, id))
  BY DEF HeldOf, OnAccount
<1>2. IsFiniteSet(MadeOf(J, id)) /\ MadeOf(J, id) \subseteq 1 .. Len(J)
  BY EntryTypes, FS_Subset DEF MadeOf
<1>3. \A n \in MadeOf(J, id) : OnAccount(J, a)[n] \in Int
  BY <1>2, EntryTypes
<1>4. HeldOf(J, a, id) \in Int
  BY <1>1, <1>2, <1>3, SumTake
<1>5. MadeOf(J, id) = {} => HeldOf(J, a, id) = 0
  BY <1>1, SumEmpty
<1>6. ASSUME NEW n, MadeOf(J, id) = {n} PROVE HeldOf(J, a, id) = J[n].lines[a]
  <2>1. /\ IsFiniteSet({}) /\ n \notin {} /\ {} \cup {n} = {n}
        /\ \A y \in {} \cup {n} : OnAccount(J, a)[y] \in Int
    BY <1>3, <1>6, FS_EmptySet
  <2>2. Sum(OnAccount(J, a), {} \cup {n}) = OnAccount(J, a)[n] + Sum(OnAccount(J, a), {})
    BY <2>1, SumAdd
  <2>3. /\ Sum(OnAccount(J, a), {}) = 0 /\ OnAccount(J, a)[n] \in Int
        /\ OnAccount(J, a)[n] = J[n].lines[a]
    BY <1>2, <1>3, <1>6, EntryTypes, SumEmpty
  <2>4. Sum(OnAccount(J, a), {n}) = OnAccount(J, a)[n] + 0
    BY <2>1, <2>2, <2>3
  <2> QED
    BY <1>1, <1>6, <2>3, <2>4
<1> QED
  BY <1>2, <1>4, <1>5, <1>6

LEMMA HeldAppended ==
    ASSUME NEW J \in Seq(Entries), NEW e \in Entries, NEW id, e.of = id
    PROVE  /\ MadeOf(Append(J, e), id) = MadeOf(J, id) \cup {Len(J) + 1}
           /\ \A a \in Funds!Accounts :
                HeldOf(Append(J, e), a, id) = HeldOf(J, a, id) + e.lines[a]
<1>1. PICK L : L = Append(J, e)
  OBVIOUS
<1>2. /\ Len(L) = Len(J) + 1 /\ L[Len(J) + 1] = e /\ Len(J) \in Nat
      /\ \A n \in 1 .. Len(J) : L[n] = J[n]
  BY <1>1, Appended
<1>3. MadeOf(L, id) = MadeOf(J, id) \cup {Len(J) + 1}
  BY <1>2 DEF MadeOf
<1>4. MadeOf(J, id) \in SUBSET (1 .. Len(J))
  BY DEF MadeOf
<1>5. ASSUME NEW a \in Funds!Accounts
      PROVE  HeldOf(L, a, id) = HeldOf(J, a, id) + e.lines[a]
  <2>1. Sum(OnAccount(L, a), MadeOf(J, id) \cup {Len(J) + 1}) =
             Sum(OnAccount(J, a), MadeOf(J, id)) + e.lines[a]
    BY <1>1, <1>4, SumAppended
  <2> QED
    BY <1>3, <2>1 DEF HeldOf, OnAccount
<1> QED
  BY <1>1, <1>3, <1>5

\* It is nothing to the other records.
LEMMA HeldAside ==
    ASSUME NEW J \in Seq(Entries), NEW e \in Entries, NEW id, e.of # id
    PROVE  /\ MadeOf(Append(J, e), id) = MadeOf(J, id)
           /\ \A a \in Funds!Accounts : HeldOf(Append(J, e), a, id) = HeldOf(J, a, id)
<1>1. PICK L : L = Append(J, e)
  OBVIOUS
<1>2. /\ Len(L) = Len(J) + 1 /\ L[Len(J) + 1] = e /\ Len(J) \in Nat
      /\ \A n \in 1 .. Len(J) : L[n] = J[n]
  BY <1>1, Appended
<1>3. MadeOf(L, id) = MadeOf(J, id)
  BY <1>2 DEF MadeOf
<1>4. MadeOf(J, id) \in SUBSET (1 .. Len(J))
  BY DEF MadeOf
<1>5. ASSUME NEW a \in Funds!Accounts
      PROVE  HeldOf(L, a, id) = HeldOf(J, a, id)
  <2>1. Sum(OnAccount(L, a), MadeOf(J, id)) = Sum(OnAccount(J, a), MadeOf(J, id))
    BY <1>1, <1>4, SumAppended
  <2> QED
    BY <1>3, <2>1 DEF HeldOf, OnAccount
<1> QED
  BY <1>1, <1>3, <1>5

-----------------------------------------------------------------------------
(* The steps                                                               *)

\* What comes of a request that was checked.
LEMMA BeginIs ==
    ASSUME FundTypes, NEW c \in Clerks, NEW work, Funds!Begin(c, work)
    PROVE  \E w :
             /\ clerk' = [clerk EXCEPT ![c] = w]
             /\ DOMAIN w = DOMAIN Funds!Idle /\ w.seen = Len(journal)
             /\ \A x \in DOMAIN Funds!Idle \ {"seen"} :
                    w[x] = IF x \in DOMAIN work THEN work[x] ELSE Funds!Idle[x]
             /\ clerk[c] = Funds!Idle
             /\ UNCHANGED <<today, journal, records, nextRecord, unsure>>
<1> DEFINE w == [x \in DOMAIN Funds!Idle |->
                    IF x = "seen" THEN Len(journal)
                    ELSE IF x \in DOMAIN work THEN work[x] ELSE Funds!Idle[x]]
<1>1. clerk' = [clerk EXCEPT ![c] = w] /\ clerk[c] = Funds!Idle
  BY DEF Funds!Begin
<1>2. UNCHANGED <<today, journal, records, nextRecord, unsure>>
  BY DEF Funds!Begin, Funds!books
<1>3. DOMAIN w = DOMAIN Funds!Idle /\ w.seen = Len(journal)
  BY DEF Funds!Idle
<1>4. \A x \in DOMAIN Funds!Idle \ {"seen"} :
          w[x] = IF x \in DOMAIN work THEN work[x] ELSE Funds!Idle[x]
  OBVIOUS
<1> QED
  BY <1>1, <1>2, <1>3, <1>4

Checked(w) ==
    /\ InHand(w) /\ w.at \notin {"idle", "erase"} /\ CoveredFor(w)
    /\ w.at = "reverse" /\ w.id # 0 => w.id \in DOMAIN records /\ w.entry = records[w.id].entry

LEMMA Requested ==
    ASSUME FundTypes, Originals, NEW c \in Clerks, Funds!Request(c)
    PROVE  \E w :
             /\ clerk' = [clerk EXCEPT ![c] = w] /\ Checked(w)
             /\ clerk[c] = Funds!Idle
             /\ UNCHANGED <<today, journal, records, nextRecord, unsure>>
<1>f. DOMAIN Funds!Idle = {"at", "row", "lines", "entry", "id", "day", "seen"}
      /\ Funds!Idle.id = 0
  BY DEF Funds!Idle
<1>j. Len(journal) \in Nat /\ DOMAIN journal = 1 .. Len(journal) /\ nextRecord \in Nat \ {0}
      /\ \A n \in 1 .. Len(journal) : journal[n] \in Entries
  BY FundsAssumption DEF FundTypes
<1>1. CASE Funds!BeginFunding(c) \/ Funds!BeginExpense(c)
  <2>1. PICK o \in Offers, d \in 1 .. LastDay :
          /\ o.kind = "repayment" => Funds!OwnerLoanBalance(d) >= o.amount
          /\ Funds!Begin(c, [at |-> "record", day |-> d, row |-> o])
    <3>1. CASE Funds!BeginFunding(c)
      BY <3>1 DEF Funds!BeginFunding, Funds!Days
    <3>2. CASE Funds!BeginExpense(c)
      BY <3>2 DEF Funds!BeginExpense, Funds!Days
    <3> QED
      BY <1>1, <3>1, <3>2
  <2>2. PICK work : work = [at |-> "record", day |-> d, row |-> o]
    OBVIOUS
  <2>3. DOMAIN work = {"at", "day", "row"} /\ work.at = "record" /\ work.day = d /\ work.row = o
    BY <2>2
  <2>4. PICK w :
          /\ clerk' = [clerk EXCEPT ![c] = w]
          /\ DOMAIN w = DOMAIN Funds!Idle /\ w.seen = Len(journal)
          /\ \A x \in DOMAIN Funds!Idle \ {"seen"} :
                 w[x] = IF x \in DOMAIN work THEN work[x] ELSE Funds!Idle[x]
          /\ clerk[c] = Funds!Idle
          /\ UNCHANGED <<today, journal, records, nextRecord, unsure>>
    BY <2>1, <2>2, BeginIs
  <2>5. w.at = "record" /\ w.day = d /\ w.row = o /\ w.id = 0
    BY <1>f, <2>3, <2>4
  <2>6. Funds!OwnerLoanBalance(d) >= o.amount => o.amount <= Funds!OwnerLoanBalance(d)
    OBVIOUS
  <2>7. Checked(w)
    BY <1>j, <2>1, <2>4, <2>5, <2>6 DEF Checked, InHand, CoveredFor
  <2> QED
    BY <2>4, <2>7
<1>2. CASE Funds!BeginDeleteFunding(c) \/ Funds!BeginDeleteExpense(c)
  <2>1. PICK id \in DOMAIN records :
          /\ records[id].offer.kind = "loan" =>
               Funds!OwnerLoanBalance(today) >= records[id].offer.amount
          /\ Funds!Begin(c, [at |-> "reverse", day |-> today, id |-> id,
                             entry |-> records[id].entry])
    <3>1. CASE Funds!BeginDeleteFunding(c)
      BY <3>1 DEF Funds!BeginDeleteFunding
    <3>2. CASE Funds!BeginDeleteExpense(c)
      BY <3>2 DEF Funds!BeginDeleteExpense
    <3> QED
      BY <1>2, <3>1, <3>2
  <2>2. PICK work : work = [at |-> "reverse", day |-> today, id |-> id,
                            entry |-> records[id].entry]
    OBVIOUS
  <2>3. /\ DOMAIN work = {"at", "day", "id", "entry"} /\ work.at = "reverse"
        /\ work.day = today /\ work.id = id /\ work.entry = records[id].entry
    BY <2>2
  <2>4. PICK w :
          /\ clerk' = [clerk EXCEPT ![c] = w]
          /\ DOMAIN w = DOMAIN Funds!Idle /\ w.seen = Len(journal)
          /\ \A x \in DOMAIN Funds!Idle \ {"seen"} :
                 w[x] = IF x \in DOMAIN work THEN work[x] ELSE Funds!Idle[x]
          /\ clerk[c] = Funds!Idle
          /\ UNCHANGED <<today, journal, records, nextRecord, unsure>>
    BY <2>1, <2>2, BeginIs
  <2>5. w.at = "reverse" /\ w.day = today /\ w.id = id /\ w.entry = records[id].entry
    BY <1>f, <2>3, <2>4
  <2>6. /\ records[id].entry \in 1 .. Len(journal) /\ id \in 1 .. nextRecord - 1
        /\ journal[records[id].entry].lines = Postings(records[id].offer)
        /\ records[id].offer \in Offers
    BY DEF Originals, FundTypes
  <2>7. CoveredFor(w)
    <3>1. PICK o \in Offers : o = records[id].offer
      BY <2>6
    <3>2. PICK moved : moved = Postings(o)["loan"]
      OBVIOUS
    <3>3. moved < 0 => o.kind = "loan" /\ -moved = o.amount
      BY <3>2, PostingsAre
    <3>4. moved < 0 => -moved <= Funds!OwnerLoanBalance(today)
      BY <2>1, <3>1, <3>3
    <3> QED
      BY <2>5, <2>6, <3>1, <3>2, <3>4 DEF CoveredFor
  <2>8. InHand(w)
    BY <1>j, <2>4, <2>5, <2>6 DEF InHand, FundTypes
  <2> QED
    BY <2>4, <2>5, <2>7, <2>8 DEF Checked
<1>3. CASE Funds!BeginHand(c)
  <2>1. PICK lines \in ByHand, d \in 1 .. LastDay :
          Funds!Begin(c, [at |-> "hand", day |-> d, lines |-> lines])
    BY <1>3 DEF Funds!BeginHand, Funds!Days
  <2>2. PICK work : work = [at |-> "hand", day |-> d, lines |-> lines]
    OBVIOUS
  <2>3. DOMAIN work = {"at", "day", "lines"} /\ work.at = "hand" /\ work.day = d
        /\ work.lines = lines
    BY <2>2
  <2>4. PICK w :
          /\ clerk' = [clerk EXCEPT ![c] = w]
          /\ DOMAIN w = DOMAIN Funds!Idle /\ w.seen = Len(journal)
          /\ \A x \in DOMAIN Funds!Idle \ {"seen"} :
                 w[x] = IF x \in DOMAIN work THEN work[x] ELSE Funds!Idle[x]
          /\ clerk[c] = Funds!Idle
          /\ UNCHANGED <<today, journal, records, nextRecord, unsure>>
    BY <2>1, <2>2, BeginIs
  <2>5. w.at = "hand" /\ w.day = d /\ w.lines = lines /\ w.id = 0
    BY <1>f, <2>3, <2>4
  <2>6. lines \in Lines
    BY FundsAssumption DEF Lines
  <2>7. Checked(w)
    BY <1>j, <2>4, <2>5, <2>6 DEF Checked, InHand, CoveredFor
  <2> QED
    BY <2>4, <2>7
<1>4. CASE Funds!BeginReversal(c)
  <2>1. PICK n \in DOMAIN journal, d \in 1 .. LastDay :
          Funds!Begin(c, [at |-> "reverse", day |-> d, entry |-> n])
    BY <1>4 DEF Funds!BeginReversal, Funds!Days
  <2>2. PICK work : work = [at |-> "reverse", day |-> d, entry |-> n]
    OBVIOUS
  <2>3. DOMAIN work = {"at", "day", "entry"} /\ work.at = "reverse" /\ work.day = d
        /\ work.entry = n
    BY <2>2
  <2>4. PICK w :
          /\ clerk' = [clerk EXCEPT ![c] = w]
          /\ DOMAIN w = DOMAIN Funds!Idle /\ w.seen = Len(journal)
          /\ \A x \in DOMAIN Funds!Idle \ {"seen"} :
                 w[x] = IF x \in DOMAIN work THEN work[x] ELSE Funds!Idle[x]
          /\ clerk[c] = Funds!Idle
          /\ UNCHANGED <<today, journal, records, nextRecord, unsure>>
    BY <2>1, <2>2, BeginIs
  <2>5. w.at = "reverse" /\ w.day = d /\ w.entry = n /\ w.id = 0
    BY <1>f, <2>3, <2>4
  <2>6. Checked(w)
    BY <1>j, <2>4, <2>5 DEF Checked, InHand, CoveredFor
  <2> QED
    BY <2>4, <2>6
<1> QED
  BY <1>1, <1>2, <1>3, <1>4 DEF Funds!Request

\* A step in which nothing is posted and no row changes.
LEMMA HandsChange ==
    ASSUME FundInv, UNCHANGED <<journal, records, nextRecord>>, today' \in 1 .. LastDay,
           unsure \subseteq unsure', DOMAIN clerk' = Clerks,
           \A c \in Clerks :
             \/ clerk'[c] = clerk[c]
             \/ /\ Checked(clerk'[c]) \/ clerk'[c] = Funds!Idle
                /\ clerk[c].at = "erase" => clerk[c].id \in unsure'
    PROVE  FundInv'
<1>i. InHand(Funds!Idle) /\ CoveredFor(Funds!Idle) /\ Funds!Idle.at = "idle" /\ Len(journal) \in Nat
  BY DEF InHand, CoveredFor, Funds!Idle, FundInv, FundTypes
<1>b. \A d : Funds!OwnerLoanBalance(d)' = Funds!OwnerLoanBalance(d)
  BY EffectNow, EffectNext DEF Funds!OwnerLoanBalance, Funds!Balance
<1>1. ASSUME NEW c \in Clerks
      PROVE  /\ InHand(clerk[c])' /\ CoveredFor(clerk[c])'
             /\ clerk'[c].at = "reverse" /\ clerk'[c].id # 0 =>
                  /\ journal'[clerk'[c].entry].of = clerk'[c].id
                  /\ journal'[clerk'[c].entry].mirrors = 0
  <2>1. PICK w : w = clerk'[c]
    OBVIOUS
  <2>2. /\ InHand(w) /\ CoveredFor(w)
        /\ w.at = "reverse" /\ w.id # 0 =>
             journal[w.entry].of = w.id /\ journal[w.entry].mirrors = 0
    BY <1>i, <2>1 DEF FundInv, FundTypes, Originals, Checked
  <2>3. InHand(clerk[c])'
    BY <2>1, <2>2 DEF InHand
  <2>4. CoveredFor(clerk[c])'
    BY <1>b, <2>1, <2>2 DEF CoveredFor
  <2> QED
    BY <2>1, <2>2, <2>3, <2>4
<1>2. FundTypes'
  BY <1>1 DEF FundInv, FundTypes
<1>3. Originals'
  BY <1>1 DEF FundInv, Originals
<1>4. ASSUME NEW id \in 1 .. MaxRecords \ unsure' PROVE InLedger(id)'
  <2>1. \A c \in Clerks : (clerk'[c].at = "erase" /\ clerk'[c].id = id)
                          <=> (clerk[c].at = "erase" /\ clerk[c].id = id)
    BY <1>i, <1>4 DEF Checked
  <2>2. Booked(id)' <=> Booked(id)
    BY <2>1 DEF Booked
  <2>3. InLedger(id)
    BY DEF FundInv
  <2> QED
    BY <2>2, <2>3 DEF InLedger
<1> QED
  BY <1>1, <1>2, <1>3, <1>4 DEF FundInv

\* A step that posts: what the others have in hand stays as it is, and is old.
LEMMA HandsPost ==
    ASSUME FundInv, NEW e \in Entries, journal' = Append(journal, e),
           nextRecord' \in nextRecord .. MaxRecords + 1,
           NEW c \in Clerks, NEW w, clerk' = [clerk EXCEPT ![c] = w],
           \/ w = Funds!Idle
           \/ clerk[c].at = "reverse" /\ clerk[c].id # 0 /\ w = [clerk[c] EXCEPT !.at = "erase"]
    PROVE  /\ DOMAIN clerk' = Clerks /\ journal' \in Seq(Entries)
           /\ \A k \in Clerks : InHand(clerk[k])' /\ CoveredFor(clerk[k])'
           /\ \A k \in Clerks : clerk'[k].at = "reverse" /\ clerk'[k].id # 0 =>
                /\ journal'[clerk'[k].entry].of = clerk'[k].id
                /\ journal'[clerk'[k].entry].mirrors = 0
<1>1. /\ journal' \in Seq(Entries) /\ Len(journal') = Len(journal) + 1 /\ Len(journal) \in Nat
      /\ \A n \in 1 .. Len(journal) : journal'[n] = journal[n]
  BY Appended DEF FundInv, FundTypes
<1>2. nextRecord \in Nat /\ nextRecord' \in Nat /\ nextRecord <= nextRecord'
  BY FundsAssumption DEF FundInv, FundTypes
<1>3. DOMAIN clerk' = Clerks /\ \A k \in Clerks : k # c => clerk'[k] = clerk[k]
  BY DEF FundInv, FundTypes
<1>4. clerk'[c] = w
  BY DEF FundInv, FundTypes
<1>5. /\ DOMAIN w = DOMAIN Funds!Idle /\ w.at \in {"idle", "erase"}
      /\ w.seen \in 0 .. Len(journal) /\ w.id \in 0 .. nextRecord - 1
      /\ w.at = "erase" => w.id # 0
  <2>1. CASE w = Funds!Idle
    BY <1>1, <1>2, <2>1 DEF Funds!Idle, FundInv, FundTypes
  <2>2. CASE clerk[c].id # 0 /\ w = [clerk[c] EXCEPT !.at = "erase"]
    <3>1. InHand(clerk[c])
      BY DEF FundInv, FundTypes
    <3> QED
      BY <2>2, <3>1 DEF InHand, Funds!Idle
  <2> QED
    BY <2>1, <2>2
<1>6. ASSUME NEW k \in Clerks PROVE InHand(clerk[k])' /\ clerk'[k].seen \in 0 .. Len(journal)
  <2>1. CASE k = c
    BY <1>1, <1>2, <1>4, <1>5, <2>1 DEF InHand
  <2>2. CASE k # c
    <3>1. InHand(clerk[k]) /\ clerk'[k] = clerk[k]
      BY <1>3, <2>2 DEF FundInv, FundTypes
    <3> QED
      BY <1>1, <1>2, <3>1 DEF InHand
  <2> QED
    BY <2>1, <2>2
<1>7. \A k \in Clerks : CoveredFor(clerk[k])'
  BY <1>1, <1>6 DEF CoveredFor
<1>8. ASSUME NEW k \in Clerks, clerk'[k].at = "reverse", clerk'[k].id # 0
      PROVE  /\ journal'[clerk'[k].entry].of = clerk'[k].id
             /\ journal'[clerk'[k].entry].mirrors = 0
  <2>1. clerk'[k] = clerk[k]
    BY <1>3, <1>4, <1>5, <1>8
  <2>2. InHand(clerk[k])
    BY DEF FundInv, FundTypes
  <2>3. clerk[k].entry \in 1 .. Len(journal)
    BY <1>8, <2>1, <2>2 DEF InHand
  <2> QED
    BY <1>1, <1>8, <2>1, <2>3 DEF FundInv, Originals
<1> QED
  BY <1>1, <1>3, <1>6, <1>7, <1>8

\* A record that the new entry is not of.
LEMMA OthersInLedger ==
    ASSUME FundInv, NEW e \in Entries, journal' = Append(journal, e),
           NEW id \in 1 .. MaxRecords \ unsure, e.of # id, Booked(id)' <=> Booked(id),
           id \in DOMAIN records => records'[id] = records[id]
    PROVE  InLedger(id)'
<1>1. /\ Len(journal') = Len(journal) + 1 /\ Len(journal) \in Nat
      /\ \A n \in 1 .. Len(journal) : journal'[n] = journal[n]
  BY Appended DEF FundInv, FundTypes
<1>2. /\ MadeOf(journal', id) = MadeOf(journal, id)
      /\ \A a \in Funds!Accounts : HeldOf(journal', a, id) = HeldOf(journal, a, id)
  BY HeldAside DEF FundInv, FundTypes
<1>3. InLedger(id)
  BY DEF FundInv
<1>4. MadeOf(journal, id) \subseteq 1 .. Len(journal)
  BY DEF MadeOf
<1>5. CASE Booked(id)
  BY <1>2, <1>3, <1>5 DEF InLedger, Booked
<1>6. CASE ~Booked(id)
  <2>1. /\ \A a \in Funds!Accounts : HeldOf(journal, a, id) = 0
        /\ \A n \in MadeOf(journal, id) : journal[n].mirrors = 0 =>
               \E m \in 1 .. Len(journal) : journal[m].mirrors = n
    BY <1>3, <1>6 DEF InLedger
  <2>2. \A n \in MadeOf(journal', id) : journal'[n].mirrors = 0 =>
               \E m \in 1 .. Len(journal') : journal'[m].mirrors = n
    BY <1>1, <1>2, <1>4, <2>1
  <2> QED
    BY <1>2, <1>6, <2>1, <2>2 DEF InLedger
<1> QED
  BY <1>5, <1>6

\* A record and its entry.
LEMMA Inserted ==
    ASSUME FundInv, NEW c \in Clerks, clerk[c].at = "record",
           Funds!Insert(c, Postings(clerk[c].row)), UNCHANGED today
    PROVE  FundInv'
<1>1. PICK w : w = clerk[c]
  OBVIOUS
<1>2. PICK lines : lines = Postings(w.row)
  OBVIOUS
<1>3. PICK e : e = Funds!Entry(w.day, lines, nextRecord, 0)
  OBVIOUS
<1>4. /\ nextRecord <= MaxRecords /\ nextRecord' = nextRecord + 1
      /\ journal' = Append(journal, e)
      /\ records' = [id \in DOMAIN records \cup {nextRecord} |->
                        IF id \in DOMAIN records THEN records[id]
                        ELSE [offer |-> w.row, day |-> w.day, entry |-> Len(journal) + 1]]
      /\ clerk' = [clerk EXCEPT ![c] = Funds!Idle] /\ UNCHANGED unsure
  BY <1>1, <1>2, <1>3 DEF Funds!Insert, Funds!Leave
<1>5. /\ nextRecord \in Nat \ {0} /\ MaxRecords \in Nat /\ w.row \in Offers
      /\ w.day \in 1 .. LastDay /\ lines \in Lines
      /\ \A id \in DOMAIN records : id \in Nat /\ id < nextRecord
  <2>1. InHand(w)
    BY <1>1 DEF FundInv, FundTypes
  <2>2. w.row \in Offers /\ w.day \in 1 .. LastDay
    BY <1>1, <2>1 DEF InHand
  <2>3. lines \in Lines
    BY <1>2, <2>2, PostingsAre
  <2> QED
    BY <2>2, <2>3, FundsAssumption DEF FundInv, FundTypes
<1>6. /\ e \in Entries /\ e.of = nextRecord /\ e.mirrors = 0 /\ e.lines = lines
      /\ e.day = w.day
  BY <1>3, <1>4, <1>5 DEF Funds!Entry, Entries
<1>7. /\ DOMAIN clerk' = Clerks /\ journal' \in Seq(Entries)
      /\ \A k \in Clerks : InHand(clerk[k])' /\ CoveredFor(clerk[k])'
      /\ \A k \in Clerks : clerk'[k].at = "reverse" /\ clerk'[k].id # 0 =>
           /\ journal'[clerk'[k].entry].of = clerk'[k].id
           /\ journal'[clerk'[k].entry].mirrors = 0
  <2>1. nextRecord' \in nextRecord .. MaxRecords + 1
    BY <1>4, <1>5
  <2> QED
    BY <1>4, <1>6, <2>1, HandsPost
<1>8. /\ Len(journal') = Len(journal) + 1 /\ Len(journal) \in Nat
      /\ \A n \in 1 .. Len(journal) : journal'[n] = journal[n]
      /\ journal'[Len(journal) + 1] = e
  BY <1>4, <1>6, Appended DEF FundInv, FundTypes
<1>9. /\ DOMAIN records' = DOMAIN records \cup {nextRecord}
      /\ \A id \in DOMAIN records : records'[id] = records[id]
      /\ records'[nextRecord] = [offer |-> w.row, day |-> w.day, entry |-> Len(journal) + 1]
  BY <1>4, <1>5
<1>10. FundTypes'
  BY <1>4, <1>5, <1>7, <1>9 DEF FundInv, FundTypes
<1>11. Originals'
  <2>1. \A n \in 1 .. Len(journal') : journal'[n].of < nextRecord'
    <3>1. \A n \in 1 .. Len(journal) : journal[n].of < nextRecord /\ journal[n].of \in Nat
      <4>1. \A n \in 1 .. Len(journal) : journal[n] \in Entries
        BY DEF FundInv, FundTypes
      <4> QED
        BY <4>1, <1>5 DEF FundInv, Originals, Entries
    <3> QED
      BY <1>4, <1>5, <1>6, <1>8, <3>1
  <2>2. ASSUME NEW id \in DOMAIN records'
        PROVE  /\ records'[id].offer \in Offers
               /\ records'[id].entry \in 1 .. Len(journal')
               /\ journal'[records'[id].entry].of = id
               /\ journal'[records'[id].entry].mirrors = 0
               /\ journal'[records'[id].entry].lines = Postings(records'[id].offer)
    <3>1. CASE id \in DOMAIN records
      <4>1. /\ records[id].offer \in Offers
            /\ records[id].entry \in 1 .. Len(journal)
            /\ journal[records[id].entry].of = id
            /\ journal[records[id].entry].mirrors = 0
            /\ journal[records[id].entry].lines = Postings(records[id].offer)
        BY <3>1 DEF FundInv, Originals
      <4> QED
        BY <1>8, <1>9, <3>1, <4>1
    <3>2. CASE id = nextRecord
      BY <1>2, <1>5, <1>6, <1>8, <1>9, <3>2
    <3> QED
      BY <1>9, <2>2, <3>1, <3>2
  <2>3. \A offer : Postings(offer)' = Postings(offer)
    BY DEF Postings
  <2> QED
    BY <1>7, <2>1, <2>2 DEF Originals
<1>12. \A k \in Clerks : \A id : (clerk'[k].at = "erase" /\ clerk'[k].id = id)
                             <=> (clerk[k].at = "erase" /\ clerk[k].id = id)
  BY <1>4 DEF FundInv, FundTypes, Funds!Idle
<1>13. ASSUME NEW id \in 1 .. MaxRecords \ unsure' PROVE InLedger(id)'
  <2>1. CASE id = nextRecord
    <3>1. MadeOf(journal, id) = {}
      BY <1>5, <2>1 DEF MadeOf, FundInv, Originals
    <3>2. MadeOf(journal', id) = {Len(journal) + 1}
      <4>1. MadeOf(Append(journal, e), id) = MadeOf(journal, id) \cup {Len(journal) + 1}
        BY <1>6, <2>1, HeldAppended DEF FundInv, FundTypes
      <4> QED
        BY <1>4, <3>1, <4>1
    <3>3. \A k \in Clerks : clerk[k].id \in 0 .. nextRecord - 1
      BY DEF FundInv, FundTypes, InHand
    <3>4. Booked(id)'
      BY <1>5, <1>9, <1>12, <2>1, <3>3 DEF Booked
    <3>5. records'[id].entry = Len(journal) + 1
      BY <1>9, <2>1
    <3> QED
      BY <3>2, <3>4, <3>5 DEF InLedger
  <2>2. CASE id # nextRecord
    <3>1. id \in DOMAIN records' <=> id \in DOMAIN records
      BY <1>9, <2>2
    <3>2. \A k \in Clerks : (clerk'[k].at = "erase" => clerk'[k].id # id)
                            <=> (clerk[k].at = "erase" => clerk[k].id # id)
      BY <1>12
    <3>3. Booked(id)' <=> Booked(id)
      BY <3>1, <3>2 DEF Booked
    <3> QED
      BY <1>4, <1>6, <1>9, <2>2, <3>3, OthersInLedger
  <2> QED
    BY <2>1, <2>2
<1> QED
  BY <1>7, <1>10, <1>11, <1>13 DEF FundInv

\* An entry by hand.
LEMMA Posted ==
    ASSUME FundInv, NEW c \in Clerks, Funds!Post(c), UNCHANGED today
    PROVE  FundInv'
<1>1. PICK w : w = clerk[c]
  OBVIOUS
<1>2. PICK e : e = Funds!Entry(w.day, w.lines, 0, 0)
  OBVIOUS
<1>3. /\ w.at = "hand" /\ journal' = Append(journal, e)
      /\ clerk' = [clerk EXCEPT ![c] = Funds!Idle]
      /\ UNCHANGED <<records, nextRecord, unsure>>
  BY <1>1, <1>2 DEF Funds!Post, Funds!Leave
<1>4. nextRecord \in Nat \ {0} /\ MaxRecords \in Nat /\ nextRecord <= MaxRecords + 1
  BY FundsAssumption DEF FundInv, FundTypes
<1>5. e \in Entries /\ e.of = 0
  <2>1. InHand(w)
    BY <1>1 DEF FundInv, FundTypes
  <2>2. w.lines \in Lines /\ w.day \in 1 .. LastDay
    BY <1>3, <2>1 DEF InHand
  <2> QED
    BY <1>2, <1>4, <2>2 DEF Funds!Entry, Entries
<1>6. /\ DOMAIN clerk' = Clerks /\ journal' \in Seq(Entries)
      /\ \A k \in Clerks : InHand(clerk[k])' /\ CoveredFor(clerk[k])'
      /\ \A k \in Clerks : clerk'[k].at = "reverse" /\ clerk'[k].id # 0 =>
           /\ journal'[clerk'[k].entry].of = clerk'[k].id
           /\ journal'[clerk'[k].entry].mirrors = 0
  <2>1. nextRecord' \in nextRecord .. MaxRecords + 1
    BY <1>3, <1>4
  <2> QED
    BY <1>3, <1>5, <2>1, HandsPost
<1>7. /\ Len(journal') = Len(journal) + 1 /\ Len(journal) \in Nat
      /\ \A n \in 1 .. Len(journal) : journal'[n] = journal[n]
      /\ journal'[Len(journal) + 1] = e
  BY <1>3, <1>5, Appended DEF FundInv, FundTypes
<1>8. FundTypes'
  BY <1>3, <1>6 DEF FundInv, FundTypes
<1>9. Originals'
  <2>1. \A n \in 1 .. Len(journal') : journal'[n].of < nextRecord'
    BY <1>3, <1>4, <1>5, <1>7 DEF FundInv, Originals
  <2>2. ASSUME NEW id \in DOMAIN records'
        PROVE  /\ records'[id].offer \in Offers
               /\ records'[id].entry \in 1 .. Len(journal')
               /\ journal'[records'[id].entry].of = id
               /\ journal'[records'[id].entry].mirrors = 0
               /\ journal'[records'[id].entry].lines = Postings(records'[id].offer)
    <3>1. /\ records[id].offer \in Offers
          /\ records[id].entry \in 1 .. Len(journal)
          /\ journal[records[id].entry].of = id
          /\ journal[records[id].entry].mirrors = 0
          /\ journal[records[id].entry].lines = Postings(records[id].offer)
      BY <1>3 DEF FundInv, Originals
    <3> QED
      BY <1>3, <1>7, <3>1
  <2> QED
    BY <1>6, <2>1, <2>2 DEF Originals
<1>10. ASSUME NEW id \in 1 .. MaxRecords \ unsure' PROVE InLedger(id)'
  <2>1. \A k \in Clerks : (clerk'[k].at = "erase" /\ clerk'[k].id = id)
                          <=> (clerk[k].at = "erase" /\ clerk[k].id = id)
    BY <1>1, <1>3 DEF FundInv, FundTypes, Funds!Idle
  <2>2. Booked(id)' <=> Booked(id)
    BY <1>3, <2>1 DEF Booked
  <2>3. e.of # id
    BY <1>5
  <2> QED
    BY <1>3, <1>5, <2>2, <2>3, OthersInLedger
<1> QED
  BY <1>6, <1>8, <1>9, <1>10 DEF FundInv

\* The mirror image of an entry: the record is out of the ledger, if it was in
\* it once.
LEMMA Mirrors ==
    ASSUME FundInv, NEW c \in Clerks, Funds!Reverse(c), UNCHANGED today,
           Funds!PeriodOpen(clerk[c].day)
    PROVE  FundInv'
<1>1. PICK w : w = clerk[c]
  OBVIOUS
<1>2. PICK old : old = journal[w.entry]
  OBVIOUS
<1>3. PICK e : e = Funds!Entry(w.day, [a \in Funds!Accounts |-> -old.lines[a]], old.of, w.entry)
  OBVIOUS
<1>4. PICK v : v = IF w.id = 0 THEN Funds!Idle ELSE [w EXCEPT !.at = "erase"]
  OBVIOUS
<1>5. DOMAIN clerk = Clerks /\ InHand(w)
  BY <1>1 DEF FundInv, FundTypes
<1>6. /\ w.at = "reverse" /\ journal' = Append(journal, e)
      /\ unsure' = unsure \cup IF w.id = 0 \/ Funds!Reversed(w.entry) THEN {old.of} \ {0} ELSE {}
      /\ UNCHANGED <<records, nextRecord>>
  BY <1>1, <1>2, <1>3 DEF Funds!Reverse
<1>7. clerk' = [clerk EXCEPT ![c] = v]
  BY <1>1, <1>4, <1>5 DEF Funds!Reverse
<1>8. nextRecord \in Nat \ {0} /\ MaxRecords \in Nat /\ nextRecord <= MaxRecords + 1
  BY FundsAssumption DEF FundInv, FundTypes
<1>9. /\ w.entry \in 1 .. Len(journal) /\ old \in Entries /\ w.day \in 1 .. LastDay
      /\ w.id \in 0 .. nextRecord - 1 /\ old.lines \in Lines
  <2>1. w.entry \in 1 .. Len(journal) /\ w.day \in 1 .. LastDay /\ w.id \in 0 .. nextRecord - 1
    BY <1>5, <1>6 DEF InHand
  <2>2. old \in Entries
    BY <1>2, <2>1 DEF FundInv, FundTypes
  <2> QED
    BY <2>1, <2>2 DEF Entries
<1>10. /\ e \in Entries /\ e.of = old.of /\ e.mirrors = w.entry /\ e.mirrors # 0
       /\ \A a \in Funds!Accounts : e.lines[a] = -old.lines[a]
  <2>1. /\ e.of = old.of /\ e.mirrors = w.entry /\ e.day = w.day
        /\ e.lines = [a \in Funds!Accounts |-> -old.lines[a]]
        /\ e = [day |-> e.day, lines |-> e.lines, of |-> e.of, mirrors |-> e.mirrors]
    BY <1>3 DEF Funds!Entry
  <2>2. e.lines \in Lines
    BY <1>9, <2>1, Mirrored
  <2>3. old.of \in 0 .. MaxRecords /\ w.entry \in Nat \ {0}
    BY <1>9 DEF Entries
  <2>4. e \in Entries
    BY <1>9, <2>1, <2>2, <2>3 DEF Entries
  <2> QED
    BY <2>1, <2>3, <2>4
<1>11. v = Funds!Idle \/ (clerk[c].id # 0 /\ v = [clerk[c] EXCEPT !.at = "erase"])
  BY <1>1, <1>4
<1>12. /\ DOMAIN clerk' = Clerks /\ journal' \in Seq(Entries)
       /\ \A k \in Clerks : InHand(clerk[k])' /\ CoveredFor(clerk[k])'
       /\ \A k \in Clerks : clerk'[k].at = "reverse" /\ clerk'[k].id # 0 =>
            /\ journal'[clerk'[k].entry].of = clerk'[k].id
            /\ journal'[clerk'[k].entry].mirrors = 0
  <2>1. nextRecord' \in nextRecord .. MaxRecords + 1
    BY <1>6, <1>8
  <2>2. clerk[c].at = "reverse"
    BY <1>1, <1>6
  <2> QED
    BY <1>6, <1>7, <1>10, <1>11, <2>1, <2>2, HandsPost
<1>13. /\ Len(journal') = Len(journal) + 1 /\ Len(journal) \in Nat
       /\ \A n \in 1 .. Len(journal) : journal'[n] = journal[n]
       /\ journal'[Len(journal) + 1] = e
  BY <1>6, <1>10, Appended DEF FundInv, FundTypes
<1>14. FundTypes'
  BY <1>6, <1>12 DEF FundInv, FundTypes
<1>15. Originals'
  <2>1. \A n \in 1 .. Len(journal') : journal'[n].of < nextRecord'
    BY <1>2, <1>6, <1>9, <1>10, <1>13 DEF FundInv, Originals
  <2>2. ASSUME NEW id \in DOMAIN records'
        PROVE  /\ records'[id].offer \in Offers
               /\ records'[id].entry \in 1 .. Len(journal')
               /\ journal'[records'[id].entry].of = id
               /\ journal'[records'[id].entry].mirrors = 0
               /\ journal'[records'[id].entry].lines = Postings(records'[id].offer)
    <3>1. /\ records[id].offer \in Offers
          /\ records[id].entry \in 1 .. Len(journal)
          /\ journal[records[id].entry].of = id
          /\ journal[records[id].entry].mirrors = 0
          /\ journal[records[id].entry].lines = Postings(records[id].offer)
      BY <1>6 DEF FundInv, Originals
    <3> QED
      BY <1>6, <1>13, <3>1
  <2> QED
    BY <1>12, <2>1, <2>2 DEF Originals
<1>16. clerk'[c] = v /\ \A k \in Clerks : k # c => clerk'[k] = clerk[k]
  BY <1>5, <1>7
<1>17. w.id # 0 => v.at = "erase" /\ v.id = w.id /\ old.of = w.id /\ old.mirrors = 0
  <2>1. w.id # 0 => v.at = "erase" /\ v.id = w.id
    BY <1>4, <1>5 DEF InHand, Funds!Idle
  <2>2. w.id # 0 => old.of = w.id /\ old.mirrors = 0
    BY <1>1, <1>2, <1>6 DEF FundInv, Originals
  <2> QED
    BY <2>1, <2>2
<1>18. w.id = 0 => v.at = "idle"
  BY <1>4 DEF Funds!Idle
<1>19. ASSUME NEW id \in 1 .. MaxRecords \ unsure' PROVE InLedger(id)'
  <2>0. id \in 1 .. MaxRecords \ unsure
    BY <1>6
  <2>1. CASE id # old.of
    <3>1. \A k \in Clerks : (clerk'[k].at = "erase" /\ clerk'[k].id = id)
                            <=> (clerk[k].at = "erase" /\ clerk[k].id = id)
      BY <1>1, <1>6, <1>16, <1>17, <1>18, <2>1
    <3>2. Booked(id)' <=> Booked(id)
      BY <1>6, <3>1 DEF Booked
    <3> QED
      BY <1>6, <1>10, <2>0, <2>1, <3>2, OthersInLedger
  <2>2. CASE id = old.of
    <3>1. w.id = id /\ ~Funds!Reversed(w.entry) /\ old.mirrors = 0
      BY <1>6, <1>17, <1>19, <2>2
    <3>2. w.entry \in MadeOf(journal, id)
      BY <1>2, <1>9, <2>2 DEF MadeOf
    <3>j. \A m \in 1 .. Len(journal) : journal[m].mirrors # w.entry
      BY <3>1 DEF Funds!Reversed, FundInv, FundTypes
    <3>3. InLedger(id)
      BY <2>0 DEF FundInv
    <3>4. Booked(id)
      BY <1>2, <3>1, <3>2, <3>j, <3>3 DEF InLedger
    <3>5. MadeOf(journal, id) = {w.entry}
      BY <3>2, <3>3, <3>4 DEF InLedger
    <3>6. ~(Booked(id)')
      BY <1>16, <1>17, <3>1, <2>0 DEF Booked
    <3>7. /\ MadeOf(journal', id) = MadeOf(journal, id) \cup {Len(journal) + 1}
          /\ \A a \in Funds!Accounts :
                HeldOf(journal', a, id) = HeldOf(journal, a, id) + e.lines[a]
      <4>1. journal \in Seq(Entries) /\ e \in Entries /\ e.of = id
        BY <1>10, <2>2 DEF FundInv, FundTypes
      <4>2. /\ MadeOf(Append(journal, e), id) = MadeOf(journal, id) \cup {Len(journal) + 1}
            /\ \A a \in Funds!Accounts :
                  HeldOf(Append(journal, e), a, id) = HeldOf(journal, a, id) + e.lines[a]
        BY <4>1, HeldAppended
      <4> QED
        BY <1>6, <4>2
    <3>8. ASSUME NEW a \in Funds!Accounts PROVE HeldOf(journal', a, id) = 0
      <4>1. HeldOf(journal, a, id) = old.lines[a] /\ old.lines[a] \in Int
        <5>1. journal \in Seq(Entries)
          BY DEF FundInv, FundTypes
        <5>2. HeldOf(journal, a, id) = journal[w.entry].lines[a]
          BY <3>5, <5>1, HeldType
        <5> QED
          BY <1>2, <1>9, <5>2, Mirrored
      <4>2. PICK n \in Int : n = old.lines[a]
        BY <4>1
      <4>3. HeldOf(journal', a, id) = n + -n
        BY <1>10, <3>7, <4>1, <4>2
      <4> QED
        BY <4>3
    <3>9. \A n \in MadeOf(journal', id) : journal'[n].mirrors = 0 =>
               \E m \in 1 .. Len(journal') : journal'[m].mirrors = n
      <4>1. Len(journal) + 1 \in 1 .. Len(journal')
        BY <1>13
      <4> QED
        BY <1>10, <1>13, <3>5, <3>7, <4>1
    <3> QED
      BY <3>6, <3>8, <3>9 DEF InLedger
  <2> QED
    BY <2>1, <2>2
<1> QED
  BY <1>12, <1>14, <1>15, <1>19 DEF FundInv

\* The row of a record that is out of the ledger goes.
LEMMA Erased ==
    ASSUME FundInv, NEW c \in Clerks, Funds!Erase(c), UNCHANGED today
    PROVE  FundInv'
<1>1. PICK w : w = clerk[c]
  OBVIOUS
<1>2. /\ w.at = "erase" /\ records' = [id \in DOMAIN records \ {w.id} |-> records[id]]
      /\ clerk' = [clerk EXCEPT ![c] = Funds!Idle]
      /\ UNCHANGED <<journal, nextRecord, unsure>>
  BY <1>1 DEF Funds!Erase, Funds!Leave
<1>3. /\ DOMAIN clerk' = Clerks /\ clerk'[c] = Funds!Idle
      /\ \A k \in Clerks : k # c => clerk'[k] = clerk[k]
  BY <1>2 DEF FundInv, FundTypes
<1>4. /\ DOMAIN records' = DOMAIN records \ {w.id}
      /\ \A id \in DOMAIN records' : records'[id] = records[id]
  BY <1>2
<1>b. \A d : Funds!OwnerLoanBalance(d)' = Funds!OwnerLoanBalance(d)
  BY <1>2, EffectNow, EffectNext DEF Funds!OwnerLoanBalance, Funds!Balance
<1>5. ASSUME NEW k \in Clerks PROVE InHand(clerk[k])' /\ CoveredFor(clerk[k])'
  <2>1. CASE k = c
    BY <1>2, <1>3, <2>1 DEF InHand, CoveredFor, Funds!Idle, FundInv, FundTypes
  <2>2. CASE k # c
    <3>1. clerk'[k] = clerk[k] /\ InHand(clerk[k]) /\ CoveredFor(clerk[k])
      BY <1>3, <2>2 DEF FundInv, FundTypes
    <3>2. InHand(clerk[k])'
      BY <1>2, <3>1 DEF InHand
    <3>3. CoveredFor(clerk[k])'
      BY <1>2, <1>b, <3>1 DEF CoveredFor
    <3> QED
      BY <3>2, <3>3
  <2> QED
    BY <2>1, <2>2
<1>6. FundTypes'
  BY <1>2, <1>3, <1>4, <1>5 DEF FundInv, FundTypes
<1>7. Originals'
  BY <1>2, <1>3, <1>4 DEF FundInv, Originals, Funds!Idle
<1>8. ASSUME NEW id \in 1 .. MaxRecords \ unsure' PROVE InLedger(id)'
  <2>1. InLedger(id)
    BY <1>2 DEF FundInv
  <2>2. CASE id # w.id
    <3>1. \A k \in Clerks : (clerk'[k].at = "erase" /\ clerk'[k].id = id)
                            <=> (clerk[k].at = "erase" /\ clerk[k].id = id)
      BY <1>1, <1>3, <2>2 DEF Funds!Idle
    <3>2. Booked(id)' <=> Booked(id)
      BY <1>4, <2>2, <3>1 DEF Booked
    <3>3. Booked(id) => id \in DOMAIN records'
      BY <1>4, <2>2 DEF Booked
    <3> QED
      BY <1>2, <1>4, <2>1, <3>2, <3>3 DEF InLedger
  <2>3. CASE id = w.id
    <3>1. ~Booked(id) /\ ~(Booked(id)')
      BY <1>1, <1>2, <1>4, <2>3 DEF Booked
    <3> QED
      BY <1>2, <2>1, <3>1 DEF InLedger
  <2> QED
    BY <2>2, <2>3
<1> QED
  BY <1>5, <1>6, <1>7, <1>8 DEF FundInv

LEMMA FundStep == FundInv /\ [Next]_vars => FundInv'
<1> SUFFICES ASSUME FundInv, [Next]_vars PROVE FundInv'
  OBVIOUS
<1> DEFINE Goal == FundInv'
<1> SUFFICES Goal
  OBVIOUS
<1> HIDE DEF Goal
<1>t. today \in 1 .. LastDay /\ DOMAIN clerk = Clerks
  BY DEF FundInv, FundTypes
<1>i. Funds!Idle.at = "idle" /\ Funds!Idle.id = 0
  BY DEF Funds!Idle
<1>1. CASE UNCHANGED fundVars
  BY <1>1, <1>t, HandsChange DEF fundVars, Goal
<1>2. CASE Funds!Tick
  <2>1. today' \in 1 .. LastDay
    BY <1>2, <1>t, FundsAssumption DEF Funds!Tick
  <2> QED
    BY <1>2, <1>t, <2>1, HandsChange DEF Funds!Tick, Funds!books, Goal
<1>3. CASE Funds!LockPeriod
  BY <1>3, <1>t, HandsChange DEF Funds!LockPeriod, Goal
<1>4. ASSUME NEW c \in Clerks, Funds!Request(c) PROVE Goal
  <2>1. PICK w :
          /\ clerk' = [clerk EXCEPT ![c] = w] /\ Checked(w)
          /\ clerk[c] = Funds!Idle
          /\ UNCHANGED <<today, journal, records, nextRecord, unsure>>
    BY <1>4, Requested DEF FundInv
  <2>2. ASSUME NEW k \in Clerks
        PROVE  \/ clerk'[k] = clerk[k]
               \/ /\ Checked(clerk'[k]) \/ clerk'[k] = Funds!Idle
                  /\ clerk[k].at = "erase" => clerk[k].id \in unsure'
    BY <1>t, <1>i, <2>1
  <2> QED
    BY <1>t, <2>1, <2>2, HandsChange DEF Goal
<1>5. ASSUME NEW c \in Clerks, Funds!Write(c) PROVE Goal
  <2>1. CASE Funds!RecordFunding(c)
    <3>1. clerk[c].row.kind # "expense"
      BY <2>1 DEF Funds!RecordFunding, Funds!Fundings
    <3>2. Postings(clerk[c].row) = Funds!FundingPostings(clerk[c].row)
      BY <3>1 DEF Postings
    <3> QED
      BY <1>5, <2>1, <3>2, Inserted DEF Funds!RecordFunding, Funds!Write, Goal
  <2>2. CASE Funds!RecordExpense(c)
    <3>1. Postings(clerk[c].row) = Funds!ExpensePostings(clerk[c].row)
      BY <2>2 DEF Postings, Funds!RecordExpense
    <3> QED
      BY <1>5, <2>2, <3>1, Inserted DEF Funds!RecordExpense, Funds!Write, Goal
  <2>3. CASE Funds!Post(c)
    BY <1>5, <2>3, Posted DEF Funds!Write, Goal
  <2>4. CASE Funds!Reverse(c) /\ Funds!PeriodOpen(clerk[c].day)
    BY <1>5, <2>4, Mirrors DEF Funds!Write, Goal
  <2>5. CASE Funds!Reverse(c) /\ ~Funds!PeriodOpen(clerk[c].day)
    <3>1. /\ clerk[c].at = "reverse" /\ clerk' = [clerk EXCEPT ![c] = Funds!Idle]
          /\ UNCHANGED <<today, journal, records, nextRecord, unsure>>
      BY <1>5, <2>5 DEF Funds!Reverse, Funds!Refuse, Funds!Leave, Funds!books, Funds!Write
    <3>2. ASSUME NEW k \in Clerks
          PROVE  \/ clerk'[k] = clerk[k]
                 \/ /\ Checked(clerk'[k]) \/ clerk'[k] = Funds!Idle
                    /\ clerk[k].at = "erase" => clerk[k].id \in unsure'
      BY <1>t, <3>1
    <3> QED
      BY <1>t, <3>1, <3>2, HandsChange DEF Goal
  <2>6. CASE Funds!Erase(c)
    BY <1>5, <2>6, Erased DEF Funds!Write, Goal
  <2> QED
    BY <1>5, <2>1, <2>2, <2>3, <2>4, <2>5, <2>6 DEF Funds!Write
<1>6. ASSUME NEW c \in Clerks, Funds!Fail(c) PROVE Goal
  <2>1. /\ clerk' = [clerk EXCEPT ![c] = Funds!Idle]
        /\ unsure' = unsure \cup IF clerk[c].at = "erase" THEN {clerk[c].id} ELSE {}
        /\ UNCHANGED <<today, journal, records, nextRecord>>
    BY <1>6 DEF Funds!Fail, Funds!Leave, Funds!books
  <2>2. ASSUME NEW k \in Clerks
        PROVE  \/ clerk'[k] = clerk[k]
               \/ /\ Checked(clerk'[k]) \/ clerk'[k] = Funds!Idle
                  /\ clerk[k].at = "erase" => clerk[k].id \in unsure'
    BY <1>t, <2>1
  <2> QED
    BY <1>t, <2>1, <2>2, HandsChange DEF Goal
<1>7. Funds!Next \/ UNCHANGED fundVars
  BY Steps
<1> QED
  BY <1>1, <1>2, <1>3, <1>4, <1>5, <1>6, <1>7 DEF Funds!Next

LEMMA FundInit == Init => FundInv
<1> SUFFICES ASSUME Init PROVE FundInv
  OBVIOUS
<1>1. /\ today = 1 /\ journal = <<>> /\ records = <<>> /\ nextRecord = 1
      /\ clerk = [c \in Clerks |-> Funds!Idle] /\ unsure = {}
  BY DEF Init, Funds!Init
<1>2. /\ journal \in Seq(Entries) /\ Len(journal) = 0 /\ DOMAIN records = {}
      /\ MaxRecords \in Nat /\ today \in 1 .. LastDay
  BY <1>1, FundsAssumption
<1>3. \A c \in Clerks : /\ clerk[c] = Funds!Idle /\ clerk[c].at = "idle"
                        /\ InHand(clerk[c]) /\ CoveredFor(clerk[c])
  BY <1>1, <1>2 DEF InHand, CoveredFor, Funds!Idle
<1>4. FundTypes
  BY <1>1, <1>2, <1>3 DEF FundTypes
<1>5. Originals
  BY <1>2, <1>3 DEF Originals
<1>6. ASSUME NEW id \in 1 .. MaxRecords PROVE InLedger(id)
  <2>1. ~Booked(id) /\ MadeOf(journal, id) = {}
    BY <1>2 DEF Booked, MadeOf
  <2>2. \A a \in Funds!Accounts : HeldOf(journal, a, id) = 0
    BY <1>2, <2>1, HeldType
  <2> QED
    BY <2>1, <2>2 DEF InLedger
<1> QED
  BY <1>3, <1>4, <1>5, <1>6 DEF FundInv

LEMMA FundsKept == Spec => []FundInv
BY FundInit, FundStep, PTL DEF Spec

-----------------------------------------------------------------------------
(* The loan                                                                *)

\* What an entry does to the loan, on its day and later.
LEMMA LoanAfter ==
    ASSUME FundTypes, NEW e \in Entries, journal' = Append(journal, e), NEW d \in 1 .. LastDay
    PROVE  /\ Funds!OwnerLoanBalance(d) \in Int
           /\ e.day <= d => Funds!OwnerLoanBalance(d)' = Funds!OwnerLoanBalance(d) - e.lines["loan"]
           /\ ~(e.day <= d) => Funds!OwnerLoanBalance(d)' = Funds!OwnerLoanBalance(d)
           /\ e.lines["loan"] \in Int
<1> DEFINE ids == 0 .. MaxRecords
           S == Upto(journal, ids, d)
           T == Upto(journal', ids, d)
<1>a. "loan" \in Funds!Accounts
  BY DEF Funds!Accounts
<1>b. journal \in Seq(Entries)
  BY DEF FundTypes
<1>1. /\ journal' \in Seq(Entries) /\ Len(journal') = Len(journal) + 1
      /\ \A n \in 1 .. Len(journal) : journal'[n] = journal[n]
      /\ journal'[Len(journal) + 1] = e
  BY <1>b, Appended
<1>2. /\ Len(journal) \in Nat /\ DOMAIN journal = 1 .. Len(journal)
      /\ DOMAIN journal' = 1 .. Len(journal) + 1
  BY <1>b, <1>1
<1>3. e.of \in ids /\ e.lines["loan"] \in Int
  BY <1>a DEF Entries, Lines
<1>4. S \in SUBSET (1 .. Len(journal))
  BY <1>2 DEF Upto
<1>5. e.day <= d => T = S \cup {Len(journal) + 1}
  BY <1>1, <1>2, <1>3 DEF Upto
<1>6. ~(e.day <= d) => T = S
  BY <1>1, <1>2, <1>3 DEF Upto
<1>7. /\ Funds!OwnerLoanBalance(d) = -EffectIn(journal, "loan", ids, d)
      /\ Funds!OwnerLoanBalance(d)' = -EffectIn(journal', "loan", ids, d)
  BY EffectNow, EffectNext DEF Funds!OwnerLoanBalance, Funds!Balance
<1>8. /\ EffectIn(journal, "loan", ids, d) = Sum(OnAccount(journal, "loan"), S)
      /\ EffectIn(journal', "loan", ids, d) = Sum(OnAccount(journal', "loan"), T)
  <2>1. EffectIn(journal, "loan", ids, d) = Sum(OnAccount(journal, "loan"), S)
    BY <1>a, <1>b, EffectIsSum
  <2>2. PICK L \in Seq(Entries) : L = journal'
    BY <1>1
  <2>3. EffectIn(L, "loan", ids, d) = Sum(OnAccount(L, "loan"), Upto(L, ids, d))
    BY <1>a, EffectIsSum
  <2> QED
    BY <2>1, <2>2, <2>3
<1> HIDE DEF S, T
<1>9. /\ Sum(OnAccount(journal', "loan"), S) = Sum(OnAccount(journal, "loan"), S)
      /\ Sum(OnAccount(journal', "loan"), S \cup {Len(journal) + 1}) =
           Sum(OnAccount(journal, "loan"), S) + e.lines["loan"]
      /\ Sum(OnAccount(journal, "loan"), S) \in Int
  BY <1>a, <1>b, <1>4, SumAppended
<1>10. PICK s \in Int : s = Sum(OnAccount(journal, "loan"), S)
  BY <1>9
<1>11. PICK m \in Int : m = e.lines["loan"]
  BY <1>3
<1>12. CASE e.day <= d
  <2>1. Funds!OwnerLoanBalance(d) = -s /\ Funds!OwnerLoanBalance(d)' = -(s + m)
    BY <1>5, <1>7, <1>8, <1>9, <1>10, <1>11, <1>12
  <2> QED
    BY <1>11, <1>12, <2>1
<1>13. CASE ~(e.day <= d)
  <2>1. Funds!OwnerLoanBalance(d) = -s /\ Funds!OwnerLoanBalance(d)' = -s
    BY <1>6, <1>7, <1>8, <1>9, <1>10, <1>13
  <2> QED
    BY <1>11, <1>13, <2>1
<1> QED
  BY <1>12, <1>13

\* With nothing of a later day there, a day's balance is that of any later day.
LEMMA LoanStands ==
    ASSUME FundTypes, NEW d \in 1 .. LastDay, NEW q \in 1 .. LastDay, q <= d,
           \A n \in DOMAIN journal : ~(journal[n].day > q)
    PROVE  Funds!OwnerLoanBalance(d) = Funds!OwnerLoanBalance(q)
<1>1. \A n \in DOMAIN journal : journal[n].day \in Nat
  <2>1. \A n \in DOMAIN journal : journal[n] \in Entries
    BY DEF FundTypes
  <2> QED
    BY <2>1, FundsAssumption DEF Entries
<1>2. Upto(journal, 0 .. MaxRecords, d) = Upto(journal, 0 .. MaxRecords, q)
  BY <1>1, FundsAssumption DEF Upto
<1>3. EffectIn(journal, "loan", 0 .. MaxRecords, d) = EffectIn(journal, "loan", 0 .. MaxRecords, q)
  BY <1>2 DEF EffectIn
<1> QED
  BY <1>3, EffectNow DEF Funds!OwnerLoanBalance, Funds!Balance

\* A guarded step takes no more of the loan than was found owed.
LEMMA GuardHeld ==
    ASSUME FundTypes, NEW c \in Clerks, NEW e \in Entries, journal' = Append(journal, e),
           clerk'[c] # clerk[c], ~Funds!Unguarded, InHand(clerk[c]), e.day = clerk[c].day,
           clerk[c].seen = Len(journal) /\ e.lines["loan"] > 0 =>
               e.lines["loan"] <= Funds!OwnerLoanBalance(clerk[c].day),
           NEW d \in 1 .. LastDay, Funds!OwnerLoanBalance(d) >= 0
    PROVE  ~(Funds!OwnerLoanBalance(d)' < 0)
<1>1. /\ Len(journal') = Len(journal) + 1 /\ journal'[Len(journal) + 1] = e
      /\ Len(journal) \in Nat
  BY Appended DEF FundTypes
<1>2. /\ \A n \in DOMAIN journal : ~(journal[n].day > e.day)
      /\ ~(clerk[c].seen < Len(journal))
  BY <1>1 DEF Funds!Unguarded
<1>3. clerk[c].seen = Len(journal)
  BY <1>1, <1>2 DEF InHand
<1>4. e.day \in 1 .. LastDay
  BY DEF Entries
<1>5. PICK b \in Int : b = Funds!OwnerLoanBalance(d)
  BY LoanAfter
<1>6. PICK m \in Int : m = e.lines["loan"]
  BY LoanAfter
<1>7. CASE e.day <= d
  <2>1. Funds!OwnerLoanBalance(d)' = b - m
    BY <1>5, <1>6, <1>7, LoanAfter
  <2>2. b = Funds!OwnerLoanBalance(e.day)
    BY <1>2, <1>4, <1>5, <1>7, LoanStands
  <2>3. m > 0 => m <= b
    BY <1>3, <1>6, <2>2
  <2> QED
    BY <1>5, <2>1, <2>3
<1>8. CASE ~(e.day <= d)
  <2>1. Funds!OwnerLoanBalance(d)' = b
    BY <1>5, <1>8, LoanAfter
  <2> QED
    BY <1>5, <2>1
<1> QED
  BY <1>7, <1>8

\* The same for a record.
LEMMA InsertGuarded ==
    ASSUME FundInv, NEW c \in Clerks, clerk[c].at = "record",
           Funds!Insert(c, Postings(clerk[c].row)), ~Funds!Unguarded,
           NEW d \in 1 .. LastDay, Funds!OwnerLoanBalance(d) >= 0
    PROVE  ~(Funds!OwnerLoanBalance(d)' < 0)
<1>1. PICK w : w = clerk[c]
  OBVIOUS
<1>2. PICK e : e = Funds!Entry(w.day, Postings(w.row), nextRecord, 0)
  OBVIOUS
<1>3. /\ nextRecord <= MaxRecords /\ journal' = Append(journal, e)
      /\ clerk' = [clerk EXCEPT ![c] = Funds!Idle]
  BY <1>1, <1>2 DEF Funds!Insert, Funds!Leave
<1>4. InHand(w) /\ CoveredFor(w) /\ w.row \in Offers /\ w.day \in 1 .. LastDay
  <2>1. InHand(w) /\ CoveredFor(w)
    BY <1>1 DEF FundInv, FundTypes
  <2> QED
    BY <1>1, <2>1 DEF InHand
<1>5. e \in Entries /\ e.day = w.day /\ e.lines = Postings(w.row)
  <2>1. Postings(w.row) \in Lines
    BY <1>4, PostingsAre
  <2>2. nextRecord \in 0 .. MaxRecords
    BY <1>3, FundsAssumption DEF FundInv, FundTypes
  <2> QED
    BY <1>2, <1>4, <2>1, <2>2 DEF Funds!Entry, Entries
<1>6. clerk'[c] # clerk[c]
  BY <1>3 DEF FundInv, FundTypes, Funds!Idle
<1>7. w.seen = Len(journal) /\ e.lines["loan"] > 0 =>
          e.lines["loan"] <= Funds!OwnerLoanBalance(w.day)
  <2>1. PICK o \in Offers : o = w.row
    BY <1>4
  <2>2. PICK m : m = Postings(o)["loan"]
    OBVIOUS
  <2>3. m > 0 => o.kind = "repayment" /\ m = o.amount
    BY <2>2, PostingsAre
  <2> QED
    BY <1>1, <1>4, <1>5, <2>1, <2>2, <2>3 DEF CoveredFor
<1> QED
  BY <1>1, <1>3, <1>4, <1>5, <1>6, <1>7, GuardHeld DEF FundInv

\* The same for a reversal.
LEMMA ReverseGuarded ==
    ASSUME FundInv, NEW c \in Clerks, Funds!Reverse(c), Funds!PeriodOpen(clerk[c].day),
           ~Funds!Unguarded, NEW d \in 1 .. LastDay, Funds!OwnerLoanBalance(d) >= 0
    PROVE  ~(Funds!OwnerLoanBalance(d)' < 0)
<1>1. PICK w : w = clerk[c]
  OBVIOUS
<1>2. PICK old : old = journal[w.entry]
  OBVIOUS
<1>3. PICK e : e = Funds!Entry(w.day, [a \in Funds!Accounts |-> -old.lines[a]], old.of, w.entry)
  OBVIOUS
<1>4. /\ w.at = "reverse" /\ journal' = Append(journal, e)
      /\ clerk' = [clerk EXCEPT ![c] = IF w.id = 0 THEN Funds!Idle ELSE [@ EXCEPT !.at = "erase"]]
  BY <1>1, <1>2, <1>3 DEF Funds!Reverse
<1>5. InHand(w) /\ CoveredFor(w) /\ w.entry \in 1 .. Len(journal) /\ w.day \in 1 .. LastDay
  <2>1. InHand(w) /\ CoveredFor(w)
    BY <1>1 DEF FundInv, FundTypes
  <2> QED
    BY <1>4, <2>1 DEF InHand
<1>6. clerk'[c] # clerk[c]
  <2>1. clerk'[c] = Funds!Idle \/ clerk'[c] = [w EXCEPT !.at = "erase"]
    BY <1>1, <1>4 DEF FundInv, FundTypes
  <2>2. clerk'[c].at # "reverse"
    BY <1>5, <2>1 DEF Funds!Idle, InHand
  <2> QED
    BY <1>1, <1>4, <2>2
<1>7. old \in Entries /\ old.lines \in Lines
  <2>1. old \in Entries
    BY <1>2, <1>5 DEF FundInv, FundTypes
  <2> QED
    BY <2>1 DEF Entries
<1>8. /\ e.day = w.day /\ e.lines["loan"] = -old.lines["loan"] /\ old.lines["loan"] \in Int
      /\ e \in Entries
  <2>1. /\ e.of = old.of /\ e.mirrors = w.entry /\ e.day = w.day
        /\ e.lines = [a \in Funds!Accounts |-> -old.lines[a]]
        /\ e = [day |-> e.day, lines |-> e.lines, of |-> e.of, mirrors |-> e.mirrors]
    BY <1>3 DEF Funds!Entry
  <2>2. e.lines \in Lines /\ old.lines["loan"] \in Int
    BY <1>7, <2>1, Mirrored DEF Funds!Accounts
  <2>3. old.of \in 0 .. MaxRecords /\ w.entry \in Nat
    BY <1>5, <1>7 DEF Entries
  <2>4. e \in Entries
    BY <1>5, <2>1, <2>2, <2>3 DEF Entries
  <2> QED
    BY <2>1, <2>2, <2>4 DEF Funds!Accounts
<1>9. w.id # 0
  BY <1>1, <1>4, <1>6 DEF Funds!Unguarded
<1>10. w.seen = Len(journal) /\ e.lines["loan"] > 0 =>
          e.lines["loan"] <= Funds!OwnerLoanBalance(w.day)
  <2>1. PICK m \in Int : m = old.lines["loan"]
    BY <1>8
  <2>2. w.seen = Len(journal) => (m < 0 => -m <= Funds!OwnerLoanBalance(w.day))
    BY <1>2, <1>4, <1>5, <1>9, <2>1 DEF CoveredFor
  <2>3. -m > 0 => m < 0
    BY <2>1
  <2>4. e.lines["loan"] = -m
    BY <1>8, <2>1
  <2> QED
    BY <2>2, <2>3, <2>4
<1> QED
  BY <1>1, <1>4, <1>5, <1>6, <1>8, <1>10, GuardHeld DEF FundInv

LEMMA LoanStep ==
    FundInv /\ [Next]_vars =>
      [ Len(journal') > Len(journal) =>
          \A d \in Funds!Days :
            Funds!OwnerLoanBalance(d) >= 0 /\ Funds!OwnerLoanBalance(d)' < 0 =>
                Funds!Unguarded ]_(Funds!vars)
<1> SUFFICES ASSUME FundInv, [Next]_vars, Len(journal') > Len(journal),
                    NEW d \in 1 .. LastDay, Funds!OwnerLoanBalance(d) >= 0,
                    ~Funds!Unguarded
             PROVE  ~(Funds!OwnerLoanBalance(d)' < 0)
  BY DEF Funds!Days
<1>1. journal' # journal
  OBVIOUS
<1>2. PICK c \in Clerks : Funds!Write(c)
  <2>1. ASSUME NEW c \in Clerks, Funds!Request(c) PROVE UNCHANGED journal
    <3>1. \E w : UNCHANGED journal
      BY <2>1, Requested DEF FundInv
    <3> QED
      BY <3>1
  <2> QED
    BY <1>1, <2>1, Steps DEF Funds!Next, Funds!Tick, Funds!LockPeriod, Funds!Fail, Funds!books,
       fundVars
<1>3. CASE Funds!RecordFunding(c)
  <2>1. clerk[c].row.kind # "expense"
    BY <1>3 DEF Funds!RecordFunding, Funds!Fundings
  <2>2. Postings(clerk[c].row) = Funds!FundingPostings(clerk[c].row)
    BY <2>1 DEF Postings
  <2> QED
    BY <1>3, <2>2, InsertGuarded DEF Funds!RecordFunding
<1>4. CASE Funds!RecordExpense(c)
  <2>1. Postings(clerk[c].row) = Funds!ExpensePostings(clerk[c].row)
    BY <1>4 DEF Postings, Funds!RecordExpense
  <2> QED
    BY <1>4, <2>1, InsertGuarded DEF Funds!RecordExpense
<1>5. CASE Funds!Post(c)
  <2>1. PICK e : e = Funds!Entry(clerk[c].day, clerk[c].lines, 0, 0)
    OBVIOUS
  <2>2. journal' = Append(journal, e) /\ e.of = 0
    BY <1>5, <2>1 DEF Funds!Post, Funds!Entry
  <2>3. journal'[Len(journal')] = e
    BY <2>2 DEF FundInv, FundTypes
  <2> QED
    BY <2>2, <2>3 DEF Funds!Unguarded
<1>6. CASE Funds!Reverse(c)
  <2>1. Funds!PeriodOpen(clerk[c].day)
    BY <1>1, <1>6 DEF Funds!Reverse, Funds!Refuse, Funds!books
  <2> QED
    BY <1>6, <2>1, ReverseGuarded
<1>7. CASE Funds!Erase(c)
  BY <1>1, <1>7 DEF Funds!Erase
<1> QED
  BY <1>2, <1>3, <1>4, <1>5, <1>6, <1>7 DEF Funds!Write

\* For any number of handlers, offers and days: no repayment and no removal of
\* a loan leaves the owner owing the business on a day on which it owed the
\* owner, unless something was posted since it was checked, entries of a later
\* day were there, or it was done by hand (accounting/funding.go:
\* RecordFunding, DeleteFunding).
THEOREM LoanIsGuarded == Spec => LoanNotOverdrawn
<1>1. Spec => [][ Len(journal') > Len(journal) =>
          \A d \in Funds!Days :
            Funds!OwnerLoanBalance(d) >= 0 /\ Funds!OwnerLoanBalance(d)' < 0 =>
                Funds!Unguarded ]_(Funds!vars)
  BY FundsKept, LoanStep, PTL DEF Spec
<1> QED
  BY <1>1 DEF LoanNotOverdrawn, Funds!LoanNotOverdrawn

-----------------------------------------------------------------------------
(* The statements                                                          *)

\* The rows that count, and what each of them is worth.
Current == DOMAIN records \ Funds!Unsettled
OfKind(kinds) == { id \in Current : records[id].offer.kind \in kinds }
Amounts == [id \in Current |-> records[id].offer.amount]
Taxes == [id \in Current |-> Funds!VAT(records[id].offer.amount, records[id].offer.rate)]
Reclaims == [id \in Current |-> IF records[id].offer.reclaimable THEN Taxes[id] ELSE 0]
Posting(a) == [id \in Current |-> Postings(records[id].offer)[a]]

LEMMA CurrentIs ==
    ASSUME FundInv
    PROVE  /\ IsFiniteSet(Current) /\ Current \subseteq 1 .. MaxRecords \ Funds!Unsettled
           /\ \A kinds : IsFiniteSet(OfKind(kinds)) /\ OfKind(kinds) \subseteq Current
           /\ \A id \in Current : records[id].offer \in Offers
<1>1. Current \subseteq 1 .. MaxRecords
  BY FundsAssumption DEF Current, FundInv, FundTypes
<1>2. IsFiniteSet(Current)
  <2>1. IsFiniteSet(1 .. MaxRecords)
    BY FundsAssumption, FS_Interval
  <2> QED
    BY <1>1, <2>1, FS_Subset
<1>3. \A kinds : OfKind(kinds) \subseteq Current
  BY DEF OfKind
<1>4. \A kinds : IsFiniteSet(OfKind(kinds))
  BY <1>2, <1>3, FS_Subset
<1>5. \A id \in Current : records[id].offer \in Offers
  BY DEF Current, FundInv, Originals
<1> QED
  BY <1>1, <1>2, <1>3, <1>4, <1>5 DEF Current

LEMMA RowsOfNet ==
    ASSUME FundInv, NEW kinds
    PROVE  Funds!Rows(kinds, Funds!Net) = Sum(Amounts, OfKind(kinds))
<1> DEFINE S == OfKind(kinds)
           Adds(h) == h = [s \in SUBSET S |-> IF s = {} THEN 0
                             ELSE LET x == CHOOSE x \in s : TRUE
                                  IN records[x].offer.amount + h[s \ {x}]]
           h == CHOOSE h : Adds(h)
<1>1. IsFiniteSet(S) /\ S \subseteq Current
  BY CurrentIs
<1>2. Funds!Rows(kinds, Funds!Net) = h[S]
  BY DEF Funds!Rows, Funds!Net, Funds!MapThenSumSet, Funds!MapThenFoldSet, OfKind, Current
<1> HIDE DEF S
<1>3. ASSUME NEW g PROVE Adds(g) <=> Sums(Amounts, S, g)
  <2>1. \A x \in S : Amounts[x] = records[x].offer.amount
    BY <1>1 DEF Amounts
  <2> QED
    BY <2>1 DEF Sums
<1>4. Sums(Amounts, S, h)
  <2> HIDE DEF Adds
  <2>1. \E g : Adds(g)
    BY <1>1, <1>3, SumsExist
  <2>2. Adds(h)
    BY <2>1
  <2> HIDE DEF h
  <2> QED
    BY <1>3, <2>2
<1> HIDE DEF h, Adds
<1> QED
  BY <1>1, <1>2, <1>4, SumOf DEF S

LEMMA RowsOfTax ==
    ASSUME FundInv, NEW kinds
    PROVE  Funds!Rows(kinds, Funds!Tax) = Sum(Taxes, OfKind(kinds))
<1> DEFINE S == OfKind(kinds)
           Adds(h) == h = [s \in SUBSET S |-> IF s = {} THEN 0
                             ELSE LET x == CHOOSE x \in s : TRUE
                                  IN Funds!VAT(records[x].offer.amount, records[x].offer.rate)
                                       + h[s \ {x}]]
           h == CHOOSE h : Adds(h)
<1>1. IsFiniteSet(S) /\ S \subseteq Current
  BY CurrentIs
<1>2. Funds!Rows(kinds, Funds!Tax) = h[S]
  BY DEF Funds!Rows, Funds!Tax, Funds!MapThenSumSet, Funds!MapThenFoldSet, OfKind, Current
<1> HIDE DEF S
<1>3. ASSUME NEW g PROVE Adds(g) <=> Sums(Taxes, S, g)
  <2>1. \A x \in S : Taxes[x] = Funds!VAT(records[x].offer.amount, records[x].offer.rate)
    BY <1>1 DEF Taxes
  <2> QED
    BY <2>1 DEF Sums
<1>4. Sums(Taxes, S, h)
  <2> HIDE DEF Adds
  <2>1. \E g : Adds(g)
    BY <1>1, <1>3, SumsExist
  <2>2. Adds(h)
    BY <2>1
  <2> HIDE DEF h
  <2> QED
    BY <1>3, <2>2
<1> HIDE DEF h, Adds
<1> QED
  BY <1>1, <1>2, <1>4, SumOf DEF S

LEMMA RowsOfReclaimed ==
    ASSUME FundInv, NEW kinds
    PROVE  Funds!Rows(kinds, Funds!Reclaimed) = Sum(Reclaims, OfKind(kinds))
<1> DEFINE S == OfKind(kinds)
           Adds(h) == h = [s \in SUBSET S |-> IF s = {} THEN 0
                             ELSE LET x == CHOOSE x \in s : TRUE
                                  IN (IF records[x].offer.reclaimable
                                      THEN Funds!VAT(records[x].offer.amount, records[x].offer.rate)
                                      ELSE 0) + h[s \ {x}]]
           h == CHOOSE h : Adds(h)
<1>1. IsFiniteSet(S) /\ S \subseteq Current
  BY CurrentIs
<1>2. Funds!Rows(kinds, Funds!Reclaimed) = h[S]
  BY DEF Funds!Rows, Funds!Reclaimed, Funds!Tax, Funds!MapThenSumSet, Funds!MapThenFoldSet,
         OfKind, Current
<1> HIDE DEF S
<1>3. ASSUME NEW g PROVE Adds(g) <=> Sums(Reclaims, S, g)
  <2>1. \A x \in S : Reclaims[x] =
            IF records[x].offer.reclaimable
            THEN Funds!VAT(records[x].offer.amount, records[x].offer.rate) ELSE 0
    BY <1>1 DEF Reclaims, Taxes
  <2> QED
    BY <2>1 DEF Sums
<1>4. Sums(Reclaims, S, h)
  <2> HIDE DEF Adds
  <2>1. \E g : Adds(g)
    BY <1>1, <1>3, SumsExist
  <2>2. Adds(h)
    BY <2>1
  <2> HIDE DEF h
  <2> QED
    BY <1>3, <2>2
<1> HIDE DEF h, Adds
<1> QED
  BY <1>1, <1>2, <1>4, SumOf DEF S

\* The rows of some kinds, with nothing for the others.
Padded(F, kinds) == [id \in Current |-> IF records[id].offer.kind \in kinds THEN F[id] ELSE 0]

LEMMA RowsPadded ==
    ASSUME FundInv, NEW kinds, NEW F, \A id \in Current : F[id] \in Int
    PROVE  Sum(F, OfKind(kinds)) = Sum(Padded(F, kinds), Current)
<1>1. IsFiniteSet(Current) /\ IsFiniteSet(OfKind(kinds)) /\ OfKind(kinds) \subseteq Current
  BY CurrentIs
<1>2. PICK P : P = Padded(F, kinds)
  OBVIOUS
<1>3. /\ \A id \in OfKind(kinds) : P[id] = F[id] /\ P[id] \in Int
      /\ \A id \in Current \ OfKind(kinds) : P[id] = 0
  BY <1>1, <1>2 DEF Padded, OfKind
<1>4. Sum(F, OfKind(kinds)) = Sum(P, OfKind(kinds))
  BY <1>1, <1>3, SumSame
<1>5. Sum(P, Current) = Sum(P, OfKind(kinds))
  BY <1>1, <1>3, SumWithin
<1> QED
  BY <1>2, <1>4, <1>5

\* What the ledger holds of the records that count is what they posted.
LEMMA HeldIsPosted ==
    ASSUME FundInv, NEW a \in Funds!Accounts
    PROVE  Funds!Effect(a, 1 .. MaxRecords \ Funds!Unsettled, LastDay) = Sum(Posting(a), Current)
<1> DEFINE Posts == 1 .. Len(journal)
<1>1. PICK ids : ids = 1 .. MaxRecords \ Funds!Unsettled
  OBVIOUS
<1>2. PICK of : of = [n \in Posts |-> journal[n].of]
  OBVIOUS
<1>3. PICK F : F = OnAccount(journal, a)
  OBVIOUS
<1>4. PICK G : G = [id \in ids |-> HeldOf(journal, a, id)]
  OBVIOUS
<1>j. journal \in Seq(Entries)
  BY DEF FundInv, FundTypes
<1>5. /\ IsFiniteSet(Posts) /\ DOMAIN journal = Posts
      /\ \A n \in Posts : F[n] \in Int /\ journal[n].day <= LastDay
  BY <1>j, <1>3, EntryTypes
<1>6. IsFiniteSet(ids) /\ IsFiniteSet(Current) /\ Current \subseteq ids
  <2>1. IsFiniteSet(1 .. MaxRecords)
    BY FundsAssumption, FS_Interval
  <2> QED
    BY <1>1, <2>1, CurrentIs, FS_Subset
<1>7. Funds!Effect(a, ids, LastDay) = Sum(F, Belong(Posts, of, ids))
  <2>1. Funds!Effect(a, ids, LastDay) = EffectIn(journal, a, ids, LastDay)
    BY EffectNow
  <2>2. EffectIn(journal, a, ids, LastDay) = Sum(F, Upto(journal, ids, LastDay))
    BY <1>j, <1>3, EffectIsSum
  <2>3. Upto(journal, ids, LastDay) = Belong(Posts, of, ids)
    BY <1>2, <1>5 DEF Upto, Belong
  <2> QED
    BY <2>1, <2>2, <2>3
<1>8. \A id \in ids : G[id] = Sum(F, Belong(Posts, of, {id}))
  <2>1. ASSUME NEW id \in ids PROVE G[id] = Sum(F, Belong(Posts, of, {id}))
    <3>1. Belong(Posts, of, {id}) = MadeOf(journal, id)
      BY <1>2 DEF Belong, MadeOf
    <3> QED
      BY <1>3, <1>4, <3>1 DEF HeldOf, OnAccount
  <2> QED
    BY <2>1
<1>9. Sum(F, Belong(Posts, of, ids)) = Sum(G, ids)
  <2>1. PICK all : all = Posts
    OBVIOUS
  <2>2. IsFiniteSet(all) /\ \A n \in all : F[n] \in Int
    BY <1>5, <2>1
  <2>3. Grouped(F, all, of, G, ids)
    BY <1>8, <2>1 DEF Grouped
  <2> QED
    BY <1>6, <2>1, <2>2, <2>3, SumGroups
<1>10. ASSUME NEW id \in ids
       PROVE  /\ id \in Current => G[id] = Posting(a)[id] /\ G[id] \in Int
              /\ id \notin Current => G[id] = 0
  <2>1. id \in 1 .. MaxRecords \ unsure /\ id \notin Funds!Unsettled
    BY <1>1 DEF Funds!Unsettled
  <2>2. InLedger(id)
    BY <2>1 DEF FundInv
  <2>3. Booked(id) <=> id \in Current
    BY <2>1 DEF Booked, Current, Funds!Unsettled
  <2>4. CASE id \in Current
    <3>1. MadeOf(journal, id) = {records[id].entry}
      BY <2>2, <2>3, <2>4 DEF InLedger
    <3>2. HeldOf(journal, a, id) = journal[records[id].entry].lines[a]
      BY <1>j, <3>1, HeldType
    <3>3. journal[records[id].entry].lines = Postings(records[id].offer)
      BY <2>4 DEF FundInv, Originals, Current
    <3>4. HeldOf(journal, a, id) \in Int
      BY <1>j, HeldType
    <3> QED
      BY <1>4, <2>4, <3>2, <3>3, <3>4 DEF Posting
  <2>5. CASE id \notin Current
    BY <1>4, <2>2, <2>3, <2>5 DEF InLedger
  <2> QED
    BY <2>4, <2>5
<1>11. Sum(G, ids) = Sum(G, Current)
  BY <1>6, <1>10, SumWithin
<1>12. Sum(G, Current) = Sum(Posting(a), Current)
  <2>1. \A id \in Current : G[id] = Posting(a)[id]
    BY <1>6, <1>10
  <2> QED
    BY <1>6, <2>1, SumSame
<1> QED
  BY <1>1, <1>7, <1>9, <1>11, <1>12

\* Balanced lines make balanced sheets.
LEMMA SheetBalances ==
    ASSUME FundInv, NEW d \in Funds!Days
    PROVE  Funds!BalanceSheet(d)
<1>1. PICK U : U = Upto(journal, 0 .. MaxRecords, d)
  OBVIOUS
<1>2. PICK bank, capital, loan, cost, vat :
        /\ bank = OnAccount(journal, "bank") /\ capital = OnAccount(journal, "capital")
        /\ loan = OnAccount(journal, "loan") /\ cost = OnAccount(journal, "cost")
        /\ vat = OnAccount(journal, "vat")
  OBVIOUS
<1>j. journal \in Seq(Entries)
  BY DEF FundInv, FundTypes
<1>3. IsFiniteSet(U) /\ U \subseteq 1 .. Len(journal)
  BY <1>1, <1>j, EffectIsSum DEF Funds!Accounts
<1>4. ASSUME NEW n \in U
      PROVE  /\ bank[n] \in Int /\ capital[n] \in Int /\ loan[n] \in Int /\ cost[n] \in Int
             /\ vat[n] \in Int /\ bank[n] + capital[n] + loan[n] + cost[n] + vat[n] = 0
  <2>1. n \in 1 .. Len(journal) /\ journal[n] \in Entries
    BY <1>3, <1>j
  <2>2. journal[n].lines \in Lines
    BY <2>1 DEF Entries
  <2> QED
    BY <1>2, <2>1, <2>2 DEF OnAccount, Lines, Funds!Balanced, Funds!Accounts
<1>5. ASSUME NEW a \in Funds!Accounts
      PROVE  Funds!Balance(a, d) = Sum(OnAccount(journal, a), U)
  BY <1>1, <1>j, EffectNow, EffectIsSum DEF Funds!Balance
<1>6. PICK m1, m2, m3, z :
        /\ m1 = [n \in U |-> bank[n] + capital[n]] /\ m2 = [n \in U |-> m1[n] + loan[n]]
        /\ m3 = [n \in U |-> m2[n] + cost[n]] /\ z = [n \in U |-> m3[n] + vat[n]]
  OBVIOUS
<1>7. \A n \in U : m1[n] = bank[n] + capital[n] /\ m1[n] \in Int
  BY <1>4, <1>6
<1>8. \A n \in U : m2[n] = m1[n] + loan[n] /\ m2[n] \in Int
  BY <1>4, <1>6, <1>7
<1>9. \A n \in U : m3[n] = m2[n] + cost[n] /\ m3[n] \in Int
  BY <1>4, <1>6, <1>8
<1>10. \A n \in U : z[n] = m3[n] + vat[n] /\ z[n] = 0
  BY <1>4, <1>6, <1>7, <1>8, <1>9
<1>11. /\ Sum(bank, U) \in Int /\ Sum(capital, U) \in Int /\ Sum(loan, U) \in Int
       /\ Sum(cost, U) \in Int /\ Sum(vat, U) \in Int
  BY <1>3, <1>4, SumTake
<1>12. Sum(m1, U) = Sum(bank, U) + Sum(capital, U)
  BY <1>3, <1>4, <1>7, SumPlus
<1>13. Sum(m2, U) = Sum(m1, U) + Sum(loan, U)
  BY <1>3, <1>4, <1>7, <1>8, SumPlus
<1>14. Sum(m3, U) = Sum(m2, U) + Sum(cost, U)
  BY <1>3, <1>4, <1>8, <1>9, SumPlus
<1>15. Sum(z, U) = Sum(m3, U) + Sum(vat, U) /\ Sum(z, U) = 0
  <2>1. Sum(z, U) = Sum(m3, U) + Sum(vat, U)
    BY <1>3, <1>4, <1>9, <1>10, SumPlus
  <2>2. Sum(z, U) = 0
    BY <1>3, <1>10, SumZero
  <2> QED
    BY <2>1, <2>2
<1>16. PICK b, k, l, c, v \in Int :
         /\ b = Sum(bank, U) /\ k = Sum(capital, U) /\ l = Sum(loan, U)
         /\ c = Sum(cost, U) /\ v = Sum(vat, U)
  BY <1>11
<1>17. b + k + l + c + v = 0
  BY <1>12, <1>13, <1>14, <1>15, <1>16
<1>18. b = -(l + v) - k + -c
  BY <1>17
<1>19. /\ Funds!Balance("bank", d) = b /\ Funds!Balance("capital", d) = k
       /\ Funds!Balance("loan", d) = l /\ Funds!Balance("cost", d) = c
       /\ Funds!Balance("vat", d) = v
  BY <1>2, <1>5, <1>16 DEF Funds!Accounts
<1> QED
  BY <1>18, <1>19 DEF Funds!BalanceSheet, Funds!ProfitAndLoss

\* What each kind of row is worth on each account.
LEMMA Worth ==
    ASSUME FundInv, NEW id \in Current
    PROVE  LET o == records[id].offer
               tax == Funds!VAT(o.amount, o.rate)
           IN /\ Amounts[id] = o.amount /\ Amounts[id] \in Int
              /\ Taxes[id] = tax /\ Taxes[id] \in Int
              /\ Reclaims[id] = (IF o.reclaimable THEN tax ELSE 0) /\ Reclaims[id] \in Int
              /\ o.kind \in {"capital", "loan", "repayment", "expense"}
              /\ Posting("loan")[id] = (IF o.kind = "repayment" THEN Amounts[id] ELSE
                                        IF o.kind = "loan" THEN -Amounts[id] ELSE 0)
              /\ Posting("capital")[id] = (IF o.kind = "capital" THEN -Amounts[id] ELSE 0)
              /\ Posting("vat")[id] = (IF o.kind = "expense" THEN Reclaims[id] ELSE 0)
              /\ Posting("bank")[id] =
                   (IF o.kind \in {"capital", "loan"} THEN Amounts[id] ELSE
                    IF o.kind = "repayment" THEN -Amounts[id] ELSE -Amounts[id] - Taxes[id])
<1>1. PICK o \in Offers : o = records[id].offer
  BY CurrentIs
<1>2. PICK tax : tax = Funds!VAT(o.amount, o.rate)
  OBVIOUS
<1>3. PICK l : l = Postings(o)
  OBVIOUS
<1>4. /\ o.amount \in Nat \ {0} /\ tax \in Int
      /\ o.kind \in {"capital", "loan", "repayment", "expense"}
      /\ o.kind = "capital" => l["bank"] = o.amount /\ l["capital"] = -o.amount
                               /\ l["loan"] = 0 /\ l["vat"] = 0
      /\ o.kind = "loan" => l["bank"] = o.amount /\ l["loan"] = -o.amount
                            /\ l["capital"] = 0 /\ l["vat"] = 0
      /\ o.kind = "repayment" => l["bank"] = -o.amount /\ l["loan"] = o.amount
                                 /\ l["capital"] = 0 /\ l["vat"] = 0
      /\ o.kind = "expense" =>
           /\ l["bank"] = -o.amount - tax /\ l["loan"] = 0 /\ l["capital"] = 0
           /\ l["vat"] = IF o.reclaimable THEN tax ELSE 0
  BY <1>2, <1>3, PostingsAre
<1>5. /\ Amounts[id] = o.amount /\ Taxes[id] = tax
      /\ Reclaims[id] = (IF o.reclaimable THEN tax ELSE 0)
      /\ \A a : Posting(a)[id] = l[a]
  BY <1>1, <1>2, <1>3 DEF Amounts, Taxes, Reclaims, Posting
<1> QED
  BY <1>1, <1>2, <1>4, <1>5

LEMMA FollowsRecords == ASSUME FundInv PROVE Funds!LedgerFollowsRecords
<1> DEFINE Held(a) == Funds!Effect(a, 1 .. MaxRecords \ Funds!Unsettled, LastDay)
<1>c. IsFiniteSet(Current)
  BY CurrentIs
<1>1. PICK bank, capital, loan, vat :
        /\ bank = Posting("bank") /\ capital = Posting("capital")
        /\ loan = Posting("loan") /\ vat = Posting("vat")
  OBVIOUS
<1>2. PICK in, lent, paid, put, spent, taxed, back :
        /\ in = Padded(Amounts, {"capital", "loan"}) /\ put = Padded(Amounts, {"capital"})
        /\ lent = Padded(Amounts, {"loan"}) /\ paid = Padded(Amounts, {"repayment"})
        /\ spent = Padded(Amounts, {"expense"}) /\ taxed = Padded(Taxes, {"expense"})
        /\ back = Padded(Reclaims, {"expense"})
  OBVIOUS
<1>3. /\ Held("bank") = Sum(bank, Current) /\ Held("capital") = Sum(capital, Current)
      /\ Held("loan") = Sum(loan, Current) /\ Held("vat") = Sum(vat, Current)
  BY <1>1, HeldIsPosted DEF Funds!Accounts
<1>4. \A id \in Current : Amounts[id] \in Int /\ Taxes[id] \in Int /\ Reclaims[id] \in Int
  BY Worth
<1>5. /\ Funds!Rows({"capital", "loan"}, Funds!Net) = Sum(in, Current)
      /\ Funds!Rows({"capital"}, Funds!Net) = Sum(put, Current)
      /\ Funds!Rows({"loan"}, Funds!Net) = Sum(lent, Current)
      /\ Funds!Rows({"repayment"}, Funds!Net) = Sum(paid, Current)
      /\ Funds!Rows({"expense"}, Funds!Net) = Sum(spent, Current)
  <2>1. ASSUME NEW kinds
        PROVE  Funds!Rows(kinds, Funds!Net) = Sum(Padded(Amounts, kinds), Current)
    <3>1. Funds!Rows(kinds, Funds!Net) = Sum(Amounts, OfKind(kinds))
      BY RowsOfNet
    <3>2. Sum(Amounts, OfKind(kinds)) = Sum(Padded(Amounts, kinds), Current)
      BY <1>4, RowsPadded
    <3> QED
      BY <3>1, <3>2
  <2> QED
    BY <1>2, <2>1
<1>6. Funds!Rows({"expense"}, Funds!Tax) = Sum(taxed, Current)
  BY <1>2, <1>4, RowsOfTax, RowsPadded
<1>7. Funds!Rows({"expense"}, Funds!Reclaimed) = Sum(back, Current)
  BY <1>2, <1>4, RowsOfReclaimed, RowsPadded
<1>8. ASSUME NEW id \in Current
      PROVE  /\ in[id] \in Int /\ put[id] \in Int /\ lent[id] \in Int /\ paid[id] \in Int
             /\ spent[id] \in Int /\ taxed[id] \in Int /\ back[id] \in Int
             /\ bank[id] \in Int /\ loan[id] \in Int /\ capital[id] \in Int /\ vat[id] \in Int
             /\ paid[id] = loan[id] + lent[id]
             /\ capital[id] + put[id] = 0
             /\ vat[id] = back[id]
             /\ in[id] = bank[id] + paid[id] + spent[id] + taxed[id]
  <2>1. PICK kind : kind = records[id].offer.kind
    OBVIOUS
  <2>2. PICK n, t, r \in Int : n = Amounts[id] /\ t = Taxes[id] /\ r = Reclaims[id]
    BY <1>4
  <2>3. /\ in[id] = (IF kind \in {"capital", "loan"} THEN n ELSE 0)
        /\ put[id] = (IF kind = "capital" THEN n ELSE 0)
        /\ lent[id] = (IF kind = "loan" THEN n ELSE 0)
        /\ paid[id] = (IF kind = "repayment" THEN n ELSE 0)
        /\ spent[id] = (IF kind = "expense" THEN n ELSE 0)
        /\ taxed[id] = (IF kind = "expense" THEN t ELSE 0)
        /\ back[id] = (IF kind = "expense" THEN r ELSE 0)
    BY <1>2, <2>1, <2>2 DEF Padded
  <2>4. /\ kind \in {"capital", "loan", "repayment", "expense"}
        /\ loan[id] = (IF kind = "repayment" THEN n ELSE IF kind = "loan" THEN -n ELSE 0)
        /\ capital[id] = (IF kind = "capital" THEN -n ELSE 0)
        /\ vat[id] = (IF kind = "expense" THEN r ELSE 0)
        /\ bank[id] = (IF kind \in {"capital", "loan"} THEN n ELSE
                       IF kind = "repayment" THEN -n ELSE -n - t)
    BY <1>1, <2>1, <2>2, Worth
  <2> QED
    BY <2>2, <2>3, <2>4
<1>9. /\ Sum(in, Current) \in Int /\ Sum(put, Current) \in Int /\ Sum(lent, Current) \in Int
      /\ Sum(paid, Current) \in Int /\ Sum(spent, Current) \in Int /\ Sum(taxed, Current) \in Int
      /\ Sum(bank, Current) \in Int /\ Sum(loan, Current) \in Int /\ Sum(capital, Current) \in Int
  BY <1>c, <1>8, SumTake
<1>10. Held("loan") = Funds!Rows({"repayment"}, Funds!Net) - Funds!Rows({"loan"}, Funds!Net)
  <2>1. Sum(paid, Current) = Sum(loan, Current) + Sum(lent, Current)
    BY <1>c, <1>8, SumPlus
  <2> QED
    BY <1>3, <1>5, <1>9, <2>1
<1>11. Held("capital") = -Funds!Rows({"capital"}, Funds!Net)
  <2>1. PICK z : z = [id \in Current |-> 0]
    OBVIOUS
  <2>2. \A id \in Current : z[id] = 0 /\ z[id] = capital[id] + put[id]
    BY <1>8, <2>1
  <2>3. Sum(z, Current) = Sum(capital, Current) + Sum(put, Current)
    BY <1>c, <1>8, <2>2, SumPlus
  <2>4. Sum(z, Current) = 0
    BY <1>c, <2>2, SumZero
  <2> QED
    BY <1>3, <1>5, <1>9, <2>3, <2>4
<1>12. Held("vat") = Funds!InputVAT
  <2>1. Sum(vat, Current) = Sum(back, Current)
    BY <1>c, <1>8, SumSame
  <2> QED
    BY <1>3, <1>7, <2>1 DEF Funds!InputVAT
<1>13. Held("bank") = Funds!Rows({"capital", "loan"}, Funds!Net)
            - Funds!Rows({"repayment"}, Funds!Net) - Funds!Rows({"expense"}, Funds!Net)
            - Funds!Rows({"expense"}, Funds!Tax)
  <2>1. PICK m1, m2 : /\ m1 = [id \in Current |-> bank[id] + paid[id]]
                      /\ m2 = [id \in Current |-> m1[id] + spent[id]]
    OBVIOUS
  <2>2. \A id \in Current : m1[id] = bank[id] + paid[id] /\ m1[id] \in Int
    BY <1>8, <2>1
  <2>3. \A id \in Current : m2[id] = m1[id] + spent[id] /\ m2[id] \in Int
    BY <1>8, <2>1, <2>2
  <2>4. \A id \in Current : in[id] = m2[id] + taxed[id]
    BY <1>8, <2>2, <2>3
  <2>5. Sum(m1, Current) = Sum(bank, Current) + Sum(paid, Current)
    BY <1>c, <1>8, <2>2, SumPlus
  <2>6. Sum(m2, Current) = Sum(m1, Current) + Sum(spent, Current)
    BY <1>c, <1>8, <2>2, <2>3, SumPlus
  <2>7. Sum(in, Current) = Sum(m2, Current) + Sum(taxed, Current)
    BY <1>c, <1>8, <2>3, <2>4, SumPlus
  <2>8. PICK b, p, s, t, i \in Int :
          /\ b = Sum(bank, Current) /\ p = Sum(paid, Current) /\ s = Sum(spent, Current)
          /\ t = Sum(taxed, Current) /\ i = Sum(in, Current)
    BY <1>9
  <2>9. b = i - p - s - t
    BY <2>5, <2>6, <2>7, <2>8
  <2> QED
    BY <1>3, <1>5, <1>6, <2>8, <2>9
<1>14. \A d \in Funds!Days : Funds!BalanceSheet(d)
  BY SheetBalances
<1> HIDE DEF Held
<1> QED
  BY <1>10, <1>11, <1>12, <1>13, <1>14 DEF Funds!LedgerFollowsRecords, Held

\* For any number of handlers, records and days, and whatever interleaves:
\* every balance sheet balances, and the ledger holds of the records, those
\* reversed by hand or half taken back aside, exactly what their rows say, on
\* the bank, the capital, the loan and the input tax (accounting/funding.go,
\* expense.go, reports.go).
THEOREM LedgerFollows == Spec => []LedgerFollowsRecords
<1>1. FundInv => LedgerFollowsRecords
  BY FollowsRecords DEF LedgerFollowsRecords
<1> QED
  BY <1>1, FundsKept, PTL

-----------------------------------------------------------------------------
(* Backends.  A change goes through rows, router and catalog in that       *)
(* order; alone, it leaves them apart only between its own steps.          *)

Served == Models!BackendSet(file, declared)
Changes == {"write", "read", "replace", "list"}

ActorTypes ==
    /\ DOMAIN actor = Handlers \cup {"watch"}
    /\ \A a \in Handlers \cup {"watch"} :
        {"at", "name", "def", "set", "todo"} \subseteq DOMAIN actor[a]
    /\ declared = [n \in Names |-> declared[n]]

ServeInv ==
    /\ ActorTypes
    /\ ~crossed =>
        /\ \A g, h \in Handlers : actor[g].at \in Changes /\ actor[h].at \in Changes => g = h
        /\ (\A h \in Handlers : actor[h].at \notin {"read", "replace", "list"}) =>
               live = Served /\ listed = live
        /\ \A h \in Handlers :
            /\ actor[h].at \in {"replace", "list"} => actor[h].set = Served
            /\ actor[h].at = "list" => live = Served

\* A handler, or the watch, goes on to what it does next.
LEMMA ActorBecomes ==
    ASSUME ActorTypes, NEW a \in Handlers \cup {"watch"}, NEW new,
           actor' = [actor EXCEPT ![a] = new],
           {"at", "name", "def", "set", "todo"} \subseteq DOMAIN new, UNCHANGED declared
    PROVE  /\ ActorTypes' /\ actor'[a] = new
           /\ \A h \in Handlers \cup {"watch"} : h # a => actor'[h] = actor[h]
BY DEF ActorTypes

\* What is no change of the set goes from one step outside it to another.
LEMMA OutsideKeeps ==
    ASSUME ServeInv, NEW a \in Handlers \cup {"watch"}, NEW new,
           actor' = [actor EXCEPT ![a] = new],
           {"at", "name", "def", "set", "todo"} \subseteq DOMAIN new,
           new.at \notin Changes, actor[a].at \notin {"read", "replace", "list"},
           UNCHANGED <<file, declared, live, listed>>, ~crossed' => ~crossed
    PROVE  ServeInv'
<1>1. /\ ActorTypes' /\ actor'[a] = new
      /\ \A h \in Handlers \cup {"watch"} : h # a => actor'[h] = actor[h]
  BY ActorBecomes DEF ServeInv
<1>2. Served' = Served
  BY DEF Served, Models!BackendSet
<1> QED
  BY <1>1, <1>2 DEF ServeInv, Changes

LEMMA ServeStep ==
    ASSUME ServeInv, [Next]_vars
    PROVE  ServeInv'
<1> DEFINE Fields == {"at", "name", "def", "set", "todo"}
<1>i. Fields \subseteq DOMAIN Models!Idle /\ Models!Idle.at = "idle"
  BY DEF Models!Idle
<1>p. ASSUME NEW set, NEW names
      PROVE  Fields \subseteq DOMAIN Models!Probing(set, names)
             /\ Models!Probing(set, names).at = "probe"
  BY DEF Models!Probing, Models!Idle
<1>a. ActorTypes
  BY DEF ServeInv
<1>f. \A a \in Handlers \cup {"watch"} : Fields \subseteq DOMAIN actor[a]
  BY <1>a DEF ActorTypes
<1>u. (UNCHANGED <<file, declared>>) => Served' = Served
  BY DEF Served, Models!BackendSet
<1>1. CASE UNCHANGED modelVars
  BY <1>1, <1>u DEF modelVars, ServeInv, ActorTypes
<1>2. ASSUME NEW h \in Handlers, NEW n \in Names, Models!RefreshBackend(h, n) PROVE ServeInv'
  BY <1>2, <1>i, <1>p, OutsideKeeps DEF Models!RefreshBackend, Models!sets, Changes
<1>3. ASSUME NEW h \in Handlers, NEW n \in Names, NEW d \in Definitions \cup {"none"},
             Models!Begin(h, n, d)
      PROVE  ServeInv'
  <2> DEFINE new == [Models!Idle EXCEPT !.at = "write", !.name = n, !.def = d]
  <2>1. Fields \subseteq DOMAIN new /\ new.at = "write"
    BY DEF Models!Idle
  <2>2. actor' = [actor EXCEPT ![h] = new] /\ UNCHANGED <<file, declared, live, listed>>
    BY <1>3 DEF Models!Begin, Models!sets
  <2> HIDE DEF new
  <2>3. /\ ActorTypes' /\ actor'[h] = new
        /\ \A k \in Handlers \cup {"watch"} : k # h => actor'[k] = actor[k]
    BY <1>a, <2>1, <2>2, ActorBecomes
  <2>4. ~crossed' => ~crossed /\ \A g \in Handlers : actor[g].at \notin Changes
    BY <1>3 DEF Models!Begin, Models!Changing, Changes
  <2> QED
    BY <1>u, <2>1, <2>2, <2>3, <2>4 DEF ServeInv, Changes
<1>4. ASSUME NEW h \in Handlers, Models!Write(h) PROVE ServeInv'
  <2>1. actor[h].at = "write" /\ UNCHANGED <<file, live, listed, crossed>>
    BY <1>4 DEF Models!Write
  <2>2. CASE actor[h].def = "none" /\ declared[actor[h].name] = "none"
    <3>1. declared' = declared
      BY <1>4, <2>2, <1>a DEF Models!Write, ActorTypes
    <3> QED
      BY <1>4, <2>1, <2>2, <3>1, <1>i, OutsideKeeps DEF Models!Write, Models!Reply, Changes
  <2>3. CASE ~(actor[h].def = "none" /\ declared[actor[h].name] = "none")
    <3> DEFINE new == [actor[h] EXCEPT !.at = "read"]
    <3>1. Fields \subseteq DOMAIN new /\ new.at = "read"
      BY <1>f
    <3>2. actor' = [actor EXCEPT ![h] = new]
      BY <1>4, <2>3 DEF Models!Write, Models!Go
    <3>3. declared' = [n \in Names |-> declared'[n]]
      BY <1>4, <1>a DEF Models!Write, ActorTypes
    <3> HIDE DEF new
    <3>4. /\ ActorTypes' /\ actor'[h] = new
          /\ \A k \in Handlers \cup {"watch"} : k # h => actor'[k] = actor[k]
      BY <1>a, <3>1, <3>2, <3>3 DEF ActorTypes
    <3> QED
      BY <2>1, <3>1, <3>4 DEF ServeInv, Changes
  <2> QED
    BY <2>2, <2>3
<1>5. ASSUME NEW h \in Handlers, Models!Read(h) PROVE ServeInv'
  <2> DEFINE new == [actor[h] EXCEPT !.at = "replace", !.set = Served]
  <2>1. Fields \subseteq DOMAIN new /\ new.at = "replace" /\ new.set = Served
    BY <1>f
  <2>2. actor' = [actor EXCEPT ![h] = new] /\ UNCHANGED <<file, declared, live, listed, crossed>>
          /\ actor[h].at = "read"
    BY <1>5 DEF Models!Read, Models!sets, Served
  <2> HIDE DEF new
  <2>3. /\ ActorTypes' /\ actor'[h] = new
        /\ \A k \in Handlers \cup {"watch"} : k # h => actor'[k] = actor[k]
    BY <1>a, <2>1, <2>2, ActorBecomes
  <2> QED
    BY <1>u, <2>1, <2>2, <2>3 DEF ServeInv, Changes
<1>6. ASSUME NEW h \in Handlers, Models!Replace(h) PROVE ServeInv'
  <2> DEFINE new == [actor[h] EXCEPT !.at = "list"]
  <2>1. Fields \subseteq DOMAIN new /\ new.at = "list" /\ new.set = actor[h].set
    BY <1>f
  <2>2. actor' = [actor EXCEPT ![h] = new] /\ UNCHANGED <<file, declared, listed, crossed>>
          /\ actor[h].at = "replace" /\ live' = actor[h].set
    BY <1>6 DEF Models!Replace, Models!Go
  <2> HIDE DEF new
  <2>3. /\ ActorTypes' /\ actor'[h] = new
        /\ \A k \in Handlers \cup {"watch"} : k # h => actor'[k] = actor[k]
    BY <1>a, <2>1, <2>2, ActorBecomes
  <2> QED
    BY <1>u, <2>1, <2>2, <2>3 DEF ServeInv, Changes
<1>7. ASSUME NEW h \in Handlers, Models!SetBackends(h) PROVE ServeInv'
  <2>1. PICK new : actor' = [actor EXCEPT ![h] = new] /\ Fields \subseteq DOMAIN new
                   /\ new.at \in {"idle", "probe"}
    BY <1>7, <1>i, <1>p DEF Models!SetBackends, Models!Reply
  <2>2. /\ UNCHANGED <<file, declared, live, crossed>>
        /\ actor[h].at = "list" /\ listed' = actor[h].set
    BY <1>7 DEF Models!SetBackends
  <2>3. /\ ActorTypes' /\ actor'[h] = new
        /\ \A k \in Handlers \cup {"watch"} : k # h => actor'[k] = actor[k]
    BY <1>a, <2>1, <2>2, ActorBecomes
  <2> QED
    BY <1>u, <2>1, <2>2, <2>3 DEF ServeInv, Changes
<1>8. ASSUME NEW h \in Handlers, Models!Fail(h) PROVE ServeInv'
  <2>1. /\ actor' = [actor EXCEPT ![h] = Models!Idle]
        /\ UNCHANGED <<file, declared, live, listed>>
        /\ actor[h].at \in {"write", "read", "probe"}
        /\ crossed' = (crossed \/ actor[h].at = "read")
    BY <1>8 DEF Models!Fail, Models!Reply, Models!sets
  <2>2. CASE actor[h].at = "read"
    <3>1. ActorTypes'
      BY <1>a, <1>i, <2>1, ActorBecomes
    <3> QED
      BY <2>1, <2>2, <3>1 DEF ServeInv
  <2>3. CASE actor[h].at # "read"
    BY <2>1, <2>3, <1>i, OutsideKeeps DEF Changes
  <2> QED
    BY <2>2, <2>3
<1>9. ASSUME NEW a \in Handlers \cup {"watch"}, Models!Probe(a) PROVE ServeInv'
  <2>1. PICK n \in actor[a].todo : actor' = [actor EXCEPT ![a].todo = actor[a].todo \ {n}]
    BY <1>9, <1>a DEF Models!Probe, ActorTypes
  <2> DEFINE new == [actor[a] EXCEPT !.todo = actor[a].todo \ {n}]
  <2>2. Fields \subseteq DOMAIN new /\ new.at = "probe" /\ actor[a].at = "probe"
    BY <1>9, <1>f DEF Models!Probe
  <2>3. actor' = [actor EXCEPT ![a] = new] /\ UNCHANGED <<file, declared, live, listed, crossed>>
    BY <1>9, <2>1 DEF Models!Probe, Models!sets
  <2> HIDE DEF new
  <2> QED
    BY <2>2, <2>3, OutsideKeeps DEF Changes
<1>10. ASSUME NEW a \in Handlers \cup {"watch"}, Models!ProbesDone(a) PROVE ServeInv'
  BY <1>10, <1>i, OutsideKeeps DEF Models!ProbesDone, Models!Reply, Models!sets, Changes
<1>11. CASE Models!Sweep
  BY <1>11, <1>i, <1>p, OutsideKeeps DEF Models!Sweep, Models!sets, Changes
<1>12. CASE Models!Tick
  BY <1>12, <1>u DEF Models!Tick, Models!sets, ServeInv, ActorTypes
<1>13. ASSUME NEW names \in SUBSET Names, Models!Restart(names) PROVE ServeInv'
  <2>1. ActorTypes' /\ \A a \in Handlers : actor'[a] = Models!Idle
    BY <1>13, <1>a, <1>i DEF Models!Restart, Models!Actors, ActorTypes
  <2>2. live' = Served' /\ listed' = live'
    BY <1>13 DEF Models!Restart, Served, Models!BackendSet
  <2> QED
    BY <2>1, <2>2, <1>i DEF ServeInv, Changes
<1> QED
  BY <1>1, <1>2, <1>3, <1>4, <1>5, <1>6, <1>7, <1>8, <1>9, <1>10, <1>11, <1>12, <1>13, Steps
     DEF Models!Next, Models!Handle, Models!Watch

\* Whatever fails, and however often the server starts again, for any number
\* of handlers and of names: with nobody at work the router serves and the
\* catalog lists what file and rows declare, unless two changes crossed or a
\* reload failed since (app.go: backendSet, reloadBackends).
THEOREM RouterServesDeclared == Spec => []ServedAsDeclared
<1>1. Init => ServeInv
  <2> SUFFICES ASSUME Init PROVE ServeInv
    OBVIOUS
  <2>1. ActorTypes /\ \A a \in Handlers : actor[a].at = "idle"
    BY DEF Init, Models!Init, Models!Actors, Models!Idle, Models!Nowhere, ActorTypes
  <2>2. live = Served /\ listed = live
    BY DEF Init, Models!Init, Served
  <2> QED
    BY <2>1, <2>2 DEF ServeInv, Changes
<1>2. ServeInv => ServedAsDeclared
  BY DEF ServeInv, Changes, Served, Models!BackendSet, ServedAsDeclared,
     Models!ServedAsDeclared, Models!Changing
<1> QED
  BY <1>1, <1>2, ServeStep, PTL DEF Spec

-----------------------------------------------------------------------------
(* The node's store.  What is about to be installed has been measured      *)
(* against its promise, and nothing touches it before it is.               *)

Chunks == [len : Nat, of : SUBSET Versions]
Promises == [file : ModelFiles, size : Nat \ {0}, sha : Versions \cup {"none"}]
Fetches ==
    [at : {"idle", "next", "copy", "connect", "stream", "verify", "install", "ingest"},
     todo : SUBSET Promises, want : Promises \cup {Nodes!NoPromise}, attempt : Nat,
     from : Chunks]

\* The content a promise was about.
Kept(p, c) == c.len = p.size /\ (p.sha # "none" => c = Nodes!Whole(p.sha))

StoreTypes ==
    /\ published \in [ModelFiles -> Versions \cup {"none"}]
    /\ recorded \in [ModelFiles -> Versions \cup {"none"}]
    /\ store \in [ModelFiles -> Chunks] /\ part \in [ModelFiles -> Chunks]
    /\ mount \in [ModelFiles -> Chunks]
    /\ assigned \subseteq ModelFiles
    /\ job \in Fetches
    /\ under \in [ModelFiles -> Promises \cup {Nodes!NoPromise}]

\* What the job has made sure of.
JobShape ==
    /\ job.at \notin {"idle", "next"} => job.want \in Promises
    /\ job.at = "install" => Kept(job.want, part[job.want.file])
    /\ job.at = "ingest" => store[job.want.file] # Nodes!Nothing

StoreShape ==
    /\ \A f \in ModelFiles : under[f] # Nodes!NoPromise => Kept(under[f], store[f])
    /\ serving \cup known \subseteq { f \in ModelFiles : store[f] # Nodes!Nothing }

StoreInv == StoreTypes /\ JobShape /\ StoreShape

LEMMA Contents ==
    /\ Nodes!Nothing \in Chunks /\ Nodes!Nothing.len = 0
    /\ \A v \in Versions : Nodes!Whole(v) \in Chunks /\ Nodes!Whole(v) # Nodes!Nothing
    /\ \A p \in Promises, c \in Chunks : Kept(p, c) => c # Nodes!Nothing
<1>1. Nodes!Nothing \in Chunks /\ Nodes!Nothing.len = 0
  BY DEF Nodes!Nothing, Chunks
<1>2. ASSUME NEW v \in Versions
      PROVE  Nodes!Whole(v) \in Chunks /\ Nodes!Whole(v) # Nodes!Nothing
  <2>1. Size[v] \in Nat /\ Size[v] # 0
    BY PartsAssumption
  <2>2. Nodes!Whole(v) \in Chunks /\ Nodes!Whole(v).len = Size[v]
    BY <2>1 DEF Nodes!Whole, Chunks
  <2> QED
    BY <2>1, <2>2, <1>1
<1>3. \A p \in Promises, c \in Chunks : Kept(p, c) => c # Nodes!Nothing
  BY <1>1 DEF Kept, Promises
<1> QED
  BY <1>1, <1>2, <1>3

\* The server's side changes, or the share, and the store as it was.
LEMMA OthersMove ==
    ASSUME StoreInv, StoreTypes', UNCHANGED <<job, part, store, under, serving, known>>
    PROVE  StoreInv'
BY DEF StoreInv, JobShape, StoreShape, Kept

\* The job moves on, and the store stays.
LEMMA JobMoves ==
    ASSUME StoreInv, job' \in Fetches, part' \in [ModelFiles -> Chunks], JobShape',
           UNCHANGED <<published, recorded, assigned, store, mount, under, serving, known>>
    PROVE  StoreInv'
BY DEF StoreInv, StoreTypes, StoreShape, Kept

LEMMA GoesTo ==
    ASSUME StoreInv, NEW at \in {"next", "connect", "stream", "verify", "install", "ingest"},
           Nodes!Go(at)
    PROVE  /\ job' \in Fetches /\ job'.at = at /\ job'.want = job.want
BY DEF Nodes!Go, StoreInv, StoreTypes, Fetches

LEMMA TriesAgain ==
    ASSUME StoreInv, Nodes!Again
    PROVE  /\ job' \in Fetches /\ job'.at \in {"connect", "next"} /\ job'.want = job.want
<1>1. CASE job' = [job EXCEPT !.at = "connect", !.attempt = job.attempt + 1,
                              !.from = Nodes!Nothing]
  <2>1. Nodes!Nothing \in Chunks /\ job \in Fetches
    BY Contents DEF StoreInv, StoreTypes
  <2>2. job.attempt + 1 \in Nat
    BY <2>1 DEF Fetches
  <2> QED
    BY <1>1, <2>1, <2>2 DEF Fetches
<1>2. CASE job' = [job EXCEPT !.at = "next"]
  BY <1>2 DEF StoreInv, StoreTypes, Fetches
<1> QED
  BY <1>1, <1>2 DEF Nodes!Again

LEMMA PendingPromises ==
    ASSUME StoreInv, NEW b
    PROVE  Nodes!Pending(b) \subseteq Promises
<1>1. Nodes!Pending(b) \subseteq Nodes!Offer
  BY DEF Nodes!Pending
<1>2. ASSUME NEW f \in assigned, published[f] # "none" PROVE Nodes!Promise(f) \in Promises
  <2> DEFINE v == IF recorded[f] = "none" THEN published[f] ELSE recorded[f]
             sha == IF f \in Undigested THEN "none" ELSE recorded[f]
  <2>1. f \in ModelFiles /\ v \in Versions /\ sha \in Versions \cup {"none"}
    BY <1>2 DEF StoreInv, StoreTypes
  <2>2. Size[v] \in Nat \ {0}
    BY <2>1, PartsAssumption
  <2>3. Nodes!Promise(f) = [file |-> f, size |-> Size[v], sha |-> sha]
    BY DEF Nodes!Promise
  <2> HIDE DEF v, sha
  <2> QED
    BY <2>1, <2>2, <2>3 DEF Promises
<1>3. Nodes!Offer \subseteq Promises
  BY <1>2 DEF Nodes!Offer
<1> QED
  BY <1>1, <1>3

LEMMA StartKeepsStore ==
    ASSUME StoreInv, NEW b, Nodes!StartJob(Nodes!Pending(b)),
           UNCHANGED <<published, recorded, assigned, store, part, mount, under, serving, known>>
    PROVE  StoreInv'
<1>1. PICK todo \in SUBSET Promises : job' = [Nodes!Idle EXCEPT !.at = "next", !.todo = todo]
  BY PendingPromises DEF Nodes!StartJob
<1>2. job' \in Fetches /\ job'.at = "next"
  BY <1>1, Contents DEF Nodes!Idle, Fetches
<1> QED
  BY <1>2, JobMoves DEF JobShape, StoreInv, StoreTypes

LEMMA NextItemKeeps ==
    ASSUME StoreInv, Nodes!NextItem
    PROVE  StoreInv'
<1>1. PICK p \in job.todo :
        \/ /\ job' = [Nodes!Idle EXCEPT !.at = "ingest", !.todo = job.todo \ {p}, !.want = p,
                                        !.attempt = 1, !.from = Nodes!Nothing]
           /\ Nodes!Has(p.file) /\ UNCHANGED part
        \/ /\ job' = [Nodes!Idle EXCEPT !.at = "copy", !.todo = job.todo \ {p}, !.want = p,
                                        !.attempt = 1, !.from = mount[p.file]]
           /\ part' = [part EXCEPT ![p.file] = Nodes!Nothing]
        \/ /\ job' = [Nodes!Idle EXCEPT !.at = "connect", !.todo = job.todo \ {p}, !.want = p,
                                        !.attempt = 1, !.from = Nodes!Nothing]
           /\ UNCHANGED part
  BY DEF Nodes!NextItem
<1>2. p \in Promises /\ p.file \in ModelFiles /\ job.todo \ {p} \in SUBSET Promises
        /\ mount[p.file] \in Chunks
  BY DEF StoreInv, StoreTypes, Fetches, Promises
<1>3. part' \in [ModelFiles -> Chunks]
  BY <1>1, <1>2, Contents DEF StoreInv, StoreTypes
<1>4. /\ job' \in Fetches /\ job'.want = p /\ job'.at \in {"ingest", "copy", "connect"}
      /\ job'.at = "ingest" => store[p.file] # Nodes!Nothing
  <2> DEFINE item(at, from) ==
               [Nodes!Idle EXCEPT !.at = at, !.todo = job.todo \ {p}, !.want = p,
                                  !.attempt = 1, !.from = from]
  <2>1. ASSUME NEW at \in {"ingest", "copy", "connect"}, NEW from \in Chunks
        PROVE  item(at, from) \in Fetches /\ item(at, from).want = p /\ item(at, from).at = at
    BY <1>2 DEF Nodes!Idle, Fetches
  <2> HIDE DEF item
  <2>2. \/ job' = item("ingest", Nodes!Nothing) /\ store[p.file] # Nodes!Nothing
        \/ job' = item("copy", mount[p.file])
        \/ job' = item("connect", Nodes!Nothing)
    BY <1>1 DEF item, Nodes!Has
  <2>3. Nodes!Nothing \in Chunks
    BY Contents
  <2> QED
    BY <1>2, <2>1, <2>2, <2>3
<1>5. UNCHANGED <<published, recorded, assigned, store, mount, under, serving, known>>
  BY DEF Nodes!NextItem, Nodes!server
<1>6. JobShape'
  BY <1>2, <1>4, <1>5 DEF JobShape
<1> QED
  BY <1>3, <1>4, <1>5, <1>6, JobMoves

LEMMA GrowKeeps ==
    ASSUME StoreInv, job.at \in {"copy", "stream"}, Nodes!Grow,
           UNCHANGED <<published, recorded, assigned, store, mount, job, under, serving, known>>
    PROVE  StoreInv'
<1>1. job.want.file \in ModelFiles /\ job.from \in Chunks
  BY DEF StoreInv, JobShape, StoreTypes, Fetches, Promises
<1> DEFINE old == part[job.want.file]
           new == [len |-> old.len + 1, of |-> old.of \cup job.from.of]
<1>2. new \in Chunks
  BY <1>1 DEF StoreInv, StoreTypes, Chunks
<1>3. part' = [part EXCEPT ![job.want.file] = new]
  BY DEF Nodes!Grow, Nodes!f0
<1> HIDE DEF new
<1>4. part' \in [ModelFiles -> Chunks]
  BY <1>1, <1>2, <1>3 DEF StoreInv, StoreTypes
<1>5. JobShape'
  BY DEF StoreInv, JobShape
<1> QED
  BY <1>4, <1>5, JobMoves DEF StoreInv, StoreTypes

LEMMA InstallKeeps ==
    ASSUME StoreInv, Nodes!Install
    PROVE  StoreInv'
<1> DEFINE f == job.want.file
<1>1. f \in ModelFiles /\ job.want \in Promises /\ Kept(job.want, part[f]) /\ part[f] \in Chunks
  BY DEF Nodes!Install, StoreInv, JobShape, StoreTypes, Promises
<1>2. part[f] # Nodes!Nothing
  BY <1>1, Contents
<1>3. /\ store' = [store EXCEPT ![f] = part[f]]
      /\ part' = [part EXCEPT ![f] = Nodes!Nothing]
      /\ under' = [under EXCEPT ![f] = job.want]
      /\ UNCHANGED <<published, recorded, assigned, mount, serving, known>>
  BY DEF Nodes!Install, Nodes!server, Nodes!f0
<1>4. job' \in Fetches /\ job'.at = "ingest" /\ job'.want = job.want
  BY GoesTo DEF Nodes!Install
<1> HIDE DEF f
<1>5. StoreTypes'
  BY <1>1, <1>3, <1>4, Contents DEF StoreInv, StoreTypes
<1>6. store'[f] = part[f] /\ \A g \in ModelFiles : g # f => store'[g] = store[g]
  BY <1>1, <1>3 DEF StoreInv, StoreTypes
<1>7. under'[f] = job.want /\ \A g \in ModelFiles : g # f => under'[g] = under[g]
  BY <1>1, <1>3 DEF StoreInv, StoreTypes
<1>8. JobShape'
  BY <1>1, <1>2, <1>4, <1>6 DEF JobShape, f
<1>9. StoreShape'
  BY <1>1, <1>2, <1>3, <1>6, <1>7 DEF StoreInv, StoreShape, Kept
<1> QED
  BY <1>5, <1>8, <1>9 DEF StoreInv

LEMMA CopyInKeeps ==
    ASSUME StoreInv, NEW f \in ModelFiles, NEW v \in Versions, Nodes!CopyIn(f, v)
    PROVE  StoreInv'
<1>1. store[f] = Nodes!Nothing /\ store' = [store EXCEPT ![f] = Nodes!Whole(v)]
        /\ UNCHANGED <<published, recorded, assigned, part, mount, serving, known, job, under>>
  BY DEF Nodes!CopyIn, Nodes!server
<1>2. under[f] = Nodes!NoPromise
  BY <1>1, Contents DEF StoreInv, StoreShape, StoreTypes
<1>3. store' \in [ModelFiles -> Chunks] /\ store'[f] # Nodes!Nothing
        /\ \A g \in ModelFiles : g # f => store'[g] = store[g]
  BY <1>1, Contents DEF StoreInv, StoreTypes
<1>4. StoreTypes'
  BY <1>1, <1>3 DEF StoreInv, StoreTypes
<1>5. JobShape'
  BY <1>1, <1>3 DEF StoreInv, JobShape, Kept, Promises
<1>6. StoreShape'
  BY <1>1, <1>2, <1>3 DEF StoreInv, StoreShape, Kept
<1> QED
  BY <1>4, <1>5, <1>6 DEF StoreInv

\* What is served or known changes, to files that are here.
LEMMA ServingMoves ==
    ASSUME StoreInv, job' \in Fetches, JobShape',
           UNCHANGED <<published, recorded, assigned, store, part, mount, under>>,
           serving' \cup known' \subseteq { f \in ModelFiles : store[f] # Nodes!Nothing }
    PROVE  StoreInv'
BY DEF StoreInv, StoreTypes, StoreShape, Kept

LEMMA StoreStep == StoreInv /\ [Next]_vars => StoreInv'
<1> SUFFICES ASSUME StoreInv, [Next]_vars PROVE StoreInv'
  OBVIOUS
<1>j. job \in Fetches /\ part \in [ModelFiles -> Chunks]
        /\ (job.at \notin {"idle", "next"} => job.want \in Promises /\ job.want.file \in ModelFiles)
  BY DEF StoreInv, StoreTypes, JobShape, Promises
<1>e. ASSUME NEW f \in ModelFiles
      PROVE  [part EXCEPT ![f] = Nodes!Nothing] \in [ModelFiles -> Chunks]
  BY <1>j, Contents
<1>i. Nodes!Idle \in Fetches /\ Nodes!Idle.at = "idle"
  BY Contents DEF Nodes!Idle, Fetches
<1> USE DEF Nodes!server, Nodes!disk
<1>1. CASE UNCHANGED nodeVars
  BY <1>1, OthersMove DEF nodeVars, StoreInv, StoreTypes
<1>2. ASSUME NEW f \in ModelFiles, Nodes!Record(f) PROVE StoreInv'
  BY <1>2, OthersMove DEF Nodes!Record, StoreInv, StoreTypes
<1>3. ASSUME NEW f \in ModelFiles, Nodes!Assign(f) \/ Nodes!Unassign(f) PROVE StoreInv'
  BY <1>3, OthersMove DEF Nodes!Assign, Nodes!Unassign, StoreInv, StoreTypes
<1>4. ASSUME NEW f \in ModelFiles, Nodes!MountChanges(f) PROVE StoreInv'
  <2>1. PICK c \in {Nodes!Nothing} \cup { Nodes!Whole(v) : v \in Versions }
                     \cup { [len |-> 1, of |-> {v}] : v \in Versions } :
              mount' = [mount EXCEPT ![f] = c]
    BY <1>4 DEF Nodes!MountChanges
  <2>2. \A v \in Versions : [len |-> 1, of |-> {v}] \in Chunks
    BY DEF Chunks
  <2>3. c \in Chunks
    BY <2>2, Contents
  <2> QED
    BY <1>4, <2>1, <2>3, OthersMove DEF Nodes!MountChanges, StoreInv, StoreTypes
<1>5. ASSUME NEW f \in ModelFiles, NEW v \in Versions, Nodes!CopyIn(f, v) PROVE StoreInv'
  BY <1>5, CopyInKeeps
<1>6. ASSUME NEW f \in ModelFiles, NEW v \in Versions \cup {"none"}, Nodes!Publish(f, v)
      PROVE  StoreInv'
  BY <1>6, OthersMove DEF Nodes!Publish, StoreInv, StoreTypes
<1>7. CASE Nodes!Report
  BY <1>7, StartKeepsStore DEF Nodes!Report
<1>8. CASE Nodes!ReportUnreachable
  BY <1>8, StartKeepsStore DEF Nodes!ReportUnreachable
<1>9. CASE Nodes!NextItem
  BY <1>9, NextItemKeeps
<1>10. CASE Nodes!JobDone
  BY <1>10, <1>i, <1>j, JobMoves DEF Nodes!JobDone, JobShape
<1>11. CASE Nodes!CopyChunk
  BY <1>11, GrowKeeps DEF Nodes!CopyChunk
<1>12. CASE Nodes!StreamChunk
  BY <1>12, GrowKeeps DEF Nodes!StreamChunk
<1>13. CASE Nodes!CopyEnds
  <2>1. /\ UNCHANGED <<published, recorded, assigned, store, mount, under, serving, known>>
        /\ job.at = "copy"
    BY <1>13 DEF Nodes!CopyEnds
  <2>2. CASE Nodes!Go("install") /\ UNCHANGED part
             /\ Nodes!RightLength(part[Nodes!f0]) /\ Nodes!RightDigest(part[Nodes!f0])
    <3>1. job' \in Fetches /\ job'.at = "install" /\ job'.want = job.want
      BY <2>2, GoesTo
    <3>2. Kept(job.want, part[job.want.file])
      BY <2>2 DEF Nodes!RightLength, Nodes!RightDigest, Nodes!f0, Kept
    <3>3. JobShape'
      BY <2>1, <2>2, <3>1, <3>2, <1>j DEF JobShape, Kept
    <3> QED
      BY <2>1, <2>2, <3>1, <3>3, <1>j, JobMoves
  <2>3. CASE Nodes!Go("connect") /\ part' = [part EXCEPT ![Nodes!f0] = Nodes!Nothing]
    <3>1. job' \in Fetches /\ job'.at = "connect" /\ job'.want = job.want
      BY <2>3, GoesTo
    <3>2. part' \in [ModelFiles -> Chunks]
      BY <2>1, <2>3, <1>j, <1>e DEF Nodes!f0
    <3>3. JobShape'
      BY <2>1, <3>1, <1>j DEF JobShape
    <3> QED
      BY <2>1, <3>1, <3>2, <3>3, JobMoves
  <2> QED
    BY <1>13, <2>2, <2>3 DEF Nodes!CopyEnds
<1>14. CASE Nodes!Connect
  <2>1. /\ UNCHANGED <<published, recorded, assigned, store, part, mount, under, serving, known>>
        /\ job.at = "connect"
    BY <1>14 DEF Nodes!Connect
  <2>2. published[job.want.file] \in Versions \cup {"none"}
    BY <2>1, <1>j DEF StoreInv, StoreTypes
  <2>3. \/ Nodes!Again \/ Nodes!Go("verify")
        \/ \E v \in Versions : job' = [job EXCEPT !.at = "stream", !.from = Nodes!Whole(v)]
    <3>1. CASE published[job.want.file] = "none"
      BY <1>14, <3>1 DEF Nodes!Connect, Nodes!f0
    <3>2. CASE published[job.want.file] # "none"
      BY <1>14, <2>2, <3>2 DEF Nodes!Connect, Nodes!f0
    <3> QED
      BY <3>1, <3>2
  <2>4. job' \in Fetches /\ job'.at \in {"connect", "next", "verify", "stream"}
          /\ job'.want = job.want
    <3>1. ASSUME NEW v \in Versions,
                 job' = [job EXCEPT !.at = "stream", !.from = Nodes!Whole(v)]
          PROVE  job' \in Fetches /\ job'.at = "stream" /\ job'.want = job.want
      <4>1. Nodes!Whole(v) \in Chunks
        BY Contents
      <4> QED
        BY <3>1, <4>1, <1>j DEF Fetches
    <3> QED
      BY <2>3, <3>1, TriesAgain, GoesTo
  <2>5. JobShape'
    BY <2>1, <2>4, <1>j DEF JobShape
  <2> QED
    BY <2>1, <2>4, <2>5, <1>j, JobMoves
<1>15. CASE Nodes!StreamEnds
  <2>1. job' \in Fetches /\ job'.at \in {"connect", "next", "verify"} /\ job'.want = job.want
    BY <1>15, TriesAgain, GoesTo DEF Nodes!StreamEnds
  <2>2. JobShape'
    BY <1>15, <2>1, <1>j DEF Nodes!StreamEnds, JobShape
  <2> QED
    BY <1>15, <2>1, <2>2, <1>j, JobMoves DEF Nodes!StreamEnds
<1>16. CASE Nodes!TransferFails
  <2>1. job' \in Fetches /\ job'.at \in {"connect", "next"} /\ job'.want = job.want
    BY <1>16, TriesAgain DEF Nodes!TransferFails
  <2>2. JobShape'
    BY <1>16, <2>1, <1>j DEF Nodes!TransferFails, JobShape
  <2> QED
    BY <1>16, <2>1, <2>2, <1>j, JobMoves DEF Nodes!TransferFails
<1>17. CASE Nodes!ItemFails
  <2>1. job' \in Fetches /\ job'.at = "next"
    BY <1>17, GoesTo DEF Nodes!ItemFails
  <2>2. JobShape'
    BY <2>1 DEF JobShape
  <2> QED
    BY <1>17, <2>1, <2>2, <1>j, JobMoves DEF Nodes!ItemFails
<1>18. CASE Nodes!Verify
  <2>1. /\ UNCHANGED <<published, recorded, assigned, store, mount, under, serving, known>>
        /\ job.at = "verify"
    BY <1>18 DEF Nodes!Verify
  <2>2. CASE Nodes!RightLength(part[Nodes!f0]) /\ Nodes!RightDigest(part[Nodes!f0])
    <3>1. job' \in Fetches /\ job'.at = "install" /\ job'.want = job.want /\ UNCHANGED part
      BY <1>18, <2>2, GoesTo DEF Nodes!Verify
    <3>2. Kept(job.want, part[job.want.file])
      BY <2>2 DEF Nodes!RightLength, Nodes!RightDigest, Nodes!f0, Kept
    <3>3. JobShape'
      BY <2>1, <3>1, <3>2, <1>j DEF JobShape, Kept
    <3> QED
      BY <2>1, <3>1, <3>3, <1>j, JobMoves
  <2>3. CASE ~(Nodes!RightLength(part[Nodes!f0]) /\ Nodes!RightDigest(part[Nodes!f0]))
    <3>1. job' \in Fetches /\ job'.at = "next"
      BY <1>18, <2>3, GoesTo DEF Nodes!Verify
    <3>2. part' \in [ModelFiles -> Chunks]
      BY <1>18, <2>1, <1>j, <1>e DEF Nodes!Verify, Nodes!f0
    <3>3. JobShape'
      BY <3>1 DEF JobShape
    <3> QED
      BY <2>1, <3>1, <3>2, <3>3, JobMoves
  <2> QED
    BY <2>2, <2>3
<1>19. CASE Nodes!Install
  BY <1>19, InstallKeeps
<1>20. CASE Nodes!Ingest \/ Nodes!IngestFails
  <2>1. job.at = "ingest" /\ store[job.want.file] # Nodes!Nothing
          /\ UNCHANGED <<published, recorded, assigned, store, part, mount, under>>
    BY <1>20 DEF Nodes!Ingest, Nodes!IngestFails, StoreInv, JobShape
  <2>2. job' \in Fetches /\ job'.at = "next"
    BY <1>20, GoesTo DEF Nodes!Ingest, Nodes!IngestFails
  <2>3. serving' \cup known' \subseteq serving \cup known \cup {job.want.file}
    BY <1>20 DEF Nodes!Ingest, Nodes!IngestFails, Nodes!f0
  <2>4. serving' \cup known' \subseteq { f \in ModelFiles : store[f] # Nodes!Nothing }
    BY <2>1, <2>3, <1>j DEF StoreInv, StoreShape
  <2>5. JobShape'
    BY <2>2 DEF JobShape
  <2> QED
    BY <2>1, <2>2, <2>4, <2>5, ServingMoves
<1>21. CASE Nodes!Stop
  <2>1. job' \in Fetches /\ job'.at = "idle" /\ known' = {}
    BY <1>21, <1>i DEF Nodes!Stop
  <2>2. JobShape'
    BY <2>1 DEF JobShape
  <2> QED
    BY <1>21, <2>1, <2>2, ServingMoves DEF Nodes!Stop, StoreInv, StoreShape
<1>22. CASE Nodes!Restart
  <2>1. serving' \cup known' \subseteq serving \cup known \cup Nodes!Adopted
    BY <1>22 DEF Nodes!Restart
  <2>2. serving' \cup known' \subseteq { f \in ModelFiles : store[f] # Nodes!Nothing }
    BY <2>1 DEF StoreInv, StoreShape, Nodes!Adopted
  <2>3. JobShape'
    BY <1>22 DEF Nodes!Restart, StoreInv, JobShape, Kept
  <2> QED
    BY <1>22, <2>2, <2>3, <1>j, ServingMoves DEF Nodes!Restart
<1> QED
  BY <1>1, <1>2, <1>3, <1>4, <1>5, <1>6, <1>7, <1>8, <1>9, <1>10, <1>11, <1>12, <1>13, <1>14,
     <1>15, <1>16, <1>17, <1>18, <1>19, <1>20, <1>21, <1>22, Steps
     DEF Nodes!Next, Nodes!JobStep

\* Whatever is resumed, copied from a share, replaced or cut off meanwhile, for
\* any number of files and contents: what a node fetched has the length, and if
\* there was one the digest, it was promised with, and only complete files are
\* served (nodestore/fetch.go: verify, install; ingest.go: adopt).
THEOREM OnlyWholeFilesServed == Spec => []OnlyWholeFiles
<1>1. Init => StoreInv
  <2> SUFFICES ASSUME Init PROVE StoreInv
    OBVIOUS
  <2>1. Nodes!Init
    BY DEF Init
  <2>2. Nodes!Idle \in Fetches /\ Nodes!Idle.at = "idle"
    BY Contents DEF Nodes!Idle, Fetches
  <2>3. StoreTypes
    BY <2>1, <2>2, Contents DEF Nodes!Init, StoreTypes
  <2>4. JobShape /\ StoreShape
    BY <2>1, <2>2 DEF Nodes!Init, JobShape, StoreShape
  <2> QED
    BY <2>3, <2>4 DEF StoreInv
<1>2. StoreInv => OnlyWholeFiles
  BY DEF StoreInv, StoreShape, Kept, OnlyWholeFiles, Nodes!OnlyWholeFiles
<1> QED
  BY <1>1, <1>2, StoreStep, PTL DEF Spec
=============================================================================
