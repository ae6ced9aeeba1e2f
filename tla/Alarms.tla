------------------------------- MODULE Alarms -------------------------------
(***************************************************************************)
(* What a tripped canary sets off (internal/twire): the connection is      *)
(* recorded, and at most one mail per canary and source goes out in a      *)
(* cooldown.  A trap is such a pair of a canary and a source address.      *)
(* Time is counted in moments, and ages beyond the cooldown are alike.     *)
(***************************************************************************)
EXTENDS Naturals

CONSTANTS
    Traps,          \* pairs of a canary and a source
    Cooldown,       \* service.go: alertCooldown, in moments
    Secrets,        \* SMTP passwords
    MaxTrouble      \* bound: changes of the settings, failures, restarts

VARIABLES
    lastAlert,  \* the age of the stamp Service.lastAlert has of a trap, or Never
    saved,      \* twire_alert_config: [enabled, password], or Default
    editing,    \* a SetAlertConfig between its read and its write
    mails,      \* mails on their way (the goroutines of sendAlert)
    recorded,   \* history: traps with a hit in this moment
    attempted,  \* history: moments since a mail was last begun, in this process
    trouble     \* what happened so far of what MaxTrouble bounds

vars == <<lastAlert, saved, editing, mails, recorded, attempted, trouble>>

Never == Cooldown + 1
Ages == 0 .. Never
Default == [enabled |-> FALSE, password |-> "none"]     \* from the environment
Configs == [enabled : BOOLEAN, password : Secrets \cup {"none"}]
NotEditing == [to |-> "none"]

TypeOK ==
    /\ lastAlert \in [Traps -> Ages] /\ attempted \in [Traps -> Ages]
    /\ saved \in Configs
    /\ editing \in {NotEditing} \cup [to : {"save"}, config : Configs]
    /\ mails \subseteq Traps /\ recorded \subseteq Traps
    /\ trouble \in 0 .. MaxTrouble

Init ==
    /\ lastAlert = [x \in Traps |-> Never] /\ attempted = lastAlert
    /\ saved = Default /\ editing = NotEditing
    /\ mails = {} /\ recorded = {}
    /\ trouble = 0

Trouble == trouble < MaxTrouble /\ trouble' = trouble + 1

-----------------------------------------------------------------------------
(* Hits                                                                    *)

Older(age) == IF age >= Cooldown THEN age ELSE age + 1

\* A moment passes.
Tick ==
    /\ lastAlert' = [x \in Traps |-> Older(lastAlert[x])]
    /\ attempted' = [x \in Traps |-> Older(attempted[x])]
    /\ recorded' = {}
    /\ UNCHANGED <<saved, editing, mails, trouble>>

ShouldAlert(x) == lastAlert[x] >= Cooldown

\* Mutant: a hit within the cooldown begins the cooldown anew.
Stamped_EveryHit(x) == [lastAlert EXCEPT ![x] = 0]

\* shouldAlert: the mail is stamped before it is sent, and stamps that are
\* past the cooldown are swept.
Stamped(x) ==
    IF ShouldAlert(x)
    THEN [y \in Traps |-> IF y = x THEN 0
                          ELSE IF lastAlert[y] >= Cooldown THEN Never ELSE lastAlert[y]]
    ELSE lastAlert

\* A connection to a canary: greeted, read from, recorded, and mailed about in
\* a goroutine of its own.  A failed insert is logged and the mail sent.
RecordHit(x) ==
    /\ recorded' = recorded \cup {x}
    /\ lastAlert' = Stamped(x)
    /\ IF ShouldAlert(x)
       THEN mails' = mails \cup {x} /\ attempted' = [attempted EXCEPT ![x] = 0]
       ELSE UNCHANGED <<mails, attempted>>
    /\ UNCHANGED <<saved, editing, trouble>>

\* sendAlert: not deliverable, sent, or failed - there is no second attempt.
SendAlert(x) ==
    /\ x \in mails
    /\ mails' = mails \ {x}
    /\ UNCHANGED <<lastAlert, saved, editing, recorded, attempted, trouble>>

-----------------------------------------------------------------------------
(* The settings                                                            *)

\* SetAlertConfig: without a new password the stored one is read first ...
ReadAlertConfig(given, supplied) ==
    /\ editing = NotEditing /\ Trouble
    /\ editing' = [to |-> "save",
                   config |-> IF supplied THEN given
                              ELSE [given EXCEPT !.password = saved.password]]
    /\ UNCHANGED <<lastAlert, saved, mails, recorded, attempted>>

\* ... and the whole row is written.
SetAlertConfig ==
    /\ editing # NotEditing
    /\ saved' = editing.config /\ editing' = NotEditing
    /\ UNCHANGED <<lastAlert, mails, recorded, attempted, trouble>>

\* The process and its stamps are gone.
Restart ==
    /\ Trouble
    /\ lastAlert' = [x \in Traps |-> Never] /\ attempted' = lastAlert'
    /\ editing' = NotEditing /\ mails' = {} /\ recorded' = {}
    /\ UNCHANGED saved

-----------------------------------------------------------------------------
Next ==
    \/ Tick
    \/ \E x \in Traps : RecordHit(x) \/ SendAlert(x)
    \/ \E given \in Configs, supplied \in BOOLEAN : ReadAlertConfig(given, supplied)
    \/ SetAlertConfig \/ Restart

Spec == Init /\ [][Next]_vars

-----------------------------------------------------------------------------
(* Properties                                                              *)

\* However long a canary is hammered, from however many addresses, a mail
\* about the hits of a pair was begun less than a cooldown ago, and the next
\* one waits until that cooldown is over: the sweep of old stamps forgets none
\* that still counts (service.go: shouldAlert).
OneMailPerCooldown ==
    /\ \A x \in recorded : attempted[x] < Cooldown
    /\ \A x \in Traps : lastAlert[x] < Cooldown => attempted[x] = lastAlert[x]

=============================================================================
