-------------------------- MODULE OutgoingWebhooks --------------------------
(***************************************************************************)
(* The webhooks a company is called with: WebhookService, which registers  *)
(* one URL per type; createWebhooksLog, which a batch of the general queue *)
(* calls for an event and which appends one entry per registered webhook   *)
(* to the cached list webhook:queue while it writes the log rows; and      *)
(* processWebhooks, which takes entries off the list and hands them to the *)
(* sender.  The list is one cache value that everybody reads, extends or   *)
(* cuts, and writes back.  processWebhooks is public, and no timer of this *)
(* build calls it; here any process with the worker may call it, once,     *)
(* because isProcessingWebhooks is never reset.                            *)
(***************************************************************************)
EXTENDS Integers, FiniteSets

CONSTANTS
    Hooks,        \* rows of the webhook table, of one company
    StartType,    \* the types of those there are at the beginning, or "none"
    Types,        \* values of webhook_type in use
    Edits,        \* requests to WebhookService
    Batches,      \* batches that call createWebhooksLog, with one event each
    Event,        \* that event: what became of a payment, a withdrawal or an infraction
    Drainers,     \* calls of processWebhooks, in processes of their own
    BatchMax,     \* entries a call takes off the list (500)
    MaxListErrors,\* bound: get and set calls on the list that fail
    MaxDrainDeaths,
    NoHookId

\* What the constants are.
WebhookAssumption ==
    /\ IsFiniteSet(Hooks) /\ IsFiniteSet(Batches)
    /\ "none" \notin Types /\ NoHookId \notin Hooks
    /\ \A b \in Batches : Event[b].kind \in {"PAYMENT", "WITHDRAWAL", "INFRACTION"}
    /\ StartType \in [Hooks -> Types \cup {"none"}]
    /\ \A g, h \in Hooks : StartType[g] = StartType[h] /\ StartType[g] # "none" => g = h
    /\ BatchMax \in Nat \ {0} /\ MaxListErrors \in Nat /\ MaxDrainDeaths \in Nat

\* The webhooks an event calls: an approved withdrawal calls those of REFUND_OUT.
EventType(b) ==
    CASE Event[b].kind = "WITHDRAWAL" /\ Event[b].status # "FAILED" -> "REFUND_OUT"
      [] OTHER -> Event[b].kind

\* The build...Payload functions: the event's name and data, or nothing for a
\* status they have no event for.
Payload(b) ==
    LET told == CASE Event[b].kind = "PAYMENT" -> {"APPROVED", "REFUNDED"}
                  [] Event[b].kind = "WITHDRAWAL" -> {"APPROVED", "REFUNDED", "FAILED"}
                  [] Event[b].kind = "INFRACTION" ->
                       {"AWAITING_COMPANY_RESPONSE", "UNDER_REVIEW", "CANCELLED", "CLOSED"}
    IN  IF Event[b].status \in told THEN Event[b].status ELSE "nothing"

\* The call of a webhook for an event, with its payload.
Entry(h, b) == <<h, b, Payload(b)>>
Entries == {Entry(h, b) : h \in Hooks, b \in Batches}

VARIABLES
    hook,         \* type and deleted_at of each row
    edit,         \* requests to WebhookService
    batch,        \* calls of createWebhooksLog
    list,         \* webhook:queue
    logged,       \* webhook_log rows, with their deleted_at
    drainer,      \* calls of processWebhooks
    sent,         \* entries the sender has taken
    listErrors, drainDeaths,
    overwritten,  \* history: a list was written back that had changed meanwhile
    checkedTwice, \* history: two requests checked one type before either wrote
    reverted      \* history: an update wrote back the type it had read, changed meanwhile

registryVars == <<hook, edit, checkedTwice, reverted>>
listVars == <<list, sent, listErrors, drainDeaths, overwritten>>
webhookVars == <<hook, edit, batch, list, logged, drainer, sent, listErrors, drainDeaths,
                 overwritten, checkedTwice, reverted>>

NoHook == [type |-> "none", live |-> FALSE]
Live(t) == {h \in Hooks : hook[h].live /\ hook[h].type = t}
NewEdit == [at |-> "new", hook |-> NoHookId, type |-> "none", logs |-> {}]
EditPlaces == {"new", "create", "update", "keep", "hide", "delete", "done", "refused"}
DrainPlaces == {"new", "cut", "send", "again", "append", "done", "died"}

WebhookTypeOK ==
    /\ hook \in [Hooks -> [type : Types \cup {"none"}, live : BOOLEAN]]
    /\ edit \in [Edits -> [at : EditPlaces, hook : Hooks \cup {NoHookId},
                            type : Types \cup {"none"}, logs : SUBSET Entries]]
    /\ batch \in [Batches -> [at : {"new", "append", "write", "done"},
                              mine : SUBSET Entries, seen : SUBSET Entries, log : BOOLEAN]]
    /\ list \subseteq Entries /\ sent \subseteq Entries
    /\ logged \in [Entries -> {"none", "live", "deleted"}]
    /\ drainer \in [Drainers -> [at : DrainPlaces, seen : SUBSET Entries, taken : SUBSET Entries]]
    /\ listErrors \in 0..MaxListErrors /\ drainDeaths \in 0..MaxDrainDeaths
    /\ overwritten \in BOOLEAN /\ checkedTwice \in BOOLEAN /\ reverted \in BOOLEAN

Init ==
    /\ hook = [h \in Hooks |-> [type |-> StartType[h], live |-> StartType[h] # "none"]]
    /\ edit = [e \in Edits |-> NewEdit]
    /\ batch = [b \in Batches |-> [at |-> "new", mine |-> {}, seen |-> {}, log |-> FALSE]]
    /\ list = {} /\ sent = {}
    /\ logged = [x \in Entries |-> "none"]
    /\ drainer = [d \in Drainers |-> [at |-> "new", seen |-> {}, taken |-> {}]]
    /\ listErrors = 0 /\ drainDeaths = 0
    /\ overwritten = FALSE /\ checkedTwice = FALSE /\ reverted = FALSE

(***************************************************************************)
(* WebhookService.                                                         *)
(***************************************************************************)
EditTo(e, place) == edit' = [edit EXCEPT ![e].at = place]
Begin(e, place, h, t, logs) ==
    edit' = [edit EXCEPT ![e] = [at |-> place, hook |-> h, type |-> t, logs |-> logs]]

\* findByCompanyAndType: nothing found, though another request may be as far
\* with the same type; or the type is taken.
CheckType(e, place, h, t) ==
    \/ /\ Live(t) = {}
       /\ Begin(e, place, h, t, {})
       /\ checkedTwice' = (checkedTwice \/ \E f \in Edits :
              edit[f].at \in {"create", "update"} /\ edit[f].type = t)
    \/ /\ Live(t) # {}
       /\ EditTo(e, "refused")
       /\ UNCHANGED checkedTwice

CheckCreate(e) ==
    /\ edit[e].at = "new"
    /\ \E h \in Hooks, t \in Types :
         /\ hook[h] = NoHook
         /\ \A f \in Edits : edit[f].hook # h    \* a new row has a new id
         /\ CheckType(e, "create", h, t)
    /\ UNCHANGED <<hook, batch, logged, drainer, listVars, reverted>>

Create(e) ==
    /\ edit[e].at = "create"
    /\ hook' = [hook EXCEPT ![edit[e].hook] = [type |-> edit[e].type, live |-> TRUE]]
    /\ EditTo(e, "done")
    /\ UNCHANGED <<batch, logged, drainer, listVars, checkedTwice, reverted>>

\* A request that names the type the row has looks for no other webhook.
CheckUpdate(e) ==
    /\ edit[e].at = "new"
    /\ \E h \in Hooks, t \in Types :
         /\ hook[h].live
         /\ \/ hook[h].type # t /\ CheckType(e, "update", h, t)
            \/ hook[h].type = t /\ Begin(e, "keep", h, t, {}) /\ UNCHANGED checkedTwice
    /\ UNCHANGED <<hook, batch, logged, drainer, listVars, reverted>>

\* The row is found by its id, deleted meanwhile or not, and gets the type
\* in either case.
Update(e) ==
    LET h == edit[e].hook IN
    /\ edit[e].at \in {"update", "keep"}
    /\ hook' = [hook EXCEPT ![h].type = edit[e].type]
    /\ reverted' = (reverted \/ (edit[e].at = "keep" /\ hook[h].live /\ hook[h].type # edit[e].type))
    /\ EditTo(e, "done")
    /\ UNCHANGED <<batch, logged, drainer, listVars, checkedTwice>>

\* remove: the logs that were found, one by one (nothing reads them between),
\* and then the webhook.
FindLogs(e) ==
    /\ edit[e].at = "new"
    /\ \E h \in Hooks :
         /\ hook[h].live
         /\ Begin(e, "hide", h, hook[h].type, {x \in Entries : x[1] = h /\ logged[x] = "live"})
    /\ UNCHANGED <<hook, batch, logged, drainer, listVars, checkedTwice, reverted>>

DeleteLogs(e) ==
    /\ edit[e].at = "hide"
    /\ logged' = [x \in Entries |-> IF x \in edit[e].logs THEN "deleted" ELSE logged[x]]
    /\ EditTo(e, "delete")
    /\ UNCHANGED <<hook, batch, drainer, listVars, checkedTwice, reverted>>

Delete(e) ==
    /\ edit[e].at = "delete"
    /\ hook' = [hook EXCEPT ![edit[e].hook].live = FALSE]
    /\ EditTo(e, "done")
    /\ UNCHANGED <<batch, logged, drainer, listVars, checkedTwice, reverted>>

(***************************************************************************)
(* createWebhooksLog.                                                      *)
(***************************************************************************)

\* The batch of the queue has found the webhooks the event calls.
Select(b) ==
    LET mine == {Entry(h, b) : h \in Live(EventType(b))} IN
    /\ batch[b].at = "new"
    /\ batch' = [batch EXCEPT ![b].at = IF mine = {} THEN "done" ELSE "append", ![b].mine = mine]
    /\ UNCHANGED <<registryVars, logged, drainer, listVars>>

\* A get of the list; one that fails returns nothing.
ListGet(seen) ==
    \/ seen = list /\ UNCHANGED listErrors
    \/ /\ seen = {} /\ listErrors < MaxListErrors
       /\ listErrors' = listErrors + 1
\* A set of the list; one that fails leaves it, and nobody is told.
ListSet(value, seen) ==
    \/ /\ list' = value
       /\ overwritten' = (overwritten \/ list # seen)
       /\ UNCHANGED listErrors
    \/ /\ listErrors < MaxListErrors
       /\ listErrors' = listErrors + 1
       /\ UNCHANGED <<list, overwritten>>

ReadList(b) ==
    /\ batch[b].at = "append"
    /\ \E seen \in {list, {}} :
         /\ ListGet(seen)
         /\ batch' = [batch EXCEPT ![b].at = "write", ![b].seen = seen]
    /\ UNCHANGED <<registryVars, logged, drainer, list, sent, drainDeaths, overwritten>>

WriteList(b) ==
    /\ batch[b].at = "write"
    /\ ListSet(batch[b].seen \cup batch[b].mine, batch[b].seen)
    /\ batch' = [batch EXCEPT ![b].at = "done"]
    /\ UNCHANGED <<registryVars, logged, drainer, sent, drainDeaths>>

\* createMany, beside the two steps on the list.
WriteLogs(b) ==
    /\ batch[b].at # "new" /\ ~batch[b].log
    /\ batch' = [batch EXCEPT ![b].log = TRUE]
    /\ logged' = [x \in Entries |-> IF x \in batch[b].mine THEN "live" ELSE logged[x]]
    /\ UNCHANGED <<registryVars, drainer, listVars>>

(***************************************************************************)
(* processWebhooks.                                                        *)
(***************************************************************************)
Drain(d, place, seen, taken) ==
    drainer' = [drainer EXCEPT ![d] = [at |-> place, seen |-> seen, taken |-> taken]]

Take(d) ==
    /\ drainer[d].at = "new"
    /\ \E seen \in {list, {}} :
         /\ ListGet(seen)
         /\ \/ seen = {} /\ Drain(d, "done", {}, {})
            \/ \E taken \in SUBSET seen :
                 /\ seen # {}
                 /\ Cardinality(taken) = IF Cardinality(seen) < BatchMax THEN Cardinality(seen)
                                         ELSE BatchMax
                 /\ Drain(d, "cut", seen, taken)
    /\ UNCHANGED <<registryVars, batch, logged, list, sent, drainDeaths, overwritten>>

\* What is taken parses: the services wrote it with JSON.stringify, and what does
\* not would be appended again.
Cut(d) ==
    /\ drainer[d].at = "cut"
    /\ ListSet(drainer[d].seen \ drainer[d].taken, drainer[d].seen)
    /\ Drain(d, "send", {}, drainer[d].taken)
    /\ UNCHANGED <<registryVars, batch, logged, sent, drainDeaths>>

SendAll(d) ==
    /\ drainer[d].at = "send"
    /\ sent' = sent \cup drainer[d].taken
    /\ Drain(d, "done", {}, {})
    /\ UNCHANGED <<registryVars, batch, logged, list, listErrors, drainDeaths, overwritten>>

\* The sender throws and what was taken is forgotten.
SendForgets(d) ==
    /\ drainer[d].at = "send"
    /\ Drain(d, "done", {}, {})
    /\ UNCHANGED <<registryVars, batch, logged, list, sent, listErrors, drainDeaths, overwritten>>

\* The sender throws after some of its batches went out: all come back.
SendThrows(d) ==
    /\ drainer[d].at = "send"
    /\ \E out \in SUBSET drainer[d].taken :
         out # drainer[d].taken /\ sent' = sent \cup out
    /\ Drain(d, "again", {}, drainer[d].taken)
    /\ UNCHANGED <<registryVars, batch, logged, list, listErrors, drainDeaths, overwritten>>

ReadAgain(d) ==
    /\ drainer[d].at = "again"
    /\ \E seen \in {list, {}} :
         /\ ListGet(seen)
         /\ Drain(d, "append", seen, drainer[d].taken)
    /\ UNCHANGED <<registryVars, batch, logged, list, sent, drainDeaths, overwritten>>

PutBack(d) ==
    /\ drainer[d].at = "append"
    /\ ListSet(drainer[d].seen \cup drainer[d].taken, drainer[d].seen)
    /\ Drain(d, "done", {}, {})
    /\ UNCHANGED <<registryVars, batch, logged, sent, drainDeaths>>

\* What was taken is also under batchKey, which nothing reads.
DrainDies(d) ==
    /\ drainer[d].at \in {"cut", "send", "again", "append"}
    /\ drainDeaths < MaxDrainDeaths
    /\ drainDeaths' = drainDeaths + 1
    /\ Drain(d, "died", {}, {})
    /\ UNCHANGED <<registryVars, batch, logged, list, sent, listErrors, overwritten>>

WebhookNext ==
    \/ \E e \in Edits : CheckCreate(e) \/ Create(e) \/ CheckUpdate(e) \/ Update(e)
                            \/ FindLogs(e) \/ DeleteLogs(e) \/ Delete(e)
    \/ \E b \in Batches : Select(b) \/ ReadList(b) \/ WriteList(b) \/ WriteLogs(b)
    \/ \E d \in Drainers : Take(d) \/ Cut(d) \/ SendAll(d) \/ SendThrows(d) \/ ReadAgain(d)
                               \/ PutBack(d) \/ DrainDies(d)

Spec == Init /\ [][WebhookNext]_webhookVars

(***************************************************************************)
(* Properties.                                                             *)
(***************************************************************************)

InHand == UNION {drainer[d].taken : d \in Drainers}
Queued == UNION {batch[b].mine : b \in {c \in Batches : batch[c].at = "done"}}

\* A webhook whose append has ended is on the list, in the hands of a sender,
\* or sent, through partial failures that put entries back; it is lost only
\* when somebody wrote back a list that had changed meanwhile, a call of the
\* cache failed, or a process died with the entries it had taken.
LostOnlyByOverwriting ==
    (~overwritten /\ listErrors = 0 /\ drainDeaths = 0) => Queued \subseteq list \cup InHand \cup sent

\* A company has one webhook of a type, so an event calls it once, as long as
\* no two requests checked the type before either wrote it, and none that
\* looked for nothing wrote back a type the webhook had lost meanwhile.
OneHookPerType ==
    ~checkedTwice /\ ~reverted => \A t \in Types : Cardinality(Live(t)) <= 1

(***************************************************************************)
(* The inductive invariant behind them.                                    *)
(***************************************************************************)

\* A request that will write names a row, and a type that no live row has and
\* no other such request, unless two checked one type or one came back.
EditsNameTheirRows ==
    \A e \in Edits : edit[e].at \in {"create", "update", "keep", "hide", "delete"} =>
        edit[e].hook \in Hooks /\ edit[e].type \in Types \cup {"none"}
TypesApart ==
    ~checkedTwice /\ ~reverted =>
        /\ \A g, h \in Hooks : hook[g].live /\ hook[h].live /\ hook[g].type = hook[h].type => g = h
        /\ \A e \in Edits : edit[e].at \in {"create", "update"} =>
             /\ Live(edit[e].type) = {}
             /\ \A f \in Edits \ {e} :
                  edit[f].at \in {"create", "update"} => edit[f].type # edit[e].type

\* A sender that has not begun has taken nothing.
NothingTakenYet == \A d \in Drainers : drainer[d].at = "new" => drainer[d].taken = {}

WebhookIInv ==
    /\ WebhookTypeOK /\ EditsNameTheirRows /\ TypesApart /\ NothingTakenYet
    /\ LostOnlyByOverwriting
=============================================================================
