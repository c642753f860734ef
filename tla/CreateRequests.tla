--------------------------- MODULE CreateRequests ---------------------------
(***************************************************************************)
(* POST /notifications and POST /notifications/batch from the checks of    *)
(* the input to the answer, next to the creation and deletion of the       *)
(* templates they name.                                                    *)
(*                                                                         *)
(*   for each item: recipient -> SELECT template -> render -> length       *)
(*   Create:      SELECT by idempotency key -> INSERT                      *)
(*   CreateBatch: BEGIN -> one INSERT per item -> COMMIT                   *)
(*                                                                         *)
(* A step is one statement with what follows it in memory.  Texts are      *)
(* their lengths.  An INSERT whose key is in a row another transaction has *)
(* not committed waits for that transaction, and Postgres aborts one of    *)
(* those that wait for each other.                                         *)
(***************************************************************************)
EXTENDS Naturals, Sequences, FiniteSets, SequencesExt, FiniteSetsExt

CONSTANTS
    Requests,     (* the HTTP requests that may be made, one call each     *)
    Calls,        (* what they may ask for                                 *)
    TemplateIds,  (* the templates that may be created                     *)
    TemplateOf,   (* the name, channel and body of each of them: a body is *)
                  (* the length of its text and of its placeholders        *)
    Keys,         (* idempotency keys                                      *)
    Null          (* no key, no template, no answer yet                    *)

Channels == {"sms", "email", "push"}

(* The forms a recipient can have: a phone number or an e-mail address.    *)
Recipients == {"e164", "email"}

(* What a request says of one notification: the length of its content, or  *)
(* a template with the lengths of the values of variables.                 *)
IsItem(i) ==
    /\ DOMAIN i = {"channel", "recipient", "content", "template", "variables", "key"}
    /\ i.recipient \in Recipients
    /\ i.content \in Nat
    /\ i.template \in TemplateIds \cup {Null}
    /\ \A v \in DOMAIN i.variables : i.variables[v] \in Nat
    /\ i.key \in Keys \cup {Null}

Replies ==
    {"created", "existing", "invalid", "no template", "no content", "server error", "nobody there"}

(* The binding of a single request admits the three channels only; that of *)
(* a batch does not look into its items.                                   *)
ASSUME RequestAssumption ==
    /\ IsFiniteSet(Requests)
    /\ Null \notin TemplateIds \cup Keys \cup Replies
    /\ \A t \in TemplateIds :
          LET body == TemplateOf[t].body
          IN  /\ TemplateOf[t].channel \in Channels
              /\ body.text \in Nat
              /\ IsFiniteSet(DOMAIN body.holes)
              /\ \A h \in DOMAIN body.holes : body.holes[h] \in Nat
    /\ \A c \in Calls :
          /\ c.batch \in BOOLEAN
          /\ c.items \in Seq(ToSet(c.items)) \ {<<>>}
          /\ \A n \in DOMAIN c.items : IsItem(c.items[n])
          /\ ~c.batch => Len(c.items) = 1 /\ c.items[1].channel \in Channels

(* The length of a body after its placeholders have been replaced: one     *)
(* without a value stays as it is.                                         *)
RenderTemplate(body, variables) ==
    body.text + MapThenSumSet(
        LAMBDA h : IF h \in DOMAIN variables THEN variables[h] ELSE body.holes[h],
        DOMAIN body.holes)

VARIABLES
    templates,  (* the ids with a row in templates                         *)
    unused,     (* the ids not given to a template yet                     *)
    rows,       (* the committed rows of notifications                     *)
    rpc,        (* what each request does next                             *)
    call,       (* what it asks for                                        *)
    ready,      (* the rows it made of the items checked so far            *)
    inserted,   (* how many of them it has inserted                        *)
    reply       (* its answer                                              *)

templateVars == <<templates, unused>>
requestVars == <<rpc, call, ready, inserted, reply>>
createVars == <<templateVars, rows, requestVars>>

RequestTypeOK ==
    /\ templates \in SUBSET TemplateIds
    /\ unused \in SUBSET TemplateIds
    /\ rpc \in [Requests -> {"idle", "check", "lookup", "insert", "commit", "done"}]
    /\ \A r \in Requests :
          /\ rpc[r] # "idle" => call[r] \in Calls /\ Len(ready[r]) <= Len(call[r].items)
          /\ inserted[r] \in 0 .. Len(ready[r])
    /\ reply \in [Requests -> Replies \cup {Null}]

Init ==
    /\ templates = {}
    /\ unused = TemplateIds
    /\ rows = {}
    /\ rpc = [r \in Requests |-> "idle"]
    /\ call = [r \in Requests |-> Null]
    /\ ready = [r \in Requests |-> <<>>]
    /\ inserted = [r \in Requests |-> 0]
    /\ reply = [r \in Requests |-> Null]

(***************************************************************************)
(* Templates.                                                              *)
(***************************************************************************)

SameTemplate(s, t) ==
    TemplateOf[s].name = TemplateOf[t].name /\ TemplateOf[s].channel = TemplateOf[t].channel

(* The INSERT of a template whose name the channel has already is refused. *)
CreateTemplate(t) ==
    /\ t \in unused
    /\ unused' = unused \ {t}
    /\ templates' = IF \E s \in templates : SameTemplate(s, t) THEN templates ELSE templates \cup {t}
    /\ UNCHANGED <<rows, requestVars>>

DeleteTemplate(t) ==
    /\ t \in templates
    /\ templates' = templates \ {t}
    /\ UNCHANGED <<unused, rows, requestVars>>

(***************************************************************************)
(* Validation.                                                             *)
(***************************************************************************)

(* An unknown channel has no format to check.                              *)
ValidRecipient(channel, recipient) ==
    CASE channel \in {"sms", "push"} -> recipient = "e164"
      [] channel = "email" -> recipient = "email"
      [] OTHER -> TRUE

contentLimit(channel) ==
    CASE channel = "sms" -> 160
      [] channel = "push" -> 256
      [] OTHER -> 10000

Answer(r, a) ==
    /\ rpc' = [rpc EXCEPT ![r] = "done"]
    /\ reply' = [reply EXCEPT ![r] = a]

(* The answer ends the call, with its transaction and what it has in       *)
(* memory.                                                                 *)
Finish(r, a) ==
    /\ Answer(r, a)
    /\ ready' = [ready EXCEPT ![r] = <<>>]
    /\ inserted' = [inserted EXCEPT ![r] = 0]

Goto(r, pc) == rpc' = [rpc EXCEPT ![r] = pc]

Receive(r, c) ==
    /\ rpc[r] = "idle"
    /\ call' = [call EXCEPT ![r] = c]
    /\ Goto(r, "check")
    /\ UNCHANGED <<templateVars, rows, ready, inserted, reply>>

NextItem(r) == call[r].items[Len(ready[r]) + 1]

Content(item) ==
    IF item.template = Null THEN item.content
    ELSE RenderTemplate(TemplateOf[item.template].body, item.variables)

RowOf(r, item) ==
    [request |-> r, n |-> Len(ready[r]) + 1, channel |-> item.channel,
     recipient |-> item.recipient, content |-> Content(item), key |-> item.key]

(* Faulty: the length is checked before the template is rendered.          *)
TooLongUnrendered(item) == item.content > contentLimit(item.channel)

TooLong(item) == Content(item) > contentLimit(item.channel)

(* The first thing wrong with an item, or Null.                            *)
Complaint(item) ==
    CASE ~ValidRecipient(item.channel, item.recipient) -> "invalid"
      [] item.template \notin templates \cup {Null} -> "no template"
      [] Content(item) = 0 -> "no content"
      [] TooLong(item) -> "invalid"
      [] OTHER -> Null

AfterChecks(r) == IF call[r].batch \/ NextItem(r).key = Null THEN "insert" ELSE "lookup"

(* One item of the loop: the request ends at the first complaint.          *)
CheckItem(r) ==
    LET item == NextItem(r)
    IN
    /\ rpc[r] = "check"
    /\ IF Complaint(item) # Null
       THEN Finish(r, Complaint(item))
       ELSE /\ ready' = [ready EXCEPT ![r] = Append(@, RowOf(r, item))]
            /\ Goto(r, IF Len(ready'[r]) = Len(call[r].items) THEN AfterChecks(r) ELSE "check")
            /\ UNCHANGED <<inserted, reply>>
    /\ UNCHANGED <<templateVars, rows, call>>

(***************************************************************************)
(* Keys and transactions.                                                  *)
(***************************************************************************)

(* The rows a request has inserted and not committed.                      *)
Pending(r) == ToSet(SubSeq(ready[r], 1, inserted[r]))

HasKey(S, k) == k # Null /\ \E row \in S : row.key = k

NextRow(r) == ready[r][inserted[r] + 1]

(* Faulty: the index on the key is not unique.                             *)
RefusedByEnum(r) == NextRow(r).channel \notin Channels

(* The row fits no enum or its key is taken: the statement fails.          *)
Refused(r) ==
    \/ NextRow(r).channel \notin Channels
    \/ HasKey(rows \cup Pending(r), NextRow(r).key)

(* The INSERT of r waits for the transaction of o.                         *)
WaitsFor(r, o) ==
    /\ rpc[r] = "insert"
    /\ ~Refused(r)
    /\ r # o
    /\ HasKey(Pending(o), NextRow(r).key)

Waits(r) == \E o \in Requests : WaitsFor(r, o)

(* r is one of some requests that wait for each other in a circle.         *)
Deadlocked(r) ==
    \E S \in SUBSET {a \in Requests : Waits(a)} :
        /\ r \in S
        /\ \A a \in S : (\E b \in S : WaitsFor(a, b)) /\ (\E b \in S : WaitsFor(b, a))

Lookup(r) ==
    /\ rpc[r] = "lookup"
    /\ IF HasKey(rows, NextRow(r).key)
       THEN Finish(r, "existing")
       ELSE Goto(r, "insert") /\ UNCHANGED <<ready, inserted, reply>>
    /\ UNCHANGED <<templateVars, rows, call>>

(* What the client of a statement that stored its rows may get: it may be  *)
(* gone, and the answer of Postgres may be lost, which is answered as an   *)
(* error of the server.                                                    *)
AnswersOfStored == {"created", "nobody there", "server error"}

Store(r, S) ==
    /\ rows' = rows \cup S
    /\ \E a \in AnswersOfStored : Finish(r, a)

(* Faulty: CreateBatch inserts without a transaction.                      *)
InsertAutocommit(r) ==
    /\ rpc[r] = "insert"
    /\ ~Refused(r)
    /\ ~Waits(r)
    /\ rows' = rows \cup {NextRow(r)}
    /\ IF inserted[r] + 1 = Len(ready[r])
       THEN Finish(r, "created")
       ELSE inserted' = [inserted EXCEPT ![r] = @ + 1] /\ UNCHANGED <<rpc, ready, reply>>
    /\ UNCHANGED <<templateVars, call>>

(* The INSERT of Create commits at once, those of a batch do not.          *)
Insert(r) ==
    /\ rpc[r] = "insert"
    /\ ~Refused(r)
    /\ ~Waits(r)
    /\ IF call[r].batch
       THEN /\ inserted' = [inserted EXCEPT ![r] = @ + 1]
            /\ Goto(r, IF inserted'[r] = Len(ready[r]) THEN "commit" ELSE "insert")
            /\ UNCHANGED <<rows, ready, reply>>
       ELSE Store(r, {NextRow(r)})
    /\ UNCHANGED <<templateVars, call>>

(* Faulty: the error is answered and the transaction left open.            *)
RollbackForgotten(r, a) ==
    /\ Answer(r, a)
    /\ UNCHANGED <<templateVars, rows, call, ready, inserted>>

(* Faulty: the rows are dropped and the transaction's count is not.        *)
RollbackPartly(r, a) ==
    /\ Answer(r, a)
    /\ ready' = [ready EXCEPT ![r] = <<>>]
    /\ UNCHANGED <<templateVars, rows, call, inserted>>

(* The deferred Rollback; handlers answer errors they do not know with 500.*)
Rollback(r, a) == Finish(r, a) /\ UNCHANGED <<templateVars, rows, call>>

InsertFails(r) ==
    /\ rpc[r] = "insert"
    /\ Refused(r) \/ Deadlocked(r)
    /\ Rollback(r, "server error")

Commit(r) ==
    /\ rpc[r] = "commit"
    /\ Store(r, ToSet(ready[r]))
    /\ UNCHANGED <<templateVars, call>>

(* A statement fails and changes nothing: SELECT of a template or a key,   *)
(* BEGIN, INSERT or COMMIT.                                                *)
DatabaseFails(r) ==
    /\ \/ rpc[r] \in {"lookup", "insert", "commit"}
       \/ /\ rpc[r] = "check" /\ NextItem(r).template # Null
          /\ ValidRecipient(NextItem(r).channel, NextItem(r).recipient)
    /\ Rollback(r, "server error")

(* The client goes away: the context of its request is cancelled and the   *)
(* next statement, or the one that waits, fails.                           *)
Abandon(r) ==
    /\ rpc[r] \notin {"idle", "done"}
    /\ Rollback(r, "nobody there")

RequestStep(r) == CheckItem(r) \/ Lookup(r) \/ Insert(r) \/ InsertFails(r) \/ Commit(r)

Next ==
    \/ \E r \in Requests : RequestStep(r) \/ DatabaseFails(r) \/ Abandon(r)
    \/ \E r \in Requests, c \in Calls : Receive(r, c)
    \/ \E t \in TemplateIds : CreateTemplate(t) \/ DeleteTemplate(t)

Spec == Init /\ [][Next]_createVars

(* As long as some request can go on, one does, and Postgres looks for     *)
(* deadlocks.  A call is made of finitely many steps: none needs fairness  *)
(* of its own.                                                             *)
LiveSpec == Spec /\ WF_createVars(\E r \in Requests : RequestStep(r))

(***************************************************************************)
(* What a stored row and an answer are worth.                              *)
(***************************************************************************)

(* Whatever templates are created and deleted meanwhile, no row is stored  *)
(* that a worker could not send: the enums, the format of the recipient    *)
(* and the limit of the channel hold for the text after rendering.         *)
StoredIsValid ==
    \A row \in rows :
        /\ row.channel \in Channels
        /\ ValidRecipient(row.channel, row.recipient)
        /\ row.content \in 1 .. contentLimit(row.channel)

RowsOf(r) == {row \in rows : row.request = r}

(* A request that was answered with "created" has all its rows stored, one *)
(* whose client left or that the server failed either all or none, and any *)
(* other none: a batch is never stored in part, whatever statement fails   *)
(* or loses its answer.                                                    *)
AllOrNothing ==
    \A r \in Requests :
        /\ reply[r] = "created" => Cardinality(RowsOf(r)) = Len(call[r].items)
        /\ reply[r] \in AnswersOfStored \ {"created"} =>
              Cardinality(RowsOf(r)) \in {0, Len(call[r].items)}
        /\ reply[r] \notin AnswersOfStored => RowsOf(r) = {}

(* A key is never in two rows, committed or about to be.                   *)
KeyHeldOnce ==
    LET all == rows \cup UNION {Pending(r) : r \in Requests}
    IN  \A a, b \in all : a.key = b.key /\ a.key # Null => a = b

(* A request that is under way has a next step, except when it waits and   *)
(* Postgres has no reason to abort it.                                     *)
CanGoOn(r) ==
    /\ rpc[r] \notin {"idle", "done"}
    /\ Waits(r) => Deadlocked(r)

(* Among the requests that one waits for, directly or through others, and  *)
(* itself, there is always one that can go on: none waits for a request    *)
(* that is over, and a circle is found as soon as it closes.               *)
WaitsEnd ==
    \A r \in Requests, S \in SUBSET Requests :
        /\ r \in S /\ rpc[r] \notin {"idle", "done"}
        /\ \A a \in S, b \in Requests : WaitsFor(a, b) => b \in S
        => \E o \in S : CanGoOn(o)

(* No request waits for ever, however the keys of batches overlap.         *)
EveryRequestIsAnswered ==
    \A r \in Requests : rpc[r] # "idle" ~> reply[r] # Null

=============================================================================
