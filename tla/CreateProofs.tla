---------------------------- MODULE CreateProofs -----------------------------
(***************************************************************************)
(* What POST /notifications and /notifications/batch store and answer, for *)
(* any number of requests, templates and keys and any size of a batch: the *)
(* theorems about CreateRequests.  The invariant says of each request what *)
(* it has in memory and in its transaction, by the step it has reached.    *)
(***************************************************************************)
EXTENDS CreateRequests, FiniteSetTheorems, WellFoundedInduction, TLAPS

ItemChannels == UNION {{c.items[n].channel : n \in DOMAIN c.items} : c \in Calls}

Row == [request : Requests, n : Nat \ {0}, channel : ItemChannels, recipient : Recipients,
        content : Nat, key : Keys \cup {Null}]

Running == {"check", "lookup", "insert", "commit"}

Types ==
    /\ templates \in SUBSET TemplateIds
    /\ unused \in SUBSET TemplateIds
    /\ rpc \in [Requests -> {"idle", "done"} \cup Running]
    /\ call \in [Requests -> Calls \cup {Null}]
    /\ ready \in [Requests -> Seq(Row)]
    /\ inserted \in [Requests -> Nat]
    /\ reply \in [Requests -> Replies \cup {Null}]

(* How far a request has come: what it has in memory and has inserted.     *)
Progress(r) ==
    /\ rpc[r] # "idle" => call[r] \in Calls
    /\ rpc[r] \notin Running => ready[r] = <<>> /\ inserted[r] = 0
    /\ rpc[r] \in {"check", "lookup"} => inserted[r] = 0
    /\ rpc[r] = "check" => Len(ready[r]) < Len(call[r].items)
    /\ rpc[r] \in {"lookup", "insert", "commit"} => Len(ready[r]) = Len(call[r].items)
    /\ rpc[r] = "lookup" => ~ call[r].batch
    /\ rpc[r] = "insert" => inserted[r] < Len(ready[r])
    /\ rpc[r] = "commit" => call[r].batch /\ inserted[r] = Len(ready[r])
    /\ reply[r] = Null <=> rpc[r] # "done"

(* What the checks made sure of for the rows in memory; the enum is only   *)
(* checked by the INSERT.                                                  *)
Sendable(row) ==
    /\ ValidRecipient(row.channel, row.recipient)
    /\ row.content \in 1 .. contentLimit(row.channel)

Checked(r) ==
    \A n \in DOMAIN ready[r] :
        /\ ready[r][n].request = r /\ ready[r][n].n = n
        /\ Sendable(ready[r][n])
        /\ n <= inserted[r] => ready[r][n].channel \in Channels

RequestInv == Types /\ \A r \in Requests : Progress(r) /\ Checked(r)

(***************************************************************************)
(* Sums over finite sets.  MapThenSumSet is a recursive function: that it  *)
(* exists, and what it adds up to, is shown by taking a smallest set for   *)
(* which it would fail.                                                    *)
(***************************************************************************)

Below == {p \in Nat \X Nat : p[1] < p[2]}

(* Among finite sets, one is smallest.                                     *)
LEMMA SmallestSet ==
    ASSUME NEW U, U # {}, \A S \in U : IsFiniteSet(S)
    PROVE  \E S \in U : \A T \in U : ~(Cardinality(T) < Cardinality(S))
<1> DEFINE N == {Cardinality(S) : S \in U}
<1>1. \A S \in U : Cardinality(S) \in Nat
  BY FS_CardinalityType
<1>2. N \subseteq Nat /\ N # {}
  BY <1>1
<1>3. IsWellFoundedOn(Below, Nat)
  BY NatLessThanWellFounded DEF OpToRel, Below
<1> HIDE DEF N
<1>4. PICK n \in N : \A m \in N : <<m, n>> \notin Below
  BY <1>2, <1>3, WFMin
<1>5. \A m \in N : ~(m < n)
  BY <1>2, <1>4 DEF Below
<1> QED
  BY <1>5 DEF N

(* The element a sum begins with.                                          *)
First(s) == CHOOSE x \in s : TRUE

(* f adds up the values of h over the subsets of S, element by element.    *)
Sums(f, h, S) ==
    f = [s \in SUBSET S |->
            IF s = {} THEN 0 ELSE h[First(s)] + f[s \ {First(s)}]]

LEMMA SmallerWithout ==
    ASSUME NEW s, IsFiniteSet(s), s # {}, NEW x, x = First(s)
    PROVE  x \in s /\ IsFiniteSet(s \ {x}) /\ Cardinality(s \ {x}) < Cardinality(s)
<1>1. x \in s
  BY DEF First
<1>2. /\ IsFiniteSet(s \ {x}) /\ Cardinality(s) \in Nat
      /\ Cardinality(s \ {x}) = Cardinality(s) - 1
  BY <1>1, FS_RemoveElement, FS_CardinalityType
<1> QED
  BY <1>1, <1>2

LEMMA SumOf ==
    ASSUME NEW f, NEW h, NEW S, Sums(f, h, S), NEW s \in SUBSET S
    PROVE  /\ s = {} => f[s] = 0
           /\ s # {} => f[s] = h[First(s)] + f[s \ {First(s)}]
BY DEF Sums

LEMMA SumsAgree ==
    ASSUME NEW f, NEW g, NEW h, NEW S, NEW T, Sums(f, h, S), Sums(g, h, T),
           NEW s, s \subseteq S, s \subseteq T, IsFiniteSet(s)
    PROVE  f[s] = g[s]
<1> DEFINE U == {t \in SUBSET s : f[t] # g[t]}
<1> SUFFICES ASSUME U # {}
             PROVE  FALSE
  OBVIOUS
<1>1. \A t \in U : IsFiniteSet(t)
  BY FS_Subset
<1>2. PICK t \in U : \A u \in U : ~(Cardinality(u) < Cardinality(t))
  <2> HIDE DEF U
  <2> QED
    BY <1>1, SmallestSet
<1>3. t \in SUBSET S /\ t \in SUBSET T /\ f[t] # g[t]
  OBVIOUS
<1>4. t # {}
  BY <1>3, SumOf
<1>5. PICK x : x = First(t)
  OBVIOUS
<1>6. x \in t /\ Cardinality(t \ {x}) < Cardinality(t)
  BY <1>1, <1>4, <1>5, SmallerWithout
<1>7. f[t \ {x}] = g[t \ {x}]
  BY <1>2, <1>6
<1>8. f[t] = h[x] + f[t \ {x}] /\ g[t] = h[x] + g[t \ {x}]
  BY <1>3, <1>4, <1>5, SumOf
<1> QED
  BY <1>3, <1>7, <1>8

LEMMA SumsExist ==
    ASSUME NEW h, NEW S, IsFiniteSet(S)
    PROVE  \E f : Sums(f, h, S)
<1> DEFINE U == {T \in SUBSET S : ~ \E f : Sums(f, h, T)}
<1> SUFFICES ASSUME U # {}
             PROVE  FALSE
  OBVIOUS
<1>1. \A T \in U : IsFiniteSet(T)
  BY FS_Subset
<1>2. PICK T \in U : \A V \in U : ~(Cardinality(V) < Cardinality(T))
  <2> HIDE DEF U
  <2> QED
    BY <1>1, SmallestSet
<1> DEFINE part(s) == CHOOSE f : Sums(f, h, s)
           total(s) == IF s = {} THEN 0
                       ELSE h[First(s)] + part(s \ {First(s)})[s \ {First(s)}]
           F == [s \in SUBSET T |-> total(s)]
<1>3. ASSUME NEW s \in SUBSET T, NEW x, s # {}, x = First(s)
      PROVE  s \ {x} \in SUBSET T /\ IsFiniteSet(s \ {x}) /\ Sums(part(s \ {x}), h, s \ {x})
  <2>1. IsFiniteSet(T) /\ IsFiniteSet(s) /\ Cardinality(s) \in Nat /\ Cardinality(T) \in Nat
        /\ Cardinality(s) <= Cardinality(T)
    BY <1>1, FS_Subset, FS_CardinalityType
  <2>2. IsFiniteSet(s \ {x}) /\ Cardinality(s \ {x}) < Cardinality(s)
    BY <1>3, <2>1, SmallerWithout
  <2>3. Cardinality(s \ {x}) \in Nat
    BY <2>2, FS_CardinalityType
  <2>4. Cardinality(s \ {x}) < Cardinality(T)
    BY <2>1, <2>2, <2>3
  <2>5. s \ {x} \notin U
    BY <1>2, <2>4
  <2> QED
    BY <2>2, <2>5
<1>4. ASSUME NEW s \in SUBSET T, NEW x, s # {}, x = First(s)
      PROVE  F[s \ {x}] = part(s \ {x})[s \ {x}]
  <2> DEFINE t == s \ {x}
  <2>1. t \in SUBSET T /\ IsFiniteSet(t) /\ Sums(part(t), h, t)
    BY <1>3, <1>4
  <2>2. F[t] = total(t)
    BY <2>1
  <2>3. CASE t = {}
    <3>1. part(t)[t] = 0
      BY <2>1, <2>3, SumOf
    <3> QED
      BY <2>2, <2>3, <3>1
  <2>4. CASE t # {}
    <3>1. PICK y : y = First(t)
      OBVIOUS
    <3> HIDE DEF t
    <3>2. Sums(part(t \ {y}), h, t \ {y}) /\ IsFiniteSet(t \ {y}) /\ t \ {y} \subseteq t
      BY <1>3, <2>1, <2>4, <3>1
    <3> HIDE DEF part
    <3>3. part(t)[t] = h[y] + part(t)[t \ {y}]
      BY <2>1, <2>4, <3>1, SumOf
    <3>4. part(t)[t \ {y}] = part(t \ {y})[t \ {y}]
      BY <2>1, <3>2, SumsAgree
    <3>5. total(t) = h[y] + part(t \ {y})[t \ {y}]
      BY <2>4, <3>1
    <3> QED
      BY <2>2, <3>3, <3>4, <3>5 DEF t
  <2> QED
    BY <2>3, <2>4
<1>5. Sums(F, h, T)
  <2>1. ASSUME NEW s \in SUBSET T
        PROVE  F[s] = IF s = {} THEN 0
                      ELSE h[First(s)] + F[s \ {First(s)}]
    <3>1. CASE s = {}
      BY <3>1
    <3>2. CASE s # {}
      <4>1. PICK x : x = First(s)
        OBVIOUS
      <4>2. F[s] = h[x] + part(s \ {x})[s \ {x}]
        BY <3>2, <4>1
      <4> HIDE DEF F, part
      <4>3. F[s \ {x}] = part(s \ {x})[s \ {x}]
        BY <1>4, <3>2, <4>1
      <4> QED
        BY <3>2, <4>1, <4>2, <4>3
    <3> QED
      BY <3>1, <3>2
  <2>2. F = [s \in SUBSET T |-> F[s]]
    OBVIOUS
  <2> HIDE DEF F
  <2> QED
    BY <2>1, <2>2 DEF Sums
<1> QED
  BY <1>2, <1>5

LEMMA SumIsNat ==
    ASSUME NEW f, NEW h, NEW S, IsFiniteSet(S), Sums(f, h, S), \A x \in S : h[x] \in Nat
    PROVE  f[S] \in Nat
<1> DEFINE U == {s \in SUBSET S : f[s] \notin Nat}
<1> SUFFICES ASSUME U # {}
             PROVE  FALSE
  OBVIOUS
<1>1. \A s \in U : IsFiniteSet(s)
  BY FS_Subset
<1>2. PICK s \in U : \A u \in U : ~(Cardinality(u) < Cardinality(s))
  <2> HIDE DEF U
  <2> QED
    BY <1>1, SmallestSet
<1>3. s # {}
  <2>1. s \in SUBSET S /\ f[s] \notin Nat
    OBVIOUS
  <2>2. s = {} => f[s] = 0
    BY <2>1, SumOf
  <2> HIDE DEF U
  <2> QED
    BY <2>1, <2>2
<1>4. PICK x : x = First(s)
  OBVIOUS
<1>5. x \in s /\ Cardinality(s \ {x}) < Cardinality(s)
  BY <1>1, <1>3, <1>4, SmallerWithout
<1>6. f[s \ {x}] \in Nat /\ h[x] \in Nat
  BY <1>2, <1>5
<1>7. f[s] = h[x] + f[s \ {x}]
  BY <1>3, <1>4, SumOf
<1> QED
  BY <1>2, <1>6, <1>7

(* What the placeholders with lengths b come to when v has some values.    *)
HolesFilled(v, b) == MapThenSumSet(LAMBDA x : IF x \in DOMAIN v THEN v[x] ELSE b[x], DOMAIN b)

LEMMA HolesFilledIsNat ==
    ASSUME NEW v, NEW b, IsFiniteSet(DOMAIN b), \A x \in DOMAIN b : b[x] \in Nat,
           \A x \in DOMAIN v : v[x] \in Nat
    PROVE  HolesFilled(v, b) \in Nat
<1> DEFINE S == DOMAIN b
           h == [x \in S |-> IF x \in DOMAIN v THEN v[x] ELSE b[x]]
           Equation(f) ==
               f = [s \in SUBSET S |->
                      IF s = {} THEN 0
                      ELSE LET x == CHOOSE x \in s : TRUE
                           IN  (IF x \in DOMAIN v THEN v[x] ELSE b[x]) + f[s \ {x}]]
           iter == CHOOSE f : Equation(f)
<1>1. \A f : Equation(f) <=> Sums(f, h, S)
  <2> SUFFICES ASSUME NEW f
               PROVE  Equation(f) <=> Sums(f, h, S)
    OBVIOUS
  <2>1. ASSUME NEW s \in SUBSET S, s # {}
        PROVE  h[First(s)] = IF First(s) \in DOMAIN v THEN v[First(s)] ELSE b[First(s)]
    <3>1. First(s) \in S
      BY <2>1 DEF First
    <3> QED
      BY <3>1
  <2> HIDE DEF h
  <2>2. [s \in SUBSET S |->
            IF s = {} THEN 0
            ELSE (IF First(s) \in DOMAIN v THEN v[First(s)] ELSE b[First(s)]) + f[s \ {First(s)}]]
        = [s \in SUBSET S |-> IF s = {} THEN 0 ELSE h[First(s)] + f[s \ {First(s)}]]
    BY <2>1
  <2> QED
    BY <2>2 DEF First, Sums
<1>2. Sums(iter, h, S)
  <2> HIDE DEF Equation, h
  <2>1. \E f : Equation(f)
    BY <1>1, SumsExist
  <2> QED
    BY <1>1, <2>1
<1>3. \A x \in S : h[x] \in Nat
  OBVIOUS
<1>4. iter[S] \in Nat
  <2> HIDE DEF iter, h
  <2> QED
    BY <1>2, <1>3, SumIsNat
<1> QED
  BY <1>4 DEF HolesFilled, MapThenSumSet, MapThenFoldSet

(***************************************************************************)
(* Calls and their items.                                                  *)
(***************************************************************************)

LEMMA CallItems ==
    ASSUME NEW c \in Calls
    PROVE  /\ c.items # <<>> /\ Len(c.items) \in Nat \ {0}
           /\ DOMAIN c.items = 1 .. Len(c.items)
           /\ c.batch \in BOOLEAN
           /\ \A n \in 1 .. Len(c.items) : IsItem(c.items[n])
           /\ ~ c.batch => Len(c.items) = 1
<1> DEFINE s == c.items
           T == ToSet(s)
<1>1. /\ s \in Seq(T) /\ s # <<>> /\ c.batch \in BOOLEAN
      /\ \A n \in DOMAIN s : IsItem(s[n])
      /\ ~ c.batch => Len(s) = 1
  BY RequestAssumption
<1> HIDE DEF s, T
<1>2. Len(s) \in Nat \ {0} /\ DOMAIN s = 1 .. Len(s)
  BY <1>1
<1> QED
  BY <1>1, <1>2 DEF s

(* The length of a rendered text is a number, whatever values are given.   *)
LEMMA RenderedLength ==
    ASSUME NEW t \in TemplateIds, NEW v, \A x \in DOMAIN v : v[x] \in Nat
    PROVE  RenderTemplate(TemplateOf[t].body, v) \in Nat
<1> DEFINE body == TemplateOf[t].body
<1>1. /\ IsFiniteSet(DOMAIN body.holes)
      /\ \A x \in DOMAIN body.holes : body.holes[x] \in Nat
      /\ body.text \in Nat
  BY RequestAssumption
<1>2. RenderTemplate(body, v) = body.text + HolesFilled(v, body.holes)
  BY DEF RenderTemplate, HolesFilled
<1> HIDE DEF body
<1>3. HolesFilled(v, body.holes) \in Nat
  BY <1>1, HolesFilledIsNat
<1>4. RenderTemplate(body, v) \in Nat
  BY <1>1, <1>2, <1>3
<1> QED
  BY <1>4 DEF body

LEMMA ItemContent ==
    ASSUME NEW c \in Calls, NEW n \in 1 .. Len(c.items)
    PROVE  Content(c.items[n]) \in Nat
<1> DEFINE i == c.items[n]
<1>1. IsItem(i) /\ n \in DOMAIN c.items
  BY CallItems
<1>2. i.template # Null => RenderTemplate(TemplateOf[i.template].body, i.variables) \in Nat
  BY <1>1, RenderedLength DEF IsItem
<1> HIDE DEF i
<1>3. Content(i) \in Nat
  BY <1>1, <1>2 DEF Content, IsItem
<1> QED
  BY <1>3 DEF i

(* What is known of an item that passed the checks.                        *)
LEMMA PassedChecks ==
    ASSUME NEW i, Content(i) \in Nat, Complaint(i) = Null
    PROVE  /\ ValidRecipient(i.channel, i.recipient)
           /\ Content(i) \in 1 .. contentLimit(i.channel)
<1>1. Null \notin {"invalid", "no template", "no content"}
  BY RequestAssumption DEF Replies
<1>2. /\ ValidRecipient(i.channel, i.recipient)
      /\ Content(i) # 0
      /\ ~ TooLong(i)
  BY <1>1 DEF Complaint
<1>3. contentLimit(i.channel) \in Nat
  BY DEF contentLimit
<1> QED
  BY <1>2, <1>3 DEF TooLong

LEMMA AppendElements ==
    ASSUME NEW S, NEW s \in Seq(S), NEW m \in S
    PROVE  /\ DOMAIN s = 1 .. Len(s) /\ Len(s) \in Nat
           /\ Append(s, m) \in Seq(S)
           /\ Len(Append(s, m)) = Len(s) + 1
           /\ DOMAIN Append(s, m) = 1 .. Len(s) + 1
           /\ Append(s, m)[Len(s) + 1] = m
           /\ \A i \in 1 .. Len(s) : Append(s, m)[i] = s[i]
OBVIOUS

(* The rows a request has inserted are the first ones it has in memory.    *)
LEMMA PendingRows ==
    ASSUME RequestInv, NEW r \in Requests
    PROVE  /\ inserted[r] \in 0 .. Len(ready[r]) /\ Len(ready[r]) \in Nat
           /\ DOMAIN ready[r] = 1 .. Len(ready[r])
           /\ Pending(r) = {ready[r][n] : n \in 1 .. inserted[r]}
<1>1. ready[r] \in Seq(Row) /\ inserted[r] \in Nat /\ rpc[r] \in {"idle", "done"} \cup Running
  BY DEF RequestInv, Types
<1>2. Len(ready[r]) \in Nat /\ DOMAIN ready[r] = 1 .. Len(ready[r])
  BY <1>1
<1>3. Progress(r)
  BY DEF RequestInv
<1>4. inserted[r] \in 0 .. Len(ready[r])
  <2>1. CASE rpc[r] \notin {"insert", "commit"}
    BY <1>1, <1>2, <1>3, <2>1 DEF Progress, Running
  <2>2. CASE rpc[r] \in {"insert", "commit"}
    BY <1>1, <1>2, <1>3, <2>2 DEF Progress
  <2> QED
    BY <2>1, <2>2
<1> DEFINE s == SubSeq(ready[r], 1, inserted[r])
<1>5. DOMAIN s = 1 .. inserted[r] /\ \A n \in 1 .. inserted[r] : s[n] = ready[r][n]
  BY <1>1, <1>2, <1>4
<1> HIDE DEF s
<1>6. ToSet(s) = {ready[r][n] : n \in 1 .. inserted[r]}
  BY <1>5 DEF ToSet
<1> QED
  BY <1>2, <1>4, <1>6 DEF Pending, s


(***************************************************************************)
(* The invariant of the requests.                                          *)
(***************************************************************************)

Same(o) ==
    /\ rpc'[o] = rpc[o] /\ call'[o] = call[o] /\ ready'[o] = ready[o]
    /\ inserted'[o] = inserted[o] /\ reply'[o] = reply[o]

LEMMA SameKeeps ==
    ASSUME NEW o, Progress(o), Checked(o), Same(o)
    PROVE  Progress(o)' /\ Checked(o)'
BY DEF Progress, Checked, Same, Sendable

(* The end of a request.                                                   *)
LEMMA FinishKeeps ==
    ASSUME RequestInv, NEW r \in Requests, NEW a \in Replies, Finish(r, a),
           rpc[r] \in Running, UNCHANGED <<templateVars, call>>
    PROVE  RequestInv'
<1>1. Types
  BY DEF RequestInv
<1>2. <<>> \in Seq(Row)
  OBVIOUS
<1>3. Types'
  BY <1>1, <1>2 DEF Types, Finish, Answer, templateVars
<1>4. ASSUME NEW o \in Requests, o # r
      PROVE  Progress(o)' /\ Checked(o)'
  <2>1. Same(o)
    BY <1>1, <1>4 DEF Types, Finish, Answer, Same
  <2> QED
    BY <2>1, SameKeeps DEF RequestInv
<1>5. /\ rpc'[r] = "done" /\ call'[r] = call[r] /\ ready'[r] = <<>> /\ inserted'[r] = 0
      /\ reply'[r] = a
  BY <1>1 DEF Types, Finish, Answer
<1>6. call[r] \in Calls /\ a # Null
  BY RequestAssumption DEF RequestInv, Progress, Running
<1>7. Progress(r)'
  BY <1>5, <1>6 DEF Progress, Running
<1>8. Checked(r)'
  BY <1>5 DEF Checked
<1> QED
  BY <1>3, <1>4, <1>7, <1>8 DEF RequestInv

LEMMA ReceiveKeeps ==
    ASSUME RequestInv, NEW r \in Requests, NEW c \in Calls, Receive(r, c)
    PROVE  RequestInv'
<1>1. Types
  BY DEF RequestInv
<1>2. Types'
  BY <1>1 DEF Types, Receive, Goto, templateVars, Running
<1>3. ASSUME NEW o \in Requests, o # r
      PROVE  Progress(o)' /\ Checked(o)'
  <2>1. Same(o)
    BY <1>1, <1>3 DEF Types, Receive, Goto, Same
  <2> QED
    BY <2>1, SameKeeps DEF RequestInv
<1>4. /\ rpc'[r] = "check" /\ call'[r] = c /\ ready'[r] = ready[r]
      /\ inserted'[r] = inserted[r] /\ reply'[r] = reply[r] /\ rpc[r] = "idle"
  BY <1>1 DEF Types, Receive, Goto
<1>5. ready[r] = <<>> /\ inserted[r] = 0 /\ reply[r] = Null
  BY <1>4 DEF RequestInv, Progress, Running
<1>6. Len(c.items) \in Nat \ {0}
  BY CallItems
<1>7. Progress(r)' /\ Checked(r)'
  BY <1>4, <1>5, <1>6 DEF Progress, Checked, Running
<1> QED
  BY <1>2, <1>3, <1>7 DEF RequestInv

LEMMA CheckItemKeeps ==
    ASSUME RequestInv, NEW r \in Requests, CheckItem(r)
    PROVE  RequestInv'
<1>1. Types /\ Progress(r) /\ Checked(r)
  BY DEF RequestInv
<1>2. /\ rpc[r] = "check" /\ call[r] \in Calls /\ inserted[r] = 0 /\ reply[r] = Null
      /\ ready[r] \in Seq(Row) /\ Len(ready[r]) \in Nat
      /\ Len(ready[r]) < Len(call[r].items)
  BY <1>1 DEF CheckItem, Types, Progress
<1>3. PICK n \in Nat : n = Len(ready[r]) + 1
  BY <1>2
<1>4. PICK item : item = NextItem(r)
  OBVIOUS
<1>5. n \in 1 .. Len(call[r].items) /\ item = call[r].items[n]
  BY <1>2, <1>3, <1>4, CallItems DEF NextItem
<1>6. IsItem(item) /\ Content(item) \in Nat
  BY <1>2, <1>5, CallItems, ItemContent
<1>7. CASE Complaint(item) # Null
  <2>1. Finish(r, Complaint(item)) /\ UNCHANGED <<templateVars, call>>
    BY <1>4, <1>7 DEF CheckItem
  <2>2. Complaint(item) \in Replies
    BY <1>7 DEF Complaint, Replies
  <2> QED
    BY <1>2, <2>1, <2>2, FinishKeeps DEF Running
<1>8. CASE Complaint(item) = Null
  <2> DEFINE row == RowOf(r, item)
             pc == IF Len(ready'[r]) = Len(call[r].items) THEN AfterChecks(r) ELSE "check"
  <2>1. /\ ready' = [ready EXCEPT ![r] = Append(@, row)]
        /\ rpc' = [rpc EXCEPT ![r] = pc]
        /\ UNCHANGED <<inserted, reply, templateVars, call>>
    BY <1>4, <1>8 DEF CheckItem, Goto
  <2>2. /\ row.request = r /\ row.n = n /\ row.channel = item.channel
        /\ row.recipient = item.recipient /\ row.content = Content(item)
    BY <1>3 DEF RowOf
  <2>3. row \in Row
    <3>1. item.channel \in ItemChannels
      BY <1>2, <1>5, CallItems DEF ItemChannels
    <3>2. n \in Nat \ {0}
      BY <1>2, <1>3
    <3> QED
      BY <1>3, <1>6, <3>1, <3>2 DEF Row, RowOf, IsItem
  <2>4. Sendable(row)
    BY <1>6, <1>8, <2>2, PassedChecks DEF Sendable
  <2>5. pc \in {"check", "lookup", "insert"}
    BY DEF AfterChecks
  <2> HIDE DEF row
  <2>6. /\ Append(ready[r], row) \in Seq(Row)
        /\ Len(Append(ready[r], row)) = n
        /\ DOMAIN Append(ready[r], row) = 1 .. n
        /\ Append(ready[r], row)[n] = row
        /\ \A i \in 1 .. n - 1 : Append(ready[r], row)[i] = ready[r][i]
        /\ DOMAIN ready[r] = 1 .. n - 1
    BY <1>2, <1>3, <2>3, AppendElements
  <2>7. ready'[r] = Append(ready[r], row) /\ rpc'[r] = pc
    BY <1>1, <2>1 DEF Types
  <2>8. Len(ready'[r]) = n /\ ready'[r] \in Seq(Row)
    BY <2>6, <2>7
  <2>9. pc = IF n = Len(call[r].items) THEN AfterChecks(r) ELSE "check"
    BY <2>8
  <2> HIDE DEF pc
  <2>10. Types'
    <3>1. ready' \in [Requests -> Seq(Row)]
      BY <1>1, <2>1, <2>6 DEF Types
    <3>2. rpc' \in [Requests -> {"idle", "done"} \cup Running]
      BY <1>1, <2>1, <2>5 DEF Types, Running
    <3> QED
      BY <1>1, <2>1, <3>1, <3>2 DEF Types, templateVars
  <2>11. ASSUME NEW o \in Requests, o # r
         PROVE  Progress(o)' /\ Checked(o)'
    <3>1. Same(o)
      BY <1>1, <2>1, <2>11 DEF Types, Same
    <3> QED
      BY <3>1, SameKeeps DEF RequestInv
  <2>12. /\ call'[r] = call[r] /\ inserted'[r] = 0 /\ reply'[r] = Null
    BY <1>2, <2>1
  <2>13. Progress(r)'
    <3>1. CASE n = Len(call[r].items)
      <4>1. rpc'[r] = IF call[r].batch \/ item.key = Null THEN "insert" ELSE "lookup"
        BY <1>4, <2>7, <2>9, <3>1 DEF AfterChecks
      <4>2. 0 < n
        BY <1>2, <1>3
      <4>3. CASE call[r].batch \/ item.key = Null
        BY <1>2, <2>8, <2>12, <3>1, <4>1, <4>2, <4>3 DEF Progress, Running
      <4>4. CASE ~ (call[r].batch \/ item.key = Null)
        BY <1>2, <2>8, <2>12, <3>1, <4>1, <4>2, <4>4 DEF Progress, Running
      <4> QED
        BY <4>3, <4>4
    <3>2. CASE n # Len(call[r].items)
      <4>1. n < Len(call[r].items) /\ rpc'[r] = "check"
        BY <1>2, <1>5, <2>7, <2>9, <3>2, CallItems
      <4> QED
        BY <1>2, <2>8, <2>12, <4>1 DEF Progress, Running
    <3> QED
      BY <3>1, <3>2
  <2>14. Checked(r)'
    <3>1. SUFFICES ASSUME NEW i \in DOMAIN ready'[r]
                   PROVE  /\ ready'[r][i].request = r /\ ready'[r][i].n = i
                          /\ Sendable(ready'[r][i])
                          /\ i <= inserted'[r] => ready'[r][i].channel \in Channels
      BY DEF Checked, Sendable
    <3>2. i \in 1 .. n /\ ~ i <= inserted'[r]
      BY <2>6, <2>7, <2>12, <3>1
    <3>3. CASE i = n
      BY <2>2, <2>4, <2>6, <2>7, <3>2, <3>3
    <3>4. CASE i # n
      <4>1. i \in DOMAIN ready[r] /\ ready'[r][i] = ready[r][i]
        BY <2>6, <2>7, <3>2, <3>4
      <4> QED
        BY <1>1, <3>2, <4>1 DEF Checked
    <3> QED
      BY <3>3, <3>4
  <2> QED
    BY <2>10, <2>11, <2>13, <2>14 DEF RequestInv
<1> QED
  BY <1>7, <1>8


(* The next row to insert, of a request about to insert it.                *)
LEMMA NextToInsert ==
    ASSUME RequestInv, NEW r \in Requests, rpc[r] = "insert"
    PROVE  /\ inserted[r] + 1 \in DOMAIN ready[r] /\ inserted[r] \in Nat
           /\ NextRow(r) = ready[r][inserted[r] + 1]
           /\ Len(ready[r]) = Len(call[r].items) /\ call[r] \in Calls
           /\ ~ call[r].batch => inserted[r] = 0 /\ Len(ready[r]) = 1
           /\ rpc[r] \in Running
<1>1. Progress(r) /\ inserted[r] \in Nat
  BY DEF RequestInv, Types
<1>2. /\ inserted[r] < Len(ready[r]) /\ call[r] \in Calls
      /\ Len(ready[r]) = Len(call[r].items)
  BY <1>1 DEF Progress
<1>3. DOMAIN ready[r] = 1 .. Len(ready[r]) /\ Len(ready[r]) \in Nat
  BY PendingRows
<1>4. ~ call[r].batch => Len(ready[r]) = 1
  BY <1>2, CallItems
<1>5. inserted[r] + 1 \in DOMAIN ready[r]
  BY <1>1, <1>2, <1>3
<1>6. ASSUME ~ call[r].batch
      PROVE  inserted[r] = 0
  <2>1. inserted[r] < 1
    BY <1>2, <1>4, <1>6
  <2> QED
    BY <1>1, <2>1
<1>7. NextRow(r) = ready[r][inserted[r] + 1] /\ rpc[r] \in Running
  BY DEF NextRow, Running
<1> QED
  BY <1>1, <1>2, <1>4, <1>5, <1>6, <1>7

(* A row of a batch goes into its transaction.                             *)
LEMMA BatchInsertStep ==
    ASSUME RequestInv, NEW r \in Requests, Insert(r), call[r].batch
    PROVE  /\ inserted' = [inserted EXCEPT ![r] = @ + 1]
           /\ inserted'[r] = inserted[r] + 1
           /\ rpc' = [rpc EXCEPT ![r] = IF inserted[r] + 1 = Len(ready[r])
                                           THEN "commit" ELSE "insert"]
           /\ UNCHANGED <<templateVars, rows, call, ready, reply>>
<1>1. inserted \in [Requests -> Nat]
  BY DEF RequestInv, Types
<1> QED
  BY <1>1 DEF Insert, Goto

LEMMA InsertKeeps ==
    ASSUME RequestInv, NEW r \in Requests, Insert(r)
    PROVE  RequestInv'
<1>1. Types /\ Progress(r) /\ Checked(r) /\ rpc[r] = "insert"
  BY DEF RequestInv, Insert
<1>2. CASE ~ call[r].batch
  <2>1. PICK a \in AnswersOfStored : Finish(r, a)
    BY <1>2 DEF Insert, Store
  <2>2. a \in Replies /\ UNCHANGED <<templateVars, call>>
    BY DEF Replies, AnswersOfStored, Insert
  <2> QED
    BY <1>1, <2>1, <2>2, FinishKeeps DEF Running
<1>3. CASE call[r].batch
  <2>1. /\ inserted' = [inserted EXCEPT ![r] = @ + 1]
        /\ inserted'[r] = inserted[r] + 1
        /\ rpc' = [rpc EXCEPT ![r] = IF inserted[r] + 1 = Len(ready[r])
                                        THEN "commit" ELSE "insert"]
        /\ UNCHANGED <<templateVars, rows, call, ready, reply>>
    BY <1>3, BatchInsertStep
  <2>2. Types'
    BY <1>1, <2>1 DEF Types, Running, templateVars
  <2>3. ASSUME NEW o \in Requests, o # r
        PROVE  Progress(o)' /\ Checked(o)'
    <3>1. Same(o)
      BY <1>1, <2>1, <2>3 DEF Types, Same
    <3> QED
      BY <3>1, SameKeeps DEF RequestInv
  <2>4. /\ inserted[r] + 1 \in DOMAIN ready[r] /\ inserted[r] \in Nat
        /\ Len(ready[r]) = Len(call[r].items) /\ call[r] \in Calls
        /\ DOMAIN ready[r] = 1 .. Len(ready[r]) /\ Len(ready[r]) \in Nat
        /\ reply[r] = Null
    BY <1>1, NextToInsert, PendingRows DEF Progress
  <2>5. rpc'[r] = IF inserted[r] + 1 = Len(ready[r]) THEN "commit" ELSE "insert"
    BY <1>1, <2>1 DEF Types
  <2>6. Progress(r)'
    <3>1. CASE inserted[r] + 1 = Len(ready[r])
      BY <1>3, <2>1, <2>4, <2>5, <3>1 DEF Progress, Running
    <3>2. CASE inserted[r] + 1 # Len(ready[r])
      BY <1>3, <2>1, <2>4, <2>5, <3>2 DEF Progress, Running
    <3> QED
      BY <3>1, <3>2
  <2>7. Checked(r)'
    <3>1. SUFFICES ASSUME NEW i \in DOMAIN ready[r]
                   PROVE  /\ ready[r][i].request = r /\ ready[r][i].n = i
                          /\ Sendable(ready[r][i])
                          /\ i <= inserted'[r] => ready[r][i].channel \in Channels
      BY <2>1 DEF Checked, Sendable
    <3>2. i = inserted[r] + 1 => ready[r][i].channel \in Channels
      BY <1>1, NextToInsert DEF Insert, Refused
    <3>3. i <= inserted'[r] => i <= inserted[r] \/ i = inserted[r] + 1
      BY <2>1, <2>4, <3>1
    <3> QED
      BY <1>1, <3>2, <3>3 DEF Checked
  <2> QED
    BY <2>2, <2>3, <2>6, <2>7 DEF RequestInv
<1> QED
  BY <1>2, <1>3

LEMMA LookupKeeps ==
    ASSUME RequestInv, NEW r \in Requests, Lookup(r)
    PROVE  RequestInv'
<1>1. Types /\ Progress(r) /\ Checked(r) /\ rpc[r] = "lookup"
  BY DEF RequestInv, Lookup
<1>2. CASE HasKey(rows, NextRow(r).key)
  <2>1. Finish(r, "existing") /\ UNCHANGED <<templateVars, call>> /\ "existing" \in Replies
    BY <1>2 DEF Lookup, Replies
  <2> QED
    BY <1>1, <2>1, FinishKeeps DEF Running
<1>3. CASE ~ HasKey(rows, NextRow(r).key)
  <2>1. /\ rpc' = [rpc EXCEPT ![r] = "insert"]
        /\ UNCHANGED <<templateVars, call, ready, inserted, reply>>
    BY <1>3 DEF Lookup, Goto
  <2>2. Types'
    BY <1>1, <2>1 DEF Types, Running, templateVars
  <2>3. ASSUME NEW o \in Requests, o # r
        PROVE  Progress(o)' /\ Checked(o)'
    <3>1. Same(o)
      BY <1>1, <2>1, <2>3 DEF Types, Same
    <3> QED
      BY <3>1, SameKeeps DEF RequestInv
  <2>4. rpc'[r] = "insert"
    BY <1>1, <2>1 DEF Types
  <2>5. /\ call[r] \in Calls /\ inserted[r] = 0 /\ Len(ready[r]) = Len(call[r].items)
        /\ reply[r] = Null
    BY <1>1 DEF Progress
  <2>6. 0 < Len(ready[r])
    BY <2>5, CallItems
  <2>7. Progress(r)'
    BY <2>1, <2>4, <2>5, <2>6 DEF Progress, Running
  <2>8. Checked(r)'
    BY <1>1, <2>1 DEF Checked, Sendable
  <2> QED
    BY <2>2, <2>3, <2>7, <2>8 DEF RequestInv
<1> QED
  BY <1>2, <1>3

LEMMA RequestInit == Init => RequestInv
<1> SUFFICES ASSUME Init
             PROVE  RequestInv
  OBVIOUS
<1>1. Types
  BY DEF Init, Types
<1>2. ASSUME NEW r \in Requests
      PROVE  Progress(r) /\ Checked(r)
  BY DEF Init, Progress, Checked, Running
<1> QED
  BY <1>1, <1>2 DEF RequestInv

(* A request that fails or is abandoned ends and stores nothing.           *)
LEMMA EndsEarly ==
    ASSUME RequestInv, NEW r \in Requests, DatabaseFails(r) \/ Abandon(r)
    PROVE  \E a \in Replies \ {"created"} :
              UNCHANGED <<templateVars, rows, call>> /\ rpc[r] \in Running /\ Finish(r, a)
<1>1. rpc[r] \in Running
  BY DEF DatabaseFails, Abandon, RequestInv, Types, Running
<1> QED
  BY <1>1 DEF DatabaseFails, Abandon, Rollback, Replies

LEMMA RequestInvStep == RequestInv /\ [Next]_createVars => RequestInv'
<1> SUFFICES ASSUME RequestInv, [Next]_createVars
             PROVE  RequestInv'
  OBVIOUS
<1>1. ASSUME UNCHANGED requestVars, templates' \in SUBSET TemplateIds,
             unused' \in SUBSET TemplateIds
      PROVE  RequestInv'
  <2>1. Types'
    BY <1>1 DEF RequestInv, Types, requestVars
  <2>2. ASSUME NEW o \in Requests
        PROVE  Progress(o)' /\ Checked(o)'
    <3>1. Same(o)
      BY <1>1 DEF Same, requestVars
    <3> QED
      BY <3>1, SameKeeps DEF RequestInv
  <2> QED
    BY <2>1, <2>2 DEF RequestInv
<1>2. templates \in SUBSET TemplateIds /\ unused \in SUBSET TemplateIds
  BY DEF RequestInv, Types
<1>3. ASSUME NEW t \in TemplateIds, CreateTemplate(t)
      PROVE  RequestInv'
  BY <1>1, <1>2, <1>3 DEF CreateTemplate
<1>4. ASSUME NEW t \in TemplateIds, DeleteTemplate(t)
      PROVE  RequestInv'
  BY <1>1, <1>2, <1>4 DEF DeleteTemplate
<1>5. ASSUME NEW r \in Requests, InsertFails(r)
      PROVE  RequestInv'
  BY <1>5, FinishKeeps DEF InsertFails, Rollback, Replies, Running
<1>6. ASSUME NEW r \in Requests, Commit(r)
      PROVE  RequestInv'
  BY <1>6, FinishKeeps DEF Commit, Store, AnswersOfStored, Replies, Running
<1>7. ASSUME NEW r \in Requests, DatabaseFails(r) \/ Abandon(r)
      PROVE  RequestInv'
  BY <1>7, EndsEarly, FinishKeeps
<1>8. CASE UNCHANGED createVars
  BY <1>1, <1>2, <1>8 DEF createVars, templateVars
<1> QED
  BY <1>3, <1>4, <1>5, <1>6, <1>7, <1>8, ReceiveKeeps, CheckItemKeeps, LookupKeeps,
     InsertKeeps DEF Next, RequestStep

LEMMA AlwaysRequestInv == Spec => []RequestInv
BY RequestInit, RequestInvStep, PTL DEF Spec

(* A request never has more rows in memory than its call has items, nor    *)
(* more in its transaction than in memory.                                 *)
THEOREM RequestsAreTyped == Spec => []RequestTypeOK
<1>1. RequestInv => RequestTypeOK
  <2> SUFFICES ASSUME RequestInv
               PROVE  RequestTypeOK
    OBVIOUS
  <2>1. ASSUME NEW r \in Requests
        PROVE  /\ rpc[r] # "idle" => call[r] \in Calls /\ Len(ready[r]) <= Len(call[r].items)
               /\ inserted[r] \in 0 .. Len(ready[r])
    <3>1. Progress(r) /\ rpc[r] \in {"idle", "done"} \cup Running
      BY DEF RequestInv, Types
    <3>2. inserted[r] \in 0 .. Len(ready[r]) /\ Len(ready[r]) \in Nat
      BY PendingRows
    <3>3. rpc[r] # "idle" => call[r] \in Calls /\ Len(call[r].items) \in Nat
      BY <3>1, CallItems DEF Progress
    <3>4. Len(<<>>) = 0
      OBVIOUS
    <3> QED
      BY <3>1, <3>2, <3>3, <3>4 DEF Progress, Running
  <2> QED
    BY <2>1 DEF RequestInv, Types, RequestTypeOK, Running
<1> QED
  BY <1>1, AlwaysRequestInv, PTL


(***************************************************************************)
(* Which rows a step stores.                                               *)
(***************************************************************************)

(* Rows are stored by the INSERT of a Create, and by the COMMIT of a batch *)
(* whose rows have all been inserted.  The request ends with that.         *)
Stores(r) ==
    /\ rpc[r] \in Running
    /\ Len(ready[r]) = Len(call[r].items) /\ call[r] \in Calls
    /\ rows' = rows \cup {ready[r][n] : n \in DOMAIN ready[r]}
    /\ \A n \in DOMAIN ready[r] : ready[r][n].channel \in Channels
    /\ \E a \in AnswersOfStored : Finish(r, a)
    /\ call' = call

LEMMA InsertOfOne ==
    ASSUME RequestInv, NEW r \in Requests, Insert(r), ~ call[r].batch
    PROVE  Stores(r)
<1>1. /\ DOMAIN ready[r] = {1} /\ NextRow(r) = ready[r][1]
      /\ Len(ready[r]) = Len(call[r].items) /\ call[r] \in Calls
  <2>1. /\ Len(ready[r]) = 1 /\ inserted[r] = 0 /\ NextRow(r) = ready[r][inserted[r] + 1]
        /\ Len(ready[r]) = Len(call[r].items) /\ call[r] \in Calls
    BY NextToInsert DEF Insert
  <2>2. DOMAIN ready[r] = 1 .. Len(ready[r])
    BY PendingRows
  <2> QED
    BY <2>1, <2>2
<1>2. rows' = rows \cup {ready[r][n] : n \in DOMAIN ready[r]}
  <2>1. rows' = rows \cup {ready[r][1]}
    BY <1>1 DEF Insert, Store
  <2>2. {ready[r][n] : n \in DOMAIN ready[r]} = {ready[r][1]}
    BY <1>1
  <2> QED
    BY <2>1, <2>2
<1>3. NextRow(r).channel \in Channels
  BY DEF Insert, Refused
<1>4. (\E a \in AnswersOfStored : Finish(r, a)) /\ call' = call
  BY DEF Insert, Store
<1>5. rpc[r] \in Running
  BY DEF Insert, Running
<1> QED
  BY <1>1, <1>2, <1>3, <1>4, <1>5 DEF Stores

LEMMA CommitOfBatch ==
    ASSUME RequestInv, NEW r \in Requests, Commit(r)
    PROVE  Stores(r) /\ Pending(r) = {ready[r][n] : n \in DOMAIN ready[r]}
<1>1. Progress(r) /\ Checked(r) /\ rpc[r] = "commit"
  BY DEF RequestInv, Commit
<1>2. /\ inserted[r] = Len(ready[r]) /\ Len(ready[r]) = Len(call[r].items)
      /\ call[r] \in Calls
  BY <1>1 DEF Progress
<1>3. /\ DOMAIN ready[r] = 1 .. Len(ready[r]) /\ Len(ready[r]) \in Nat
      /\ Pending(r) = {ready[r][n] : n \in 1 .. inserted[r]}
  BY PendingRows
<1>4. Pending(r) = {ready[r][n] : n \in DOMAIN ready[r]}
  BY <1>2, <1>3
<1>5. rows' = rows \cup {ready[r][n] : n \in DOMAIN ready[r]}
  BY DEF Commit, Store, ToSet
<1>6. \A n \in DOMAIN ready[r] : ready[r][n].channel \in Channels
  BY <1>1, <1>2, <1>3 DEF Checked
<1>7. (\E a \in AnswersOfStored : Finish(r, a)) /\ call' = call
  BY DEF Commit, Store
<1> QED
  BY <1>1, <1>2, <1>4, <1>5, <1>6, <1>7 DEF Stores, Running

(* What a step does to the rows, the answers and the calls answered.       *)
LEMMA RowsStep ==
    ASSUME RequestInv, [Next]_createVars
    PROVE  \/ \E r \in Requests : Stores(r)
           \/ /\ UNCHANGED <<rows, reply>>
              /\ \A r \in Requests : reply[r] # Null => call'[r] = call[r]
           \/ \E r \in Requests, a \in Replies \ {"created"} :
                 /\ UNCHANGED <<rows, call>>
                 /\ rpc[r] \in Running
                 /\ Finish(r, a)
<1>1. ASSUME NEW t \in TemplateIds, CreateTemplate(t) \/ DeleteTemplate(t)
      PROVE  UNCHANGED <<rows, reply, call>>
  BY <1>1 DEF CreateTemplate, DeleteTemplate, requestVars
<1>2. ASSUME NEW r \in Requests, NEW c \in Calls, Receive(r, c)
      PROVE  /\ UNCHANGED <<rows, reply>>
             /\ \A o \in Requests : reply[o] # Null => call'[o] = call[o]
  <2>1. Progress(r) /\ rpc[r] = "idle" /\ call \in [Requests -> Calls \cup {Null}]
    BY <1>2 DEF RequestInv, Types, Receive
  <2>2. reply[r] = Null
    BY <2>1 DEF Progress
  <2> QED
    BY <1>2, <2>1, <2>2 DEF Receive
<1>3. ASSUME NEW r \in Requests, CheckItem(r)
      PROVE  \/ UNCHANGED <<rows, reply, call>>
             \/ \E a \in Replies \ {"created"} :
                   UNCHANGED <<rows, call>> /\ rpc[r] \in Running /\ Finish(r, a)
  <2>1. CASE Complaint(NextItem(r)) # Null
    <3>1. Finish(r, Complaint(NextItem(r))) /\ UNCHANGED <<rows, call>> /\ rpc[r] \in Running
      BY <1>3, <2>1 DEF CheckItem, Running
    <3>2. Complaint(NextItem(r)) \in Replies \ {"created"}
      BY <2>1 DEF Complaint, Replies
    <3> QED
      BY <3>1, <3>2
  <2>2. CASE Complaint(NextItem(r)) = Null
    BY <1>3, <2>2 DEF CheckItem
  <2> QED
    BY <2>1, <2>2
<1>4. ASSUME NEW r \in Requests, Lookup(r)
      PROVE  \/ UNCHANGED <<rows, reply, call>>
             \/ \E a \in Replies \ {"created"} :
                   UNCHANGED <<rows, call>> /\ rpc[r] \in Running /\ Finish(r, a)
  BY <1>4 DEF Lookup, Replies, Running
<1>5. ASSUME NEW r \in Requests, Insert(r)
      PROVE  Stores(r) \/ UNCHANGED <<rows, reply, call>>
  BY <1>5, InsertOfOne, BatchInsertStep
<1>6. ASSUME NEW r \in Requests, InsertFails(r)
      PROVE  \E a \in Replies \ {"created"} :
                UNCHANGED <<rows, call>> /\ rpc[r] \in Running /\ Finish(r, a)
  BY <1>6 DEF InsertFails, Rollback, Replies, Running
<1>7. ASSUME NEW r \in Requests, Commit(r)
      PROVE  Stores(r)
  BY <1>7, CommitOfBatch
<1>8. ASSUME NEW r \in Requests, DatabaseFails(r) \/ Abandon(r)
      PROVE  \E a \in Replies \ {"created"} :
                UNCHANGED <<rows, call>> /\ rpc[r] \in Running /\ Finish(r, a)
  BY <1>8, EndsEarly
<1>9. CASE UNCHANGED createVars
  BY <1>9 DEF createVars, requestVars
<1> QED
  BY <1>1, <1>2, <1>3, <1>4, <1>5, <1>6, <1>7, <1>8, <1>9 DEF Next, RequestStep

(* Whatever templates are created and deleted between the checks of an     *)
(* item and its INSERT, a stored row has a channel of the enum, a          *)
(* recipient of its format and, rendered, a text within its limit.         *)
THEOREM StoredRowsAreValid == Spec => []StoredIsValid
<1>1. Init => StoredIsValid
  BY DEF Init, StoredIsValid
<1>2. RequestInv /\ StoredIsValid /\ [Next]_createVars => StoredIsValid'
  <2> SUFFICES ASSUME RequestInv, StoredIsValid, [Next]_createVars
               PROVE  StoredIsValid'
    OBVIOUS
  <2>1. CASE rows' = rows
    BY <2>1 DEF StoredIsValid
  <2>2. ASSUME NEW r \in Requests, Stores(r)
        PROVE  StoredIsValid'
    <3>1. \A n \in DOMAIN ready[r] :
              ready[r][n].channel \in Channels /\ Sendable(ready[r][n])
      BY <2>2 DEF RequestInv, Checked, Stores
    <3>2. \A row \in rows' : row \in rows \/ (row.channel \in Channels /\ Sendable(row))
      BY <2>2, <3>1 DEF Stores
    <3> QED
      BY <3>2 DEF StoredIsValid, Sendable
  <2> QED
    BY <2>1, <2>2, RowsStep
<1> QED
  BY <1>1, <1>2, AlwaysRequestInv, PTL DEF Spec


(***************************************************************************)
(* All the rows of a request, or none.                                     *)
(***************************************************************************)

LEMMA AsManyAsPlaces ==
    ASSUME NEW s, NEW n \in Nat, DOMAIN s = 1 .. n, s = [i \in 1 .. n |-> s[i]],
           \A i, j \in 1 .. n : s[i] = s[j] => i = j
    PROVE  Cardinality({s[i] : i \in 1 .. n}) = n
<1> DEFINE T == {s[i] : i \in 1 .. n}
<1>1. s \in [1 .. n -> T]
  OBVIOUS
<1>2. s \in Bijection(1 .. n, T)
  BY <1>1 DEF Bijection, Injection, IsInjective, Surjection
<1>3. ExistsBijection(1 .. n, T)
  BY <1>2 DEF ExistsBijection
<1>4. IsFiniteSet(1 .. n) /\ Cardinality(1 .. n) = n
  <2>1. 1 \in Int /\ n \in Int
    OBVIOUS
  <2>2. IsFiniteSet(1 .. n) /\ Cardinality(1 .. n) = IF 1 > n THEN 0 ELSE n - 1 + 1
    BY <2>1, FS_Interval
  <2> QED
    BY <2>2
<1> HIDE DEF T
<1>5. Cardinality(T) = n
  BY <1>3, <1>4, FS_Bijection
<1> QED
  BY <1>5 DEF T

LEMMA RowsAfterStore ==
    ASSUME RequestInv, NEW r \in Requests, Stores(r), RowsOf(r) = {}
    PROVE  /\ Cardinality(RowsOf(r)') = Len(call'[r].items)
           /\ \A o \in Requests \ {r} : RowsOf(o)' = RowsOf(o)
<1>1. ready[r] \in Seq(Row) /\ Checked(r)
  BY DEF RequestInv, Types
<1>2. PICK s \in Seq(Row) : s = ready[r]
  BY <1>1
<1>3. PICK n \in Nat : n = Len(s)
  OBVIOUS
<1>4. DOMAIN s = 1 .. n /\ s = [i \in 1 .. n |-> s[i]]
  BY <1>3
<1>5. \A i \in 1 .. n : s[i].request = r /\ s[i].n = i
  BY <1>1, <1>2, <1>4 DEF Checked
<1>6. Cardinality({s[i] : i \in 1 .. n}) = n
  <2>1. \A i, j \in 1 .. n : s[i] = s[j] => i = j
    BY <1>5
  <2> QED
    BY <1>4, <2>1, AsManyAsPlaces
<1>7. rows' = rows \cup {s[i] : i \in 1 .. n}
  BY <1>2, <1>4 DEF Stores
<1>8. RowsOf(r)' = {s[i] : i \in 1 .. n}
  BY <1>5, <1>7 DEF RowsOf
<1>9. \A o \in Requests \ {r} : RowsOf(o)' = RowsOf(o)
  BY <1>5, <1>7 DEF RowsOf
<1>10. n = Len(call'[r].items)
  BY <1>2, <1>3 DEF Stores
<1> QED
  BY <1>6, <1>8, <1>9, <1>10

LEMMA AnswerOfOne ==
    ASSUME RequestInv, NEW r \in Requests, NEW a, Finish(r, a)
    PROVE  reply'[r] = a /\ \A o \in Requests \ {r} : reply'[o] = reply[o]
BY DEF RequestInv, Types, Finish, Answer

(* An answer is something.                                                 *)
LEMMA NotNull == Null \notin AnswersOfStored
BY RequestAssumption DEF AnswersOfStored, Replies

(* A request answered with "created" has all its rows stored, however the  *)
(* statements of others fall between its own; one whose client went away   *)
(* or that the server failed, at its first item, half-way through its      *)
(* batch or at the COMMIT, has all or none; and one that was refused, or   *)
(* found its key in the table, none.                                       *)
THEOREM RequestsStoreAllOrNothing == Spec => []AllOrNothing
<1> DEFINE Settled(r) ==
        /\ reply[r] = "created" => Cardinality(RowsOf(r)) = Len(call[r].items)
        /\ reply[r] \in AnswersOfStored \ {"created"} =>
              Cardinality(RowsOf(r)) \in {0, Len(call[r].items)}
        /\ reply[r] \notin AnswersOfStored => RowsOf(r) = {}
<1>1. Init => AllOrNothing
  <2>1. Null \notin AnswersOfStored /\ "created" \in AnswersOfStored
    BY NotNull DEF AnswersOfStored
  <2> QED
    BY <2>1 DEF Init, AllOrNothing, RowsOf
<1>2. RequestInv /\ AllOrNothing /\ [Next]_createVars => AllOrNothing'
  <2> SUFFICES ASSUME RequestInv, AllOrNothing, [Next]_createVars
               PROVE  \A r \in Requests : Settled(r)'
    BY DEF AllOrNothing
  <2>1. \A r \in Requests : Settled(r)
    BY DEF AllOrNothing
  <2>2. ASSUME NEW r \in Requests, reply'[r] = reply[r], RowsOf(r)' = RowsOf(r),
               reply[r] # Null => call'[r] = call[r]
        PROVE  Settled(r)'
    <3>1. Null \notin AnswersOfStored /\ "created" \in AnswersOfStored
      BY NotNull DEF AnswersOfStored
    <3> QED
      BY <2>1, <2>2, <3>1
  <2>3. ASSUME NEW r \in Requests, rpc[r] \in Running
        PROVE  RowsOf(r) = {}
    <3>1. reply[r] = Null
      BY <2>3 DEF RequestInv, Progress, Running
    <3> QED
      BY <2>1, <3>1, NotNull
  <2> HIDE DEF Settled
  <2>4. ASSUME NEW r \in Requests, Stores(r)
        PROVE  \A o \in Requests : Settled(o)'
    <3>1. RowsOf(r) = {} /\ call' = call
      BY <2>3, <2>4 DEF Stores
    <3>2. /\ Cardinality(RowsOf(r)') = Len(call'[r].items)
          /\ \A o \in Requests \ {r} : RowsOf(o)' = RowsOf(o)
      BY <2>4, <3>1, RowsAfterStore
    <3>3. PICK a \in AnswersOfStored : Finish(r, a)
      BY <2>4 DEF Stores
    <3>4. reply'[r] = a /\ \A o \in Requests \ {r} : reply'[o] = reply[o]
      BY <3>3, AnswerOfOne
    <3>5. Settled(r)'
      BY <3>2, <3>3, <3>4 DEF Settled
    <3>6. ASSUME NEW o \in Requests, o # r
          PROVE  Settled(o)'
      BY <2>2, <3>1, <3>2, <3>4, <3>6
    <3> QED
      BY <3>5, <3>6
  <2>5. CASE /\ UNCHANGED <<rows, reply>>
             /\ \A r \in Requests : reply[r] # Null => call'[r] = call[r]
    <3>1. \A r \in Requests : RowsOf(r)' = RowsOf(r)
      BY <2>5 DEF RowsOf
    <3> QED
      BY <2>2, <2>5, <3>1
  <2>6. ASSUME NEW r \in Requests, NEW a \in Replies \ {"created"},
               UNCHANGED <<rows, call>>, rpc[r] \in Running, Finish(r, a)
        PROVE  \A o \in Requests : Settled(o)'
    <3>1. \A o \in Requests : RowsOf(o)' = RowsOf(o)
      BY <2>6 DEF RowsOf
    <3>2. reply'[r] = a /\ \A o \in Requests \ {r} : reply'[o] = reply[o]
      BY <2>6, AnswerOfOne
    <3>3. RowsOf(r)' = {} /\ Cardinality(RowsOf(r)') = 0
      BY <2>3, <2>6, <3>1, FS_EmptySet
    <3>4. Settled(r)'
      BY <2>6, <3>2, <3>3 DEF Settled
    <3>5. ASSUME NEW o \in Requests, o # r
          PROVE  Settled(o)'
      BY <2>2, <2>6, <3>1, <3>2, <3>5
    <3> QED
      BY <3>4, <3>5
  <2> QED
    BY <2>4, <2>5, <2>6, RowsStep
<1> QED
  BY <1>1, <1>2, AlwaysRequestInv, PTL DEF Spec

(***************************************************************************)
(* Keys.                                                                   *)
(***************************************************************************)

(* The rows committed or about to be.                                      *)
Held == rows \cup UNION {Pending(r) : r \in Requests}

LEMMA FirstRows ==
    ASSUME NEW S, NEW s \in Seq(S), NEW n \in 0 .. Len(s)
    PROVE  ToSet(SubSeq(s, 1, n)) = {s[i] : i \in 1 .. n}
<1> DEFINE t == SubSeq(s, 1, n)
<1>1. DOMAIN t = 1 .. n /\ \A i \in 1 .. n : t[i] = s[i]
  OBVIOUS
<1> HIDE DEF t
<1>2. ToSet(t) = {s[i] : i \in 1 .. n}
  BY <1>1 DEF ToSet
<1> QED
  BY <1>2 DEF t

LEMMA PendingLater ==
    ASSUME RequestInv, NEW o \in Requests
    PROVE  /\ ready'[o] = ready[o] /\ inserted'[o] = inserted[o] => Pending(o)' = Pending(o)
           /\ ready'[o] \in Seq(Row) /\ inserted'[o] = 0 => Pending(o)' = {}
<1>1. ready'[o] = ready[o] /\ inserted'[o] = inserted[o] => Pending(o)' = Pending(o)
  BY DEF Pending
<1>2. ASSUME ready'[o] \in Seq(Row), inserted'[o] = 0
      PROVE  Pending(o)' = {}
  <2>1. 0 \in 0 .. Len(ready'[o])
    BY <1>2
  <2>2. ToSet(SubSeq(ready'[o], 1, 0)) = {ready'[o][i] : i \in 1 .. 0}
    BY <1>2, <2>1, FirstRows
  <2> QED
    BY <1>2, <2>2 DEF Pending
<1> QED
  BY <1>1, <1>2

(* A step that ends a request leaves the pending rows of the others.       *)
LEMMA FinishHolds ==
    ASSUME RequestInv, NEW r \in Requests, NEW a, Finish(r, a)
    PROVE  Held' \subseteq rows' \cup Held
<1>1. ASSUME NEW o \in Requests
      PROVE  Pending(o)' \subseteq Pending(o)
  <2>1. CASE o = r
    <3>1. ready'[o] = <<>> /\ inserted'[o] = 0 /\ <<>> \in Seq(Row)
      BY <2>1 DEF RequestInv, Types, Finish
    <3> QED
      BY <3>1, PendingLater
  <2>2. CASE o # r
    <3>1. ready'[o] = ready[o] /\ inserted'[o] = inserted[o]
      BY <2>2 DEF RequestInv, Types, Finish
    <3> QED
      BY <3>1, PendingLater
  <2> QED
    BY <2>1, <2>2
<1> QED
  BY <1>1 DEF Held

LEMMA InsertHolds ==
    ASSUME RequestInv, NEW r \in Requests, Insert(r)
    PROVE  Held' \subseteq Held \cup {NextRow(r)}
<1>1. CASE ~ call[r].batch
  <2>1. PICK a : Finish(r, a) /\ rows' = rows \cup {NextRow(r)}
    BY <1>1 DEF Insert, Store
  <2>2. rows \subseteq Held
    BY DEF Held
  <2> QED
    BY <2>1, <2>2, FinishHolds
<1>2. CASE call[r].batch
  <2>1. /\ inserted' = [inserted EXCEPT ![r] = @ + 1]
        /\ inserted'[r] = inserted[r] + 1
        /\ UNCHANGED <<rows, ready>>
    BY <1>2, BatchInsertStep
  <2>2. ASSUME NEW o \in Requests, o # r
        PROVE  Pending(o)' = Pending(o)
    <3>1. ready'[o] = ready[o] /\ inserted'[o] = inserted[o]
      BY <2>1, <2>2 DEF RequestInv, Types
    <3> QED
      BY <3>1, PendingLater
  <2>3. Pending(r)' \subseteq Pending(r) \cup {NextRow(r)}
    <3>1. PICK n \in Nat : n = inserted[r]
      BY DEF RequestInv, Types
    <3>2. /\ n + 1 \in DOMAIN ready[r] /\ NextRow(r) = ready[r][n + 1]
          /\ ready[r] \in Seq(Row)
      BY <3>1, NextToInsert DEF Insert, RequestInv, Types
    <3>3. n + 1 \in 0 .. Len(ready[r])
      BY <3>2
    <3>4. ToSet(SubSeq(ready[r], 1, n + 1)) = {ready[r][i] : i \in 1 .. n + 1}
      BY <3>2, <3>3, FirstRows
    <3>5. Pending(r)' = {ready[r][i] : i \in 1 .. n + 1}
      BY <2>1, <3>1, <3>4 DEF Pending
    <3>6. Pending(r) = {ready[r][i] : i \in 1 .. n}
      BY <3>1, PendingRows
    <3>7. \A i \in 1 .. n + 1 : i \in 1 .. n \/ i = n + 1
      OBVIOUS
    <3> QED
      BY <3>2, <3>5, <3>6, <3>7
  <2>4. ASSUME NEW row \in Held'
        PROVE  row \in Held \cup {NextRow(r)}
    <3>1. CASE row \in rows
      BY <3>1 DEF Held
    <3>2. CASE row \notin rows
      <4>1. PICK o \in Requests : row \in Pending(o)'
        BY <2>1, <2>4, <3>2 DEF Held
      <4>2. row \in Pending(o) \cup {NextRow(r)}
        BY <2>2, <2>3, <4>1
      <4> QED
        BY <4>2 DEF Held
    <3> QED
      BY <3>1, <3>2
  <2> QED
    BY <2>4
<1> QED
  BY <1>1, <1>2


LEMMA HeldStep ==
    ASSUME RequestInv, [Next]_createVars
    PROVE  \/ Held' \subseteq Held
           \/ \E r \in Requests : Insert(r) /\ Held' \subseteq Held \cup {NextRow(r)}
<1>1. ASSUME UNCHANGED <<rows, ready, inserted>>
      PROVE  Held' \subseteq Held
  BY <1>1 DEF Held, Pending
<1>2. ASSUME NEW r \in Requests, NEW a, Finish(r, a), rows' = rows
      PROVE  Held' \subseteq Held
  <2>1. Held' \subseteq rows \cup Held
    BY <1>2, FinishHolds
  <2> QED
    BY <2>1 DEF Held
<1>3. ASSUME NEW t \in TemplateIds, CreateTemplate(t) \/ DeleteTemplate(t)
      PROVE  Held' \subseteq Held
  BY <1>1, <1>3 DEF CreateTemplate, DeleteTemplate, requestVars
<1>4. ASSUME NEW r \in Requests, NEW c \in Calls, Receive(r, c)
      PROVE  Held' \subseteq Held
  BY <1>1, <1>4 DEF Receive
<1>5. ASSUME NEW r \in Requests, CheckItem(r)
      PROVE  Held' \subseteq Held
  <2>1. CASE Complaint(NextItem(r)) # Null
    BY <1>2, <1>5, <2>1 DEF CheckItem
  <2>2. CASE Complaint(NextItem(r)) = Null
    <3>1. /\ ready' = [ready EXCEPT ![r] = Append(@, RowOf(r, NextItem(r)))]
          /\ rows' = rows /\ inserted' = inserted /\ rpc[r] = "check"
      BY <1>5, <2>2 DEF CheckItem
    <3>2. RequestInv'
      BY <1>5, CheckItemKeeps
    <3>3. ASSUME NEW o \in Requests
          PROVE  Pending(o)' \subseteq Pending(o)
      <4>1. CASE o = r
        <5>1. inserted'[o] = 0 /\ ready'[o] \in Seq(Row)
          BY <3>1, <3>2, <4>1 DEF RequestInv, Types, Progress
        <5> QED
          BY <5>1, PendingLater
      <4>2. CASE o # r
        <5>1. inserted'[o] = inserted[o] /\ ready'[o] = ready[o]
          BY <3>1, <4>2 DEF RequestInv, Types
        <5> QED
          BY <5>1, PendingLater
      <4> QED
        BY <4>1, <4>2
    <3> QED
      BY <3>1, <3>3 DEF Held
  <2> QED
    BY <2>1, <2>2
<1>6. ASSUME NEW r \in Requests, Lookup(r)
      PROVE  Held' \subseteq Held
  BY <1>1, <1>2, <1>6 DEF Lookup
<1>7. ASSUME NEW r \in Requests, InsertFails(r) \/ DatabaseFails(r) \/ Abandon(r)
      PROVE  Held' \subseteq Held
  BY <1>2, <1>7, EndsEarly DEF InsertFails, Rollback
<1>8. ASSUME NEW r \in Requests, Commit(r)
      PROVE  Held' \subseteq Held
  <2>1. /\ rows' = rows \cup {ready[r][n] : n \in DOMAIN ready[r]}
        /\ Pending(r) = {ready[r][n] : n \in DOMAIN ready[r]}
        /\ \E a \in AnswersOfStored : Finish(r, a)
    BY <1>8, CommitOfBatch DEF Stores
  <2>2. rows' \subseteq Held
    BY <2>1 DEF Held
  <2> QED
    BY <2>1, <2>2, FinishHolds
<1>9. ASSUME NEW r \in Requests, Insert(r)
      PROVE  Held' \subseteq Held \cup {NextRow(r)}
  BY <1>9, InsertHolds
<1>10. CASE UNCHANGED createVars
  BY <1>1, <1>10 DEF createVars, requestVars
<1> QED
  BY <1>3, <1>4, <1>5, <1>6, <1>7, <1>8, <1>9, <1>10 DEF Next, RequestStep

(* The lookup of Create and its INSERT are two statements and a batch does *)
(* not look keys up: a key is still never in two rows, stored or in the    *)
(* transaction of a batch that is not committed yet.                       *)
THEOREM KeysAreHeldOnce == Spec => []KeyHeldOnce
<1> DEFINE Once(S) == \A a, b \in S : a.key = b.key /\ a.key # Null => a = b
<1>1. KeyHeldOnce <=> Once(Held)
  BY DEF KeyHeldOnce, Held
<1>2. Init => Once(Held)
  <2> SUFFICES ASSUME Init
               PROVE  Held = {}
    OBVIOUS
  <2>1. ASSUME NEW r \in Requests
        PROVE  Pending(r) = {}
    <3>1. <<>> \in Seq(Row) /\ 0 \in 0 .. Len(<<>>)
      OBVIOUS
    <3>2. Pending(r) = ToSet(SubSeq(<<>>, 1, 0))
      BY DEF Init, Pending
    <3>3. ToSet(SubSeq(<<>>, 1, 0)) = {<<>>[i] : i \in 1 .. 0}
      BY <3>1, FirstRows
    <3> QED
      BY <3>2, <3>3
  <2> QED
    BY <2>1 DEF Init, Held
<1>3. RequestInv /\ Once(Held) /\ [Next]_createVars => Once(Held)'
  <2> SUFFICES ASSUME RequestInv, Once(Held), [Next]_createVars
               PROVE  Once(Held)'
    OBVIOUS
  <2>1. CASE Held' \subseteq Held
    BY <2>1
  <2>2. ASSUME NEW r \in Requests, Insert(r), Held' \subseteq Held \cup {NextRow(r)}
        PROVE  Once(Held)'
    <3>1. ~ Refused(r) /\ ~ Waits(r) /\ rpc[r] = "insert"
      BY <2>2 DEF Insert
    <3>2. ASSUME NEW row \in Held, row.key = NextRow(r).key, row.key # Null
          PROVE  FALSE
      <4>1. CASE row \in rows \cup Pending(r)
        BY <3>1, <3>2, <4>1 DEF Refused, HasKey
      <4>2. CASE row \notin rows \cup Pending(r)
        <5>1. PICK o \in Requests \ {r} : row \in Pending(o)
          BY <3>2, <4>2 DEF Held
        <5>2. WaitsFor(r, o)
          BY <3>1, <3>2, <5>1 DEF WaitsFor, HasKey
        <5> QED
          BY <3>1, <5>2 DEF Waits
      <4> QED
        BY <4>1, <4>2
    <3> QED
      BY <2>2, <3>2
  <2> QED
    BY <2>1, <2>2, HeldStep
<1> QED
  <2>1. Spec => []Once(Held)
    <3> HIDE DEF Once
    <3> QED
      BY <1>2, <1>3, AlwaysRequestInv, PTL DEF Spec
  <2> QED
    BY <1>1, <2>1, PTL


(***************************************************************************)
(* Waiting.                                                                *)
(***************************************************************************)

(* If each of some requests waits for one of them, some wait in circles: a *)
(* smallest set of such requests has none that nobody in it waits for.     *)
LEMMA CirclesClose ==
    ASSUME NEW T \in SUBSET Requests, T # {}, \A a \in T : \E b \in T : WaitsFor(a, b)
    PROVE  \E C \in SUBSET T :
              /\ C # {}
              /\ \A a \in C : (\E b \in C : WaitsFor(a, b)) /\ (\E b \in C : WaitsFor(b, a))
<1> DEFINE Blocked == {C \in SUBSET T : C # {} /\ \A a \in C : \E b \in C : WaitsFor(a, b)}
<1>1. T \in Blocked /\ \A C \in Blocked : IsFiniteSet(C)
  BY RequestAssumption, FS_Subset
<1>2. PICK C \in Blocked : \A D \in Blocked : ~(Cardinality(D) < Cardinality(C))
  <2> HIDE DEF Blocked
  <2> QED
    BY <1>1, SmallestSet
<1>3. ASSUME NEW a \in C
      PROVE  \E b \in C : WaitsFor(b, a)
  <2> SUFFICES ASSUME \A b \in C : ~WaitsFor(b, a)
               PROVE  FALSE
    OBVIOUS
  <2>1. PICK b \in C : WaitsFor(a, b)
    BY <1>3
  <2>2. b # a
    BY <2>1 DEF WaitsFor
  <2>3. C \ {a} \in Blocked
    BY <2>1, <2>2
  <2>4. Cardinality(C \ {a}) < Cardinality(C)
    <3>1. IsFiniteSet(C)
      BY <1>1
    <3>2. Cardinality(C) \in Nat /\ Cardinality(C \ {a}) = Cardinality(C) - 1
      BY <1>3, <3>1, FS_CardinalityType, FS_RemoveElement
    <3> QED
      BY <3>2
  <2> QED
    BY <1>2, <2>3, <2>4
<1> QED
  BY <1>2, <1>3

(* A request that another waits for is under way.                          *)
LEMMA WaitedForIsRunning ==
    ASSUME RequestInv, NEW a \in Requests, NEW o \in Requests, WaitsFor(a, o)
    PROVE  rpc[o] \in Running
<1> SUFFICES ASSUME rpc[o] \notin Running
             PROVE  Pending(o) = {}
  BY DEF WaitsFor, HasKey
<1>1. inserted[o] = 0
  BY DEF RequestInv, Progress
<1>2. Pending(o) = {ready[o][n] : n \in 1 .. inserted[o]}
  BY PendingRows
<1> QED
  BY <1>1, <1>2

(* However many requests there are and however the keys of their batches   *)
(* overlap, one that waits is in the end waiting for a request that has a  *)
(* next step, or for a circle that Postgres breaks.                        *)
THEOREM WaitsComeToAnEnd == Spec => []WaitsEnd
<1>1. RequestInv => WaitsEnd
  <2> SUFFICES ASSUME RequestInv, NEW r \in Requests, NEW S \in SUBSET Requests,
                      r \in S, rpc[r] \notin {"idle", "done"},
                      \A a \in S, b \in Requests : WaitsFor(a, b) => b \in S,
                      \A o \in S : ~CanGoOn(o)
               PROVE  FALSE
    BY DEF WaitsEnd
  <2> DEFINE T == {a \in S : rpc[a] \in Running}
  <2>1. \A a \in S : rpc[a] \in {"idle", "done"} \cup Running
    BY DEF RequestInv, Types
  <2>2. r \in T /\ T \in SUBSET Requests
    BY <2>1
  <2>3. ASSUME NEW a \in T
        PROVE  Waits(a) /\ ~Deadlocked(a)
    <3>1. rpc[a] \notin {"idle", "done"}
      BY <2>3 DEF Running
    <3> QED
      BY <2>3, <3>1 DEF CanGoOn
  <2>4. ASSUME NEW a \in T
        PROVE  \E b \in T : WaitsFor(a, b)
    <3>1. PICK b \in Requests : WaitsFor(a, b)
      BY <2>3 DEF Waits
    <3>2. b \in T
      BY <2>2, <3>1, WaitedForIsRunning
    <3> QED
      BY <3>1, <3>2
  <2> HIDE DEF T
  <2>5. PICK C \in SUBSET T :
          /\ C # {}
          /\ \A a \in C : (\E b \in C : WaitsFor(a, b)) /\ (\E b \in C : WaitsFor(b, a))
    BY <2>2, <2>4, CirclesClose
  <2>6. C \in SUBSET {a \in Requests : Waits(a)}
    BY <2>2, <2>3, <2>5
  <2>7. PICK c \in C : TRUE
    BY <2>5
  <2>8. Deadlocked(c)
    BY <2>5, <2>6, <2>7 DEF Deadlocked
  <2> QED
    BY <2>3, <2>5, <2>7, <2>8
<1> QED
  BY <1>1, AlwaysRequestInv, PTL


(***************************************************************************)
(* Finitely many steps.                                                    *)
(***************************************************************************)

(* A bound on the statements a request has still to make: one per item to  *)
(* check and one per item to insert, the lookup of the key and the commit. *)
StepsLeft(r) ==
    LET items == Len(call[r].items)
    IN  CASE rpc[r] = "check" -> 2 * items + 2 - Len(ready[r])
          [] rpc[r] = "lookup" -> items + 2
          [] rpc[r] = "insert" -> items + 1 - inserted[r]
          [] rpc[r] = "commit" -> 1
          [] OTHER -> 0

(* Whatever the others do, a call that is under way either stays as it is  *)
(* or has fewer statements left: no loop, retry or wait makes it longer.   *)
CallsGetShorter ==
    [][\A r \in Requests :
          rpc[r] # "idle"
          => \/ UNCHANGED <<rpc[r], call[r], ready[r], inserted[r], reply[r]>>
             \/ StepsLeft(r)' < StepsLeft(r)]_createVars

LEMMA Countdown ==
    ASSUME NEW n \in Nat, NEW l \in Nat, l < n
    PROVE  /\ 2 * n + 2 - l \in Nat
           /\ n + 1 < 2 * n + 2 - l /\ n + 2 < 2 * n + 2 - l
           /\ 2 * n + 2 - (l + 1) < 2 * n + 2 - l
           /\ n + 1 - l \in Nat /\ 1 < n + 1 - l /\ n + 1 - (l + 1) < n + 1 - l
OBVIOUS

LEMMA NatIsPositive == \A n \in Nat, m \in Nat : m < n => n > 0
OBVIOUS

(* What StepsLeft counts is there.                                         *)
LEMMA StepsAreLeft ==
    ASSUME RequestInv, NEW r \in Requests
    PROVE  /\ StepsLeft(r) \in Nat
           /\ rpc[r] \in Running => StepsLeft(r) > 0
<1>1. Progress(r) /\ Len(ready[r]) \in Nat /\ inserted[r] \in Nat
  BY PendingRows DEF RequestInv, Types
<1>2. CASE rpc[r] \in {"idle", "done"}
  BY <1>2 DEF StepsLeft, Running
<1>3. CASE rpc[r] \in Running
  <2>1. PICK n \in Nat : n = Len(call[r].items)
    BY <1>1, <1>3, CallItems DEF Progress, Running
  <2>2. CASE rpc[r] = "check"
    <3>1. PICK l \in Nat : l = Len(ready[r])
      BY <1>1
    <3>2. l < n
      BY <1>1, <2>1, <2>2, <3>1 DEF Progress
    <3>3. StepsLeft(r) = 2 * n + 2 - l
      BY <2>1, <2>2, <3>1 DEF StepsLeft
    <3>4. 2 * n + 2 - l \in Nat /\ n + 2 < 2 * n + 2 - l /\ n + 2 \in Nat
      BY <3>2, Countdown
    <3> QED
      BY <3>3, <3>4, NatIsPositive
  <2>3. CASE rpc[r] = "insert"
    <3>1. inserted[r] < n
      BY <1>1, <2>1, <2>3 DEF Progress
    <3>2. StepsLeft(r) = n + 1 - inserted[r]
      BY <2>1, <2>3 DEF StepsLeft
    <3> QED
      BY <1>1, <2>1, <3>1, <3>2
  <2>4. CASE rpc[r] \in {"lookup", "commit"}
    <3>1. StepsLeft(r) = n + 2 \/ StepsLeft(r) = 1
      BY <2>1, <2>4 DEF StepsLeft
    <3> QED
      BY <2>1, <3>1
  <2> QED
    BY <1>3, <2>2, <2>3, <2>4 DEF Running
<1> QED
  BY <1>1, <1>2, <1>3 DEF RequestInv, Types

LEMMA CheckShortens ==
    ASSUME RequestInv, NEW r \in Requests, rpc'[r] # "done", CheckItem(r)
    PROVE  StepsLeft(r)' < StepsLeft(r)
<1>1. Progress(r) /\ Types /\ Len(ready[r]) \in Nat /\ rpc[r] = "check"
  BY PendingRows DEF RequestInv, CheckItem
<1>2. PICK n \in Nat : n = Len(call[r].items)
  BY <1>1, CallItems DEF Progress
<1>3. PICK l \in Nat : l = Len(ready[r])
  BY <1>1
<1>4. l < n /\ StepsLeft(r) = 2 * n + 2 - l
  BY <1>1, <1>2, <1>3 DEF Progress, StepsLeft
<1>5. n + 2 < 2 * n + 2 - l /\ 2 * n + 2 - (l + 1) < 2 * n + 2 - l
  BY <1>4, Countdown
<1>6. Complaint(NextItem(r)) = Null
  BY <1>1 DEF CheckItem, Finish, Answer, Types
<1>7. /\ ready'[r] = Append(ready[r], RowOf(r, NextItem(r)))
      /\ rpc'[r] = IF Len(ready'[r]) = n THEN AfterChecks(r) ELSE "check"
      /\ UNCHANGED <<call, inserted>>
  BY <1>1, <1>2, <1>6 DEF CheckItem, Goto, Types
<1>8. Len(ready'[r]) = l + 1
  BY <1>1, <1>3, <1>7 DEF Types
<1>9. CASE rpc'[r] = "check"
  <2>1. StepsLeft(r)' = 2 * n + 2 - (l + 1)
    BY <1>2, <1>7, <1>8, <1>9 DEF StepsLeft
  <2> QED
    BY <1>4, <1>5, <2>1
<1>10. CASE rpc'[r] = "lookup"
  <2>1. StepsLeft(r)' = n + 2
    BY <1>2, <1>7, <1>10 DEF StepsLeft
  <2> QED
    BY <1>4, <1>5, <2>1
<1>11. CASE rpc'[r] = "insert"
  <2>1. inserted[r] = 0
    BY <1>1 DEF Progress
  <2>2. StepsLeft(r)' = n + 1 - inserted'[r] /\ inserted'[r] = 0
    BY <1>2, <1>7, <1>11, <2>1 DEF StepsLeft
  <2>3. n + 1 < 2 * n + 2 - l /\ n + 1 - 0 = n + 1
    BY <1>4, Countdown
  <2> QED
    BY <1>4, <2>2, <2>3
<1> QED
  BY <1>7, <1>9, <1>10, <1>11 DEF AfterChecks

LEMMA InsertShortens ==
    ASSUME RequestInv, NEW r \in Requests, rpc'[r] # "done", Insert(r)
    PROVE  StepsLeft(r)' < StepsLeft(r)
<1>1. call[r].batch
  BY DEF Insert, Store, Finish, Answer, RequestInv, Types
<1>2. /\ rpc[r] = "insert" /\ inserted[r] \in Nat /\ Len(ready[r]) = Len(call[r].items)
      /\ call[r] \in Calls /\ inserted[r] < Len(ready[r])
  BY NextToInsert DEF Insert, RequestInv, Types, Progress
<1>3. PICK n \in Nat : n = Len(call[r].items)
  BY <1>2, CallItems
<1>4. inserted'[r] = inserted[r] + 1 /\ call' = call /\ rpc'[r] \in {"insert", "commit"}
  BY <1>1, BatchInsertStep DEF RequestInv, Types
<1>5. StepsLeft(r) = n + 1 - inserted[r]
  BY <1>2, <1>3 DEF StepsLeft
<1>6. StepsLeft(r)' = IF rpc'[r] = "insert" THEN n + 1 - inserted'[r] ELSE 1
  BY <1>3, <1>4 DEF StepsLeft
<1> QED
  BY <1>2, <1>3, <1>4, <1>5, <1>6

LEMMA LookupShortens ==
    ASSUME RequestInv, NEW r \in Requests, rpc'[r] # "done", Lookup(r)
    PROVE  StepsLeft(r)' < StepsLeft(r)
<1>1. rpc[r] = "lookup" /\ rpc'[r] = "insert" /\ UNCHANGED <<call, inserted>>
  BY DEF Lookup, Finish, Answer, Goto, RequestInv, Types
<1>2. inserted[r] = 0 /\ call[r] \in Calls
  BY <1>1 DEF RequestInv, Progress
<1>3. PICK n \in Nat : n = Len(call[r].items)
  BY <1>2, CallItems
<1> QED
  BY <1>1, <1>2, <1>3 DEF StepsLeft

(* Every call ends within the number of statements it started with, for    *)
(* any calls and any number of requests.  With WaitsComeToAnEnd this is    *)
(* why no request waits for ever: while any is under way, one has a next   *)
(* step, and each step is one of the finitely many left.                   *)
THEOREM CallsAreFinite == Spec => CallsGetShorter
<1>1. RequestInv /\ [Next]_createVars =>
        [\A r \in Requests :
            rpc[r] # "idle"
            => \/ UNCHANGED <<rpc[r], call[r], ready[r], inserted[r], reply[r]>>
               \/ StepsLeft(r)' < StepsLeft(r)]_createVars
  <2> SUFFICES ASSUME RequestInv, Next, NEW r \in Requests, rpc[r] # "idle"
               PROVE  \/ UNCHANGED <<rpc[r], call[r], ready[r], inserted[r], reply[r]>>
                      \/ StepsLeft(r)' < StepsLeft(r)
    OBVIOUS
  <2>1. CASE rpc'[r] = "done" /\ rpc[r] \in Running
    <3>1. StepsLeft(r)' = 0
      BY <2>1 DEF StepsLeft
    <3>2. StepsLeft(r) \in Nat /\ StepsLeft(r) > 0
      BY <2>1, StepsAreLeft
    <3> QED
      BY <3>1, <3>2
  <2>2. ASSUME NEW o \in Requests, RequestStep(o) \/ DatabaseFails(o) \/ Abandon(o)
        PROVE  /\ rpc[o] \in Running
               /\ o # r => UNCHANGED <<rpc[r], call[r], ready[r], inserted[r], reply[r]>>
               /\ rpc'[o] = "done" \/ CheckItem(o) \/ Lookup(o) \/ Insert(o)
    <3> USE DEF RequestInv, Types, Running
    <3>1. CASE CheckItem(o)
      BY <2>2, <3>1 DEF CheckItem, Finish, Answer, Goto
    <3>2. CASE Lookup(o)
      BY <2>2, <3>2 DEF Lookup, Finish, Answer, Goto
    <3>3. CASE Insert(o)
      BY <2>2, <3>3 DEF Insert, Store, Finish, Answer, Goto
    <3>4. CASE InsertFails(o) \/ DatabaseFails(o) \/ Abandon(o) \/ Commit(o)
      BY <2>2, <3>4 DEF InsertFails, DatabaseFails, Abandon, Rollback, Commit, Store, Finish, Answer
    <3> QED
      BY <2>2, <3>1, <3>2, <3>3, <3>4 DEF RequestStep
  <2>3. CASE \E o \in Requests : RequestStep(o) \/ DatabaseFails(o) \/ Abandon(o)
    BY <2>1, <2>2, <2>3, CheckShortens, LookupShortens, InsertShortens
  <2>4. CASE \E o \in Requests, c \in Calls : Receive(o, c)
    BY <2>4 DEF Receive, Goto, RequestInv, Types
  <2>5. CASE \E t \in TemplateIds : CreateTemplate(t) \/ DeleteTemplate(t)
    BY <2>5 DEF CreateTemplate, DeleteTemplate, requestVars
  <2> QED
    BY <2>3, <2>4, <2>5 DEF Next
<1> QED
  BY <1>1, AlwaysRequestInv, PTL DEF Spec, CallsGetShorter

=============================================================================
