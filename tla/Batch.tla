------------------------------- MODULE Batch -------------------------------
(***************************************************************************)
(* POST /predict and POST /predict/batch, row by row.  A request takes the *)
(* runtime, reads the customers it names from customers_crm, and then, in  *)
(* one step of the event loop, resolves, scores and ranks its rows and     *)
(* answers; the log is written after that.  Meanwhile the poll swaps the   *)
(* runtime, customers_crm is reloaded, and costs.yaml is edited.           *)
(* How a runtime is loaded is Serving's; here there always is one.         *)
(***************************************************************************)
EXTENDS Naturals, Sequences, FiniteSets

CONSTANTS
  Requests, Customers, Versions,
  Fields, Required, Values,  \* the columns of a row, those that must be set
  Malformed, None,
  Risk,       \* Risk[v][row]: what version v scores a row
  Policy,     \* Policy[v]: the threshold and base scenario logged with v
  Slice,      \* <<c, v>>: the hash of c, salted with v, is below the fraction
  CostFiles,  \* what costs.yaml may say: [capacity, budget]
  MaxSize,    \* batch.max_size
  Payloads, Runtimes, Crms,  \* the payloads, runtimes and contents of
                             \* customers_crm that are enumerated
  MaxRows, MaxSwaps, MaxReloads  \* bounds

Rows == {row \in [Fields -> Values \cup {None}] : \A f \in Required : row[f] # None}
Items == [customer : Customers \cup {None}, given : [Fields -> Values \cup {None}]]
         \cup {Malformed}

ASSUME BatchAssumption ==
  /\ None \notin Values \cup Customers \cup Versions \cup Rows
  /\ Malformed \notin [customer : Customers \cup {None}, given : [Fields -> Values \cup {None}]]
  /\ Required \subseteq Fields
  /\ Risk \in [Versions -> [Rows -> Nat]]
  /\ Policy \in [Versions -> [threshold : Nat, gain : Nat, cost : Nat \ {0}]]
  /\ Slice \subseteq Customers \X Versions
  /\ CostFiles \subseteq [capacity : Nat, budget : Nat]
  /\ Payloads \subseteq Seq(Items)
  /\ Runtimes \subseteq [champion : Versions, challenger : Versions \cup {None}]
  /\ Crms \subseteq [Customers -> Rows \cup {None}]
  /\ {MaxSize, MaxRows, MaxSwaps, MaxReloads} \subseteq Nat

VARIABLES
  runtime, swaps,  \* app.state.runtime
  crm, reloads,    \* customers_crm: a row, or None, for every customer
  predictionLog,
  pc, route, payload, held, found, answer,  \* of each request
  seen             \* history: what customers_crm has held while it was served

serverVars  == <<runtime, swaps, crm, reloads>>
requestVars == <<pc, route, payload, held, found, answer>>
vars == <<serverVars, predictionLog, requestVars, seen>>

NotRead == [c \in Customers |-> None]

---------------------------------------------------------------------------
(* Resolution: customer_lookup.py.                                         *)

Complete(item) == \A f \in Required : item.given[f] # None

\* The items of a payload that are well formed.
Valid(p) == {i \in DOMAIN p : p[i] # Malformed}

\* The customers to look up: those of the incomplete items.
LookupIds(p) == {p[i].customer : i \in {j \in Valid(p) : ~Complete(p[j])}} \ {None}

Resolvable(p, base, i) ==
  /\ i \in Valid(p)
  /\ Complete(p[i]) \/ (p[i].customer # None /\ base[p[i].customer] # None)

Resolved(p, base) == {i \in DOMAIN p : Resolvable(p, base, i)}

\* row_indices: the k-th of the items that are resolved.
RowIndices(p, base) ==
  [k \in 1..Cardinality(Resolved(p, base)) |->
     CHOOSE i \in Resolved(p, base) :
       Cardinality({j \in Resolved(p, base) : j < i}) = k - 1]

\* Mutant: the table overrides what the caller gives.
Features_BaseWins(item, base) ==
  [f \in Fields |-> IF Complete(item) \/ base[item.customer][f] = None
                    THEN item.given[f] ELSE base[item.customer][f]]

\* What the caller gives overrides what is looked up; a complete item is not
\* looked up.
Features(item, base) ==
  [f \in Fields |-> IF Complete(item) \/ item.given[f] # None
                    THEN item.given[f] ELSE base[item.customer][f]]

---------------------------------------------------------------------------
(* Scoring: predict.py.                                                    *)

\* Mutant: the buckets are salted with the champion's version.
InCanary_ChampionSalt(customer, rt) ==
  rt.challenger # None /\ <<customer, rt.champion>> \in Slice

\* _canary_bucket_mask; a row without a customer is in no bucket.
InCanary(customer, rt) == rt.challenger # None /\ <<customer, rt.challenger>> \in Slice

Serves(customer, rt) == IF InCanary(customer, rt) THEN rt.challenger ELSE rt.champion

\* score_request, for one row, under the threshold of what served it.
Score(index, item, row, rt) ==
  LET v == Serves(item.customer, rt) IN
  [index |-> index, customer |-> item.customer, features |-> row,
   canary |-> InCanary(item.customer, rt), version |-> v,
   probability |-> Risk[v][row], threshold |-> Policy[v].threshold]

\* Mutant: results are numbered as they are scored.
Scored_Renumbered(p, base, rt) ==
  [k \in DOMAIN RowIndices(p, base) |->
     LET item == p[RowIndices(p, base)[k]] IN Score(k, item, Features(item, base), rt)]

\* The rows of a batch, by their position among the resolved ones.
Scored(p, base, rt) ==
  [k \in DOMAIN RowIndices(p, base) |->
     LET i == RowIndices(p, base)[k] IN Score(i, p[i], Features(p[i], base), rt)]

---------------------------------------------------------------------------
(* The contact policy: contact_policy.py.                                  *)

\* expected_value_per_customer, but for the cost of a call: it is the same for
\* every row of a batch, and only the order of the values is used.
Value(row, scenario) == row.probability * scenario.gain

Decided(rows) == {k \in DOMAIN rows : rows[k].probability >= rows[k].threshold}

\* The rows that come before row k in a stable sort by falling value.
Before(rows, scenario, E, k) ==
  {j \in E : \/ Value(rows[j], scenario) > Value(rows[k], scenario)
             \/ Value(rows[j], scenario) = Value(rows[k], scenario) /\ j < k}

\* capacity_limit.
Limit(scenario, costs) ==
  LET affordable == costs.budget \div scenario.cost
  IN IF costs.capacity <= affordable THEN costs.capacity ELSE affordable

\* Mutant: the whole batch is ranked and cut, and then the undecided dropped.
Contacts_RankAll(rows, scenario, costs) ==
  {k \in Decided(rows) :
     Cardinality(Before(rows, scenario, DOMAIN rows, k)) <= Limit(scenario, costs)}

\* select_contacts: the first Limit of the decided rows.
Contacts(rows, scenario, costs) ==
  {k \in Decided(rows) :
     Cardinality(Before(rows, scenario, Decided(rows), k)) < Limit(scenario, costs)}

---------------------------------------------------------------------------
(* A request.                                                              *)

NoAnswer == [rows |-> <<>>, errors |-> {}, contacts |-> {}, costs |-> None]
Goto(r, l) == pc' = [pc EXCEPT ![r] = l]
RowsSubmitted == Cardinality(UNION {{r} \X DOMAIN payload[r] : r \in Requests})

\* The request is parsed and get_runtime has run.  /predict takes one complete
\* item, or answers 422 by itself.
Arrive(r, p, rte) ==
  /\ pc[r] = "new"
  /\ RowsSubmitted + Len(p) <= MaxRows
  /\ rte = "single" => Len(p) = 1 /\ Valid(p) = {1} /\ Complete(p[1])
  /\ payload' = [payload EXCEPT ![r] = p]
  /\ route' = [route EXCEPT ![r] = rte]
  /\ held' = [held EXCEPT ![r] = runtime]
  /\ seen' = [seen EXCEPT ![r] = {crm}]
  /\ Goto(r, "arrived")
  /\ UNCHANGED <<serverVars, predictionLog, found, answer>>

Accepted(r) == pc[r] = "arrived" /\ (route[r] = "batch" => Len(payload[r]) <= MaxSize)

\* The 413.
TooLarge(r) ==
  /\ pc[r] = "arrived" /\ ~Accepted(r)
  /\ Goto(r, "refused")
  /\ UNCHANGED <<serverVars, predictionLog, route, payload, held, found, answer, seen>>

NeedsLookup(r) == route[r] = "batch" /\ LookupIds(payload[r]) # {}

\* lookup_customers: one query.
Lookup(r) ==
  /\ Accepted(r) /\ NeedsLookup(r)
  /\ found' = [found EXCEPT ![r] =
       [c \in Customers |-> IF c \in LookupIds(payload[r]) THEN crm[c] ELSE None]]
  /\ Goto(r, "resumed")
  /\ UNCHANGED <<serverVars, predictionLog, route, payload, held, answer, seen>>

\* The query fails or takes too long.
LookupFails(r) ==
  /\ Accepted(r) /\ NeedsLookup(r)
  /\ Goto(r, "refused")
  /\ UNCHANGED <<serverVars, predictionLog, route, payload, held, found, answer, seen>>

\* predict_endpoint, or what predict_batch_endpoint does after its await.
Answer(r, costs) ==
  /\ pc[r] = "resumed" \/ (Accepted(r) /\ ~NeedsLookup(r))
  /\ LET rows == Scored(payload[r], found[r], held[r])
         scenario == Policy[held[r].champion]
     IN answer' = [answer EXCEPT ![r] =
          [rows |-> rows,
           errors |-> DOMAIN payload[r] \ Resolved(payload[r], found[r]),
           contacts |-> IF route[r] = "batch" THEN Contacts(rows, scenario, costs) ELSE {},
           costs |-> costs]]
  /\ Goto(r, "answered")
  /\ UNCHANGED <<serverVars, predictionLog, route, payload, held, found, seen>>

\* Mutant: the features are read again by the customer's id.
LogRow_Rejoined(r, k) ==
  LET row == answer[r].rows[k] IN
  [request |-> r, position |-> k, customer |-> row.customer,
   features |-> IF row.customer # None /\ crm[row.customer] # None
                THEN crm[row.customer] ELSE row.features,
   version |-> row.version, probability |-> row.probability, threshold |-> row.threshold,
   contact |-> k \in answer[r].contacts]

\* Mutant: what the caller sent is logged.
LogRow_AsSent(r, k) ==
  LET row == answer[r].rows[k] IN
  [request |-> r, position |-> k, customer |-> row.customer,
   features |-> payload[r][row.index].given,
   version |-> row.version, probability |-> row.probability, threshold |-> row.threshold,
   contact |-> k \in answer[r].contacts]

\* A row of build_log_rows; its contact is NULL for /predict.
LogRow(r, k) ==
  LET row == answer[r].rows[k] IN
  [request |-> r, position |-> k, customer |-> row.customer, features |-> row.features,
   version |-> IF row.canary THEN held[r].challenger ELSE held[r].champion,
   probability |-> row.probability, threshold |-> row.threshold,
   contact |-> k \in answer[r].contacts]

\* _log_prediction_background: all the rows in one transaction.
WriteLog(r) ==
  /\ pc[r] = "answered"
  /\ predictionLog' = predictionLog \cup {LogRow(r, k) : k \in DOMAIN answer[r].rows}
  /\ Goto(r, "logged")
  /\ UNCHANGED <<serverVars, route, payload, held, found, answer, seen>>

\* The write fails, and is swallowed.
LogFails(r) ==
  /\ pc[r] = "answered"
  /\ Goto(r, "unlogged")
  /\ UNCHANGED <<serverVars, predictionLog, route, payload, held, found, answer, seen>>

---------------------------------------------------------------------------
(* What happens meanwhile.                                                 *)

\* The poll has another runtime.
Swap(rt) ==
  /\ swaps < MaxSwaps /\ rt # runtime
  /\ runtime' = rt
  /\ swaps' = swaps + 1
  /\ UNCHANGED <<crm, reloads, predictionLog, requestVars, seen>>

\* crm_data.py: generate_crm_rows, and load_crm in one transaction.
ReloadCrm(content) ==
  /\ reloads < MaxReloads /\ content # crm
  /\ crm' = content
  /\ reloads' = reloads + 1
  /\ seen' = [r \in Requests |-> IF pc[r] = "arrived" THEN seen[r] \cup {content} ELSE seen[r]]
  /\ UNCHANGED <<runtime, swaps, predictionLog, requestVars>>

Init ==
  /\ runtime \in Runtimes /\ swaps = 0
  /\ crm \in Crms /\ reloads = 0
  /\ predictionLog = {}
  /\ pc = [r \in Requests |-> "new"]
  /\ route = [r \in Requests |-> "batch"]
  /\ payload = [r \in Requests |-> <<>>]
  /\ held = [r \in Requests |-> runtime]
  /\ found = [r \in Requests |-> NotRead]
  /\ answer = [r \in Requests |-> NoAnswer]
  /\ seen = [r \in Requests |-> {}]

Next ==
  \/ \E rt \in Runtimes : Swap(rt)
  \/ \E content \in Crms : ReloadCrm(content)
  \/ \E r \in Requests :
       \/ \E p \in Payloads, rte \in {"single", "batch"} : Arrive(r, p, rte)
       \/ TooLarge(r) \/ Lookup(r) \/ LookupFails(r)
       \/ \E costs \in CostFiles : Answer(r, costs)
       \/ WriteLog(r) \/ LogFails(r)

Spec == Init /\ [][Next]_vars

---------------------------------------------------------------------------
(* Properties.                                                             *)

Answered(r) == pc[r] \in {"answered", "logged", "unlogged"}

ScoredRow == [index : Nat, customer : Customers \cup {None}, features : Rows,
              canary : BOOLEAN, version : Versions, probability : Nat, threshold : Nat]

\* Every variable stays within the values the code can give it; in particular
\* no row reaches a model with a required column unset.
TypeOK ==
  /\ runtime \in Runtimes /\ crm \in Crms
  /\ swaps \in 0..MaxSwaps /\ reloads \in 0..MaxReloads
  /\ pc \in [Requests -> {"new", "arrived", "resumed", "answered", "logged",
                          "unlogged", "refused"}]
  /\ route \in [Requests -> {"single", "batch"}]
  /\ payload \in [Requests -> Payloads \cup {<<>>}]
  /\ held \in [Requests -> Runtimes]
  /\ found \in [Requests -> [Customers -> Rows \cup {None}]]
  /\ answer \in [Requests -> [rows : Seq(ScoredRow), errors : SUBSET Nat,
                               contacts : SUBSET Nat, costs : CostFiles \cup {None}]]
  /\ seen \in [Requests -> SUBSET Crms]
  /\ \A row \in predictionLog : row.request \in Requests /\ row.features \in Rows

\* Every item of a payload is answered exactly once, by a result or an error,
\* under its own index, and a result scores that item: what it gives, and for
\* the rest its customer's row in one content of customers_crm that was there
\* while the request was served.  Malformed and unresolvable items drop out of
\* the arrays before they are scored, so positions and indices differ.
RowsAreTheirOwn ==
  \A r \in Requests : Answered(r) =>
    LET rows == answer[r].rows
        indices == {rows[k].index : k \in DOMAIN rows}
    IN /\ indices \cap answer[r].errors = {}
       /\ indices \cup answer[r].errors = DOMAIN payload[r]
       /\ Cardinality(indices) = Len(rows)
       /\ \E content \in seen[r] : \A k \in DOMAIN rows :
            LET item == payload[r][rows[k].index] IN
            /\ item # Malformed /\ rows[k].customer = item.customer
            /\ IF Complete(item) THEN rows[k].features = item.given
               ELSE /\ item.customer # None /\ content[item.customer] # None
                    /\ \A f \in Fields : rows[k].features[f] =
                         (IF item.given[f] # None THEN item.given[f] ELSE content[item.customer][f])

\* Of the rows a batch decides to contact it contacts as many as the capacity
\* and the budget allow at the champion's cost per call, and none it leaves out
\* is worth more than one it calls.
ContactsAreBest ==
  \A r \in Requests : Answered(r) /\ route[r] = "batch" =>
    LET rows == answer[r].rows
        calls == answer[r].contacts
        costs == answer[r].costs
        scenario == Policy[held[r].champion]
        left == {k \in DOMAIN rows : rows[k].probability >= rows[k].threshold} \ calls
    IN /\ \A k \in calls : rows[k].probability >= rows[k].threshold
       /\ Cardinality(calls) <= costs.capacity
       /\ Cardinality(calls) * scenario.cost <= costs.budget
       /\ left # {} => \/ Cardinality(calls) = costs.capacity
                       \/ (Cardinality(calls) + 1) * scenario.cost > costs.budget
       /\ \A j \in left, k \in calls : rows[k].probability * scenario.gain
                                         >= rows[j].probability * scenario.gain

\* While a challenger stays the same version, a customer is answered by the
\* same of the two models every time, whatever becomes of the champion.
SameCustomerSameArm ==
  \A r, s \in Requests :
    Answered(r) /\ Answered(s) /\ held[r].challenger = held[s].challenger =>
      \A j \in DOMAIN answer[r].rows, k \in DOMAIN answer[s].rows :
        answer[r].rows[j].customer = answer[s].rows[k].customer =>
          answer[r].rows[j].canary = answer[s].rows[k].canary

\* A log row explains itself: the logged version scores the logged features as
\* logged, and the decision and threshold are that version's, although
\* customers_crm and the runtime may have changed since; and of one request
\* either every row is logged or none.
LogExplainsAnswer ==
  /\ \A row \in predictionLog :
       /\ row.probability = Risk[row.version][row.features]
       /\ row.threshold = Policy[row.version].threshold
  /\ \A r \in Requests :
       LET logged == {row \in predictionLog : row.request = r} IN
       \/ logged = {}
       \/ {<<row.position, row.customer, row.probability, row.contact>> : row \in logged} =
            {<<k, answer[r].rows[k].customer, answer[r].rows[k].probability,
               k \in answer[r].contacts>> : k \in DOMAIN answer[r].rows}

=============================================================================
