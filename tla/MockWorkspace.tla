--------------------------- MODULE MockWorkspace ---------------------------
(***************************************************************************)
(* The mock provider, the one the server ships with: one workspace in its  *)
(* backend, and runs that plan and apply versions of the document the      *)
(* workspace is named after.                                               *)
(*                                                                         *)
(* A run validates, inspects, lets the engine compare, checks for drift,   *)
(* sends its changes one at a time and verifies; the others may step in    *)
(* between any two of these.  Approvals, keys and ownership are left out   *)
(* (PlanLifecycle, Ownership: one document is one owner), and of the       *)
(* attributes the ones that behave like another.                           *)
(***************************************************************************)
EXTENDS Integers, Sequences, FiniteSets

CONSTANTS
    Runs,
    Spec,           \* run -> the spec of its version of the document
    Options,        \* run -> [allowDelete, allowReplace]
    Names,          \* names of databases, of tables and of users
    Scalars,        \* values of their fields
    MaxColumns,     \* bound: columns of a table
    MaxAttempts,    \* retry.maxAttempts
    MaxBegun,       \* bound: runs that begin
    MaxAtOnce       \* bound: runs under way

VARIABLES
    stored,         \* MockBackend: key -> leaves of the attributes
    run,            \* what each run is at
    disturbed       \* history: runs during whose changes another one wrote

vars == <<stored, run, disturbed>>

entry(x, v) == [y \in {x} |-> v]
over(f, g)  == [x \in DOMAIN f \cup DOMAIN g |-> IF x \in DOMAIN f THEN f[x] ELSE g[x]]

-----------------------------------------------------------------------------
(***************************************************************************)
(* Resource types and keys                                                 *)
(***************************************************************************)
databaseKey(d)     == <<"mock.database", d>>
tableKey(d, t)     == <<"mock.table", d, t>>
userKey(u)         == <<"mock.user", u>>
subscriptionKey(u) == <<"mock.subscription", u>>

Types == {"mock.database", "mock.table", "mock.user", "mock.subscription"}

Keys == {databaseKey(d) : d \in Names} \cup {tableKey(d, t) : d, t \in Names}
        \cup {userKey(u) : u \in Names} \cup {subscriptionKey(u) : u \in Names}

columnPaths(fields) == {<<"columns", i, f>> : i \in 1..MaxColumns, f \in fields}

Paths == {<<f>> : f \in {"engine", "region", "role", "displayName", "currency", "plan"}}
         \cup columnPaths({"name", "type"})

\* The names are immutable too, but they are the key.
mockResourceTypes(t) ==
    [apply     |-> TRUE,
     delete    |-> t = "mock.table",
     immutable |-> CASE t = "mock.database" -> {<<"engine">>}
                     [] t = "mock.table" -> columnPaths({"type"})
                     [] t = "mock.subscription" -> {<<"currency">>}
                     [] OTHER -> {},
     sensitive |-> {},
     factors   |-> CASE t = "mock.user" -> {"permissionScope"}
                     [] t = "mock.subscription" -> {"financial", "externallyVisible"}
                     [] OTHER -> {}]

Engine == INSTANCE PlanRules WITH
    Keys <- Keys, Paths <- Paths, Inside <- {}, Scalars <- Scalars,
    Types <- Types, TypeOf <- [k \in Keys |-> k[1]],
    Definitions <- [t \in Types |-> mockResourceTypes(t)],
    Environments <- {"development"}, MaxPlanSize <- 100

-----------------------------------------------------------------------------
(***************************************************************************)
(* projectSpec: nesting becomes a dependency                               *)
(***************************************************************************)
elements(s) == {s[i] : i \in DOMAIN s}

\* What the schema of the provider lets through.
IsTable(t) ==
    /\ t.name \in Names
    /\ DOMAIN t.columns \subseteq 1..MaxColumns
    /\ \A c \in elements(t.columns) : c.name \in Scalars /\ c.type \in Scalars

IsSpec(spec) ==
    /\ \A d \in elements(spec.databases) :
         /\ d.name \in Names /\ d.engine \in Scalars /\ d.region \in Scalars
         /\ \A t \in elements(d.tables) : IsTable(t)
    /\ \A u \in elements(spec.users) :
         u.name \in Names /\ u.role \in Scalars /\ u.displayName \in Scalars
    /\ \A s \in elements(spec.subscriptions) :
         s.user \in Names /\ s.plan \in Scalars /\ s.currency \in Scalars

ASSUME SpecAssumption ==
    /\ MaxAttempts \in Nat \ {0}
    /\ {"null", "drifted-region"} \subseteq Scalars
    /\ \A r \in Runs : IsSpec(Spec[r])

tablesOf(spec) == UNION {{<<d.name, t>> : t \in elements(d.tables)} : d \in elements(spec.databases)}

leaves(x, names) == [p \in {<<f>> : f \in names} |-> x[p[1]]]

databaseLeaves(d) == leaves(d, {"engine", "region"})

tableLeaves(t) ==
    [p \in {<<"columns", i, f>> : i \in DOMAIN t.columns, f \in {"name", "type"}} |->
        t.columns[p[2]][p[3]]]

\* compact: an undeclared name is no attribute.
userLeaves(u) ==
    leaves(u, {"role"} \cup IF u.displayName = "undefined" THEN {} ELSE {"displayName"})

subscriptionLeaves(s) == leaves(s, {"plan", "currency"})

resource(held, dependsOn) == [attributes |-> held, dependsOn |-> dependsOn]

subscription_free(s) == resource(subscriptionLeaves(s), {})

subscription(s) == resource(subscriptionLeaves(s), {userKey(s.user)})

resources(spec) ==
    {<<databaseKey(d.name), resource(databaseLeaves(d), {})>> : d \in elements(spec.databases)}
    \cup {<<tableKey(x[1], x[2].name), resource(tableLeaves(x[2]), {databaseKey(x[1])})>> :
            x \in tablesOf(spec)}
    \cup {<<userKey(u.name), resource(userLeaves(u), {})>> : u \in elements(spec.users)}
    \cup {<<subscriptionKey(s.user), subscription(s)>> : s \in elements(spec.subscriptions)}

\* Keys are distinct in a document that validates.
projectSpec(spec) ==
    [k \in {x[1] : x \in resources(spec)} |-> (CHOOSE x \in resources(spec) : x[1] = k)[2]]

\* What is stored does not say what it depends on.
projectStored == [k \in DOMAIN stored |-> resource(stored[k], {})]

-----------------------------------------------------------------------------
(***************************************************************************)
(* validate                                                                *)
(***************************************************************************)
distinct(s, key(_)) == \A i, j \in DOMAIN s : key(s[i]) = key(s[j]) => i = j

name(x)   == x.name
email(u)  == u.name
holder(s) == s.user

immutableViolations_databases(spec) ==
    {d \in elements(spec.databases) :
        databaseKey(d.name) \in DOMAIN stored /\ stored[databaseKey(d.name)][<<"engine">>] # d.engine}

\* #immutableViolations: of databases and subscriptions.
immutableViolations(spec) ==
    {d \in elements(spec.databases) :
        databaseKey(d.name) \in DOMAIN stored /\ stored[databaseKey(d.name)][<<"engine">>] # d.engine}
    \cup
    {s \in elements(spec.subscriptions) :
        /\ subscriptionKey(s.user) \in DOMAIN stored
        /\ stored[subscriptionKey(s.user)][<<"currency">>] # s.currency}

valid(spec) ==
    /\ distinct(spec.databases, name)
    /\ \A d \in elements(spec.databases) :
         /\ distinct(d.tables, name)
         /\ \A t \in elements(d.tables) : distinct(t.columns, name)
    /\ distinct(spec.users, email)
    /\ distinct(spec.subscriptions, holder)
    /\ \A s \in elements(spec.subscriptions) : \E u \in elements(spec.users) : u.name = s.user
    /\ immutableViolations(spec) = {}

-----------------------------------------------------------------------------
Results == {"succeeded", "failed", "blocked", "noop", "unmet"}

Idle == [at |-> "idle"]

Over == {"idle", "invalid", "drifted", "verified"}

Init == stored = <<>> /\ run = [r \in Runs |-> Idle] /\ disturbed = {}

\* #prepare, of plan.
Validate(r) ==
    /\ run[r].at = "idle"
    /\ Cardinality({q \in Runs : run[q].at # "idle"}) < MaxBegun
    /\ Cardinality({q \in Runs : run[q].at \notin Over}) < MaxAtOnce
    /\ run' = [run EXCEPT ![r] =
         IF valid(Spec[r]) THEN [at |-> "validated", checked |-> stored] ELSE [at |-> "invalid"]]
    /\ UNCHANGED <<stored, disturbed>>

\* Taking the admin role from a user is destructive.
refined(change) ==
    IF /\ change.action = "update"
       /\ <<"role">> \in change.fields
       /\ \E a \in change.before : a[<<"role">>] = "admin"
    THEN [change EXCEPT !.destructive = TRUE, !.reversible = FALSE] ELSE change

\* Any change to any row changes it.
revision == stored

PlanChanges(r) ==
    LET changes == Engine!computeChanges(projectSpec(Spec[r]), projectStored, Options[r])
    IN  /\ run[r].at = "validated"
        /\ run' = [run EXCEPT ![r] =
             [at |-> "planned", checked |-> @.checked, revision |-> revision,
              changes |-> [k \in DOMAIN changes |-> refined(changes[k])],
              results |-> <<>>, attempts |-> 0]]
        /\ UNCHANGED <<stored, disturbed>>

AssertNoDrift(r) ==
    /\ run[r].at = "planned"
    /\ run' = [run EXCEPT ![r] =
         IF revision = @.revision THEN [@ EXCEPT !.at = "applying"] ELSE [at |-> "drifted"]]
    /\ UNCHANGED <<stored, disturbed>>

\* Of the changes whose dependencies are settled the first of the plan: by
\* action, then by type; of one type it may be any.
place(k, change) ==
    LET action == [create |-> 0, update |-> 1, replace |-> 2, delete |-> 3, noop |-> 4, blocked |-> 5]
        type   == [t \in Types |-> CASE t = "mock.database" -> 0 [] t = "mock.subscription" -> 1
                                    [] t = "mock.table" -> 2 [] OTHER -> 3]
    IN  4 * action[change.action] + type[k[1]]

next(r) ==
    LET ready == {k \in DOMAIN run[r].changes \ DOMAIN run[r].results :
                    run[r].changes[k].dependencies \subseteq DOMAIN run[r].results}
    IN  {k \in ready : \A j \in ready :
            place(k, run[r].changes[k]) <= place(j, run[r].changes[j])}

met(r, k) ==
    \A j \in run[r].changes[k].dependencies : run[r].results[j] \in {"succeeded", "noop"}

Settle(r, k, result) ==
    run' = [run EXCEPT ![r].results = over(entry(k, result), @), ![r].attempts = 0]

PassOver(r, k) ==
    /\ run[r].at = "applying" /\ k \in next(r) /\ run[r].attempts = 0
    /\ \/ run[r].changes[k].action = "blocked" /\ Settle(r, k, "blocked")
       \/ run[r].changes[k].action = "noop" /\ Settle(r, k, "noop")
       \/ Engine!Effective(run[r].changes[k]) /\ ~met(r, k) /\ Settle(r, k, "unmet")
    /\ UNCHANGED <<stored, disturbed>>

-----------------------------------------------------------------------------
(***************************************************************************)
(* applyChange                                                             *)
(***************************************************************************)
\* Only the change that fails on purpose is tried again, and nothing else
\* meanwhile.
Sends(r, k) ==
    /\ run[r].at = "applying" /\ k \in next(r)
    /\ Engine!Effective(run[r].changes[k]) /\ met(r, k)
    /\ run[r].attempts > 0 => k = Spec[r].simulate.failResourceKey

fails(r, k) ==
    /\ Spec[r].simulate.failResourceKey = k
    /\ run[r].attempts + 1 <= Spec[r].simulate.failAttempts

SimulateFailure_oneMore(r, k) ==
    /\ Sends(r, k) /\ fails(r, k)
    /\ IF Spec[r].simulate.failureMode # "permanent" /\ run[r].attempts < MaxAttempts
       THEN run' = [run EXCEPT ![r].attempts = @ + 1]
       ELSE Settle(r, k, "failed")
    /\ UNCHANGED <<stored, disturbed>>

SimulateFailure(r, k) ==
    /\ Sends(r, k) /\ fails(r, k)
    /\ IF Spec[r].simulate.failureMode # "permanent" /\ run[r].attempts + 1 < MaxAttempts
       THEN run' = [run EXCEPT ![r].attempts = @ + 1]
       ELSE Settle(r, k, "failed")
    /\ UNCHANGED <<stored, disturbed>>

Disturb(r) == disturbed' = disturbed \cup {q \in Runs \ {r} : run[q].at = "applying"}

Delete(r, k) ==
    /\ Sends(r, k) /\ ~fails(r, k)
    /\ run[r].changes[k].action = "delete"
    /\ stored' = [j \in DOMAIN stored \ {k} |-> stored[j]]
    /\ Settle(r, k, IF k \in DOMAIN stored THEN "succeeded" ELSE "failed")
    /\ Disturb(r)

\* A field is set as a whole: the columns of a table are one field.
mergedWith_deep(existing, attributes) == over(attributes, existing)

mergedWith(existing, attributes) ==
    over(attributes,
         [p \in {q \in DOMAIN existing : \A a \in DOMAIN attributes : a[1] # q[1]} |-> existing[p]])

target(r, k) == projectSpec(Spec[r])[k].attributes

written(r, k) ==
    IF run[r].changes[k].action = "create" \/ k \notin DOMAIN stored
    THEN target(r, k) ELSE mergedWith(stored[k], target(r, k))

drifted(r, k, row) ==
    IF Spec[r].simulate.driftResourceKey = k
    THEN over(entry(<<"region">>, "drifted-region"), row) ELSE row

Upsert(r, k) ==
    /\ Sends(r, k) /\ ~fails(r, k)
    /\ run[r].changes[k].action # "delete"
    /\ stored' = over(entry(k, drifted(r, k, written(r, k))), stored)
    /\ Settle(r, k, "succeeded")
    /\ Disturb(r)

-----------------------------------------------------------------------------
Verify(r) ==
    /\ run[r].at = "applying"
    /\ DOMAIN run[r].results = DOMAIN run[r].changes
    /\ run' = [run EXCEPT ![r] =
         [at |-> "verified", revision |-> revision,
          completed |-> \A k \in DOMAIN @.results : @.results[k] \in {"succeeded", "noop"},
          status |-> Engine!verifyDesiredState(projectSpec(Spec[r]), projectStored)]]
    /\ UNCHANGED <<stored, disturbed>>

Next ==
    \E r \in Runs :
        \/ Validate(r) \/ PlanChanges(r) \/ AssertNoDrift(r) \/ Verify(r)
        \/ run[r].at = "applying" /\ \E k \in DOMAIN run[r].changes :
             PassOver(r, k) \/ SimulateFailure(r, k) \/ Delete(r, k) \/ Upsert(r, k)

MockSpec == Init /\ [][Next]_vars

-----------------------------------------------------------------------------
\* The shape of the state: what is stored are rows of the types, what a run
\* has settled is in its plan.
TypeOK ==
    /\ DOMAIN stored \subseteq Keys
    /\ \A k \in DOMAIN stored : Engine!IsLeaves(stored[k])
    /\ \A r \in Runs : run[r].at \in {"planned", "applying"} =>
         /\ \A k \in DOMAIN run[r].changes : Engine!IsChange(run[r].changes[k])
         /\ DOMAIN run[r].results \subseteq DOMAIN run[r].changes
         /\ \A k \in DOMAIN run[r].results : run[r].results[k] \in Results
         /\ run[r].attempts \in 0..(MaxAttempts - 1)

\* No table is stored without its database and no subscription without its
\* user, whatever fails, is deleted and overlaps: nesting and references are
\* dependencies (projectSpec), and only tables can be deleted.
NoOrphans ==
    \A k \in DOMAIN stored :
        /\ k[1] = "mock.table" => databaseKey(k[2]) \in DOMAIN stored
        /\ k[1] = "mock.subscription" => userKey(k[2]) \in DOMAIN stored

declaredFields(spec, k) == {p[1] : p \in DOMAIN projectSpec(spec)[k].attributes}

\* When a run that nothing disturbed completed and was verified, and nothing
\* has been written since, planning the document again finds nothing to create,
\* to delete or to set in the fields it declares.
DeclaredIsDone ==
    \A r \in Runs \ disturbed :
        run[r].at = "verified" =>
            (run[r].completed /\ run[r].status = "satisfied" /\ run[r].revision = revision =>
                /\ DOMAIN stored = DOMAIN projectSpec(Spec[r])
                /\ \A k \in DOMAIN stored :
                     \A p \in Engine!fields(projectSpec(Spec[r]), projectStored, k) :
                         p[1] \notin declaredFields(Spec[r], k))

\* A run that validates and plans the same world has no plan to replace a
\* database or a subscription: validate has refused it before ("a caller that
\* only runs validate still learns that the change is impossible").
FixedTermsAreForetold ==
    \A r \in Runs :
        run[r].at \in {"planned", "applying"} =>
            (run[r].checked = run[r].revision =>
                \A k \in DOMAIN run[r].changes :
                    run[r].changes[k].intent = "replace" => k[1] = "mock.table")
=============================================================================
