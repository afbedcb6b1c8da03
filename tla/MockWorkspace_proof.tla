------------------------- MODULE MockWorkspace_proof -------------------------
(***************************************************************************)
(* Theorems about the mock provider, for any versions of the document,     *)
(* options, simulated failures and drift, and any number of runs that      *)
(* overlap.                                                                *)
(***************************************************************************)
EXTENDS MockWorkspace, TLAPS, FiniteSetTheorems

-----------------------------------------------------------------------------
(***************************************************************************)
(* Documents                                                               *)
(***************************************************************************)
LEMMA KeysDiffer ==
    ASSUME NEW x, NEW y
    PROVE  /\ databaseKey(x)[1] = "mock.database" /\ databaseKey(x)[2] = x
           /\ tableKey(x, y)[1] = "mock.table" /\ tableKey(x, y)[2] = x
           /\ userKey(x)[1] = "mock.user" /\ userKey(x)[2] = x
           /\ subscriptionKey(x)[1] = "mock.subscription" /\ subscriptionKey(x)[2] = x
BY DEF databaseKey, tableKey, userKey, subscriptionKey

LEMMA KeyHasType == ASSUME NEW k \in Keys PROVE k[1] \in Types
BY DEF Keys, Types, databaseKey, tableKey, userKey, subscriptionKey

\* The attributes of one field each.
LEMMA LeavesOf ==
    ASSUME NEW x, NEW names, NEW f \in names
    PROVE  /\ DOMAIN leaves(x, names) = {<<g>> : g \in names}
           /\ <<f>> \in DOMAIN leaves(x, names)
           /\ leaves(x, names)[<<f>>] = x[f]
BY DEF leaves

IsRow(a) ==
    /\ a = [p \in DOMAIN a |-> a[p]]
    /\ DOMAIN a \subseteq Paths
    /\ \A p \in DOMAIN a : a[p] \in Scalars

LEMMA RowIsLeaves == \A a : IsRow(a) <=> Engine!IsLeaves(a)
BY DEF IsRow, Engine!IsLeaves

LEMMA TableLeaves ==
    ASSUME NEW t, IsTable(t)
    PROVE  IsRow(tableLeaves(t))
<1> DEFINE a == tableLeaves(t)
<1>1. DOMAIN a = {<<"columns", i, f>> : i \in DOMAIN t.columns, f \in {"name", "type"}}
  BY DEF tableLeaves
<1>2. ASSUME NEW i \in DOMAIN t.columns, NEW f \in {"name", "type"}
      PROVE  /\ <<"columns", i, f>> \in Paths
             /\ a[<<"columns", i, f>>] \in Scalars
  <2>1. t.columns[i] \in elements(t.columns) /\ i \in 1..MaxColumns
    BY DEF IsTable, elements
  <2>2. t.columns[i].name \in Scalars /\ t.columns[i].type \in Scalars
    BY <2>1 DEF IsTable
  <2>3. a[<<"columns", i, f>>] = t.columns[i][f]
    BY DEF tableLeaves
  <2>4. a[<<"columns", i, f>>] \in Scalars
    BY <2>2, <2>3
  <2> QED BY <2>1, <2>4 DEF Paths, columnPaths
<1>3. a = [p \in DOMAIN a |-> a[p]]
  BY DEF tableLeaves
<1> HIDE DEF a
<1>4. ASSUME NEW p \in DOMAIN a PROVE p \in Paths /\ a[p] \in Scalars
  <2>1. PICK i \in DOMAIN t.columns, f \in {"name", "type"} : p = <<"columns", i, f>>
    BY <1>1
  <2> QED BY <1>2, <2>1
<1>5. IsRow(a)
  BY <1>3, <1>4 DEF IsRow
<1> QED BY <1>5 DEF a

LEMMA PlainLeaves ==
    ASSUME NEW x, NEW names,
           names \subseteq {"engine", "region", "role", "displayName", "currency", "plan"},
           \A f \in names : x[f] \in Scalars
    PROVE  IsRow(leaves(x, names))
<1> DEFINE a == leaves(x, names)
<1>1. /\ DOMAIN a = {<<f>> : f \in names}
      /\ a = [p \in DOMAIN a |-> a[p]]
      /\ \A p \in DOMAIN a : a[p] = x[p[1]]
  BY DEF leaves
<1> HIDE DEF a
<1>2. ASSUME NEW p \in DOMAIN a PROVE p \in Paths /\ a[p] \in Scalars
  <2>1. PICK f \in names : p = <<f>>
    BY <1>1
  <2>2. a[p] = x[f]
    BY <1>1, <2>1
  <2> QED BY <2>1, <2>2 DEF Paths
<1>3. IsRow(a)
  BY <1>1, <1>2 DEF IsRow
<1> QED BY <1>3 DEF a

\* What the document declares under a key, with what it depends on.
Declared(spec, k, res) ==
    \/ \E d \in elements(spec.databases) :
         k = databaseKey(d.name) /\ res = resource(databaseLeaves(d), {})
    \/ \E d \in elements(spec.databases) : \E t \in elements(d.tables) :
         k = tableKey(d.name, t.name) /\ res = resource(tableLeaves(t), {databaseKey(d.name)})
    \/ \E u \in elements(spec.users) :
         k = userKey(u.name) /\ res = resource(userLeaves(u), {})
    \/ \E s \in elements(spec.subscriptions) :
         k = subscriptionKey(s.user) /\ res = subscription(s)

LEMMA ResourcesDeclared ==
    ASSUME NEW spec
    PROVE  /\ \A x \in resources(spec) : x = <<x[1], x[2]>> /\ Declared(spec, x[1], x[2])
           /\ \A k, res : Declared(spec, k, res) => <<k, res>> \in resources(spec)
<1>1. ASSUME NEW x \in resources(spec) PROVE x = <<x[1], x[2]>> /\ Declared(spec, x[1], x[2])
  <2>1. CASE x \in {<<databaseKey(d.name), resource(databaseLeaves(d), {})>> :
                        d \in elements(spec.databases)}
    BY <2>1 DEF Declared
  <2>2. CASE x \in {<<tableKey(y[1], y[2].name), resource(tableLeaves(y[2]), {databaseKey(y[1])})>> :
                        y \in tablesOf(spec)}
    <3>1. PICK y \in tablesOf(spec) :
            x = <<tableKey(y[1], y[2].name), resource(tableLeaves(y[2]), {databaseKey(y[1])})>>
      BY <2>2
    <3>2. PICK d \in elements(spec.databases) : \E t \in elements(d.tables) : y = <<d.name, t>>
      BY DEF tablesOf
    <3>3. PICK t \in elements(d.tables) : y = <<d.name, t>>
      BY <3>2
    <3>4. x = <<tableKey(d.name, t.name), resource(tableLeaves(t), {databaseKey(d.name)})>>
      BY <3>1, <3>3
    <3> QED BY <3>4 DEF Declared
  <2>3. CASE x \in {<<userKey(u.name), resource(userLeaves(u), {})>> : u \in elements(spec.users)}
    BY <2>3 DEF Declared
  <2>4. CASE x \in {<<subscriptionKey(s.user), subscription(s)>> : s \in elements(spec.subscriptions)}
    BY <2>4 DEF Declared
  <2> QED BY <2>1, <2>2, <2>3, <2>4 DEF resources
<1>2. ASSUME NEW k, NEW res, Declared(spec, k, res) PROVE <<k, res>> \in resources(spec)
  <2>1. CASE \E d \in elements(spec.databases) : \E t \in elements(d.tables) :
               k = tableKey(d.name, t.name) /\ res = resource(tableLeaves(t), {databaseKey(d.name)})
    <3>1. PICK d \in elements(spec.databases) : \E t \in elements(d.tables) :
               k = tableKey(d.name, t.name) /\ res = resource(tableLeaves(t), {databaseKey(d.name)})
      BY <2>1
    <3>2. PICK t \in elements(d.tables) :
               k = tableKey(d.name, t.name) /\ res = resource(tableLeaves(t), {databaseKey(d.name)})
      BY <3>1
    <3> DEFINE y == <<d.name, t>>
    <3>3. y \in tablesOf(spec) /\ y[1] = d.name /\ y[2] = t
      BY DEF tablesOf
    <3> HIDE DEF y
    <3>4. <<k, res>> = <<tableKey(y[1], y[2].name), resource(tableLeaves(y[2]), {databaseKey(y[1])})>>
      BY <3>2, <3>3
    <3> QED BY <3>3, <3>4 DEF resources
  <2> QED BY <1>2, <2>1 DEF Declared, resources
<1> QED BY <1>1, <1>2

LEMMA Projected ==
    ASSUME NEW spec
    PROVE  /\ \A k \in DOMAIN projectSpec(spec) : Declared(spec, k, projectSpec(spec)[k])
           /\ \A k, res : Declared(spec, k, res) => k \in DOMAIN projectSpec(spec)
<1>1. DOMAIN projectSpec(spec) = {x[1] : x \in resources(spec)}
  BY DEF projectSpec
<1>2. ASSUME NEW k \in DOMAIN projectSpec(spec)
      PROVE  Declared(spec, k, projectSpec(spec)[k])
  <2> DEFINE x == CHOOSE x \in resources(spec) : x[1] = k
  <2>1. \E y \in resources(spec) : y[1] = k
    BY <1>1
  <2>2. x \in resources(spec) /\ x[1] = k
    BY <2>1
  <2>3. projectSpec(spec)[k] = x[2]
    BY <1>1 DEF projectSpec
  <2> HIDE DEF x
  <2> QED BY <2>2, <2>3, ResourcesDeclared
<1>3. ASSUME NEW k, NEW res, Declared(spec, k, res) PROVE k \in DOMAIN projectSpec(spec)
  <2>1. <<k, res>> \in resources(spec)
    BY <1>3, ResourcesDeclared
  <2>2. <<k, res>>[1] = k
    OBVIOUS
  <2> QED BY <1>1, <2>1, <2>2
<1> QED BY <1>2, <1>3

IsResource(res) ==
    /\ res = [attributes |-> res.attributes, dependsOn |-> res.dependsOn]
    /\ IsRow(res.attributes) /\ res.dependsOn \subseteq Keys

LEMMA DeclaredType ==
    ASSUME NEW spec, IsSpec(spec), NEW k, NEW res, Declared(spec, k, res)
    PROVE  k \in Keys /\ IsResource(res)
<1>1. ASSUME NEW d \in elements(spec.databases),
             k = databaseKey(d.name), res = resource(databaseLeaves(d), {})
      PROVE  k \in Keys /\ IsResource(res)
  <2>1. d.name \in Names /\ d.engine \in Scalars /\ d.region \in Scalars
    BY DEF IsSpec
  <2>2. IsRow(databaseLeaves(d))
    BY <2>1, PlainLeaves DEF databaseLeaves
  <2> QED BY <1>1, <2>1, <2>2 DEF IsResource, resource, Keys
<1>2. ASSUME NEW d \in elements(spec.databases), NEW t \in elements(d.tables),
             k = tableKey(d.name, t.name),
             res = resource(tableLeaves(t), {databaseKey(d.name)})
      PROVE  k \in Keys /\ IsResource(res)
  <2>1. d.name \in Names /\ IsTable(t)
    BY DEF IsSpec
  <2>2. IsRow(tableLeaves(t)) /\ t.name \in Names
    BY <2>1, TableLeaves DEF IsTable
  <2> QED BY <1>2, <2>1, <2>2 DEF IsResource, resource, Keys
<1>3. ASSUME NEW u \in elements(spec.users), k = userKey(u.name),
             res = resource(userLeaves(u), {})
      PROVE  k \in Keys /\ IsResource(res)
  <2>1. u.name \in Names /\ u.role \in Scalars /\ u.displayName \in Scalars
    BY <1>3 DEF IsSpec
  <2>2. IsRow(userLeaves(u))
    BY <2>1, PlainLeaves DEF userLeaves
  <2> QED BY <1>3, <2>1, <2>2 DEF IsResource, resource, Keys
<1>4. ASSUME NEW s \in elements(spec.subscriptions), k = subscriptionKey(s.user),
             res = subscription(s)
      PROVE  k \in Keys /\ IsResource(res)
  <2>1. s.user \in Names /\ s.plan \in Scalars /\ s.currency \in Scalars
    BY <1>4 DEF IsSpec
  <2>2. IsRow(subscriptionLeaves(s))
    BY <2>1, PlainLeaves DEF subscriptionLeaves
  <2> QED BY <1>4, <2>1, <2>2 DEF IsResource, resource, subscription, Keys
<1> QED BY <1>1, <1>2, <1>3, <1>4 DEF Declared

-----------------------------------------------------------------------------
(***************************************************************************)
(* Plans                                                                   *)
(***************************************************************************)
\* The table of the backend as it may be, and its projection.
IsWorld(w) == DOMAIN w \subseteq Keys /\ \A k \in DOMAIN w : IsRow(w[k])

asStored(w) == [k \in DOMAIN w |-> resource(w[k], {})]

document(r) == projectSpec(Spec[r])

compared(r, w) == Engine!computeChanges(document(r), asStored(w), Options[r])

planOf(r, w) == [k \in DOMAIN compared(r, w) |-> refined(compared(r, w)[k])]

\* What validate asks of a document whatever is stored, and what it compares
\* with a world.
references(spec) ==
    \A s \in elements(spec.subscriptions) : \E u \in elements(spec.users) : u.name = s.user

fixedTerms(spec, w) ==
    /\ \A d \in elements(spec.databases) :
         databaseKey(d.name) \in DOMAIN w => w[databaseKey(d.name)][<<"engine">>] = d.engine
    /\ \A s \in elements(spec.subscriptions) :
         subscriptionKey(s.user) \in DOMAIN w =>
             w[subscriptionKey(s.user)][<<"currency">>] = s.currency

LEMMA DocumentType ==
    ASSUME NEW r \in Runs
    PROVE  /\ DOMAIN document(r) \subseteq Keys
           /\ \A k \in DOMAIN document(r) : /\ Declared(Spec[r], k, document(r)[k])
                                            /\ IsResource(document(r)[k])
<1>1. IsSpec(Spec[r])
  BY SpecAssumption
<1> QED BY <1>1, Projected, DeclaredType DEF document

LEMMA StoredType ==
    ASSUME NEW w, IsWorld(w)
    PROVE  /\ DOMAIN asStored(w) = DOMAIN w /\ DOMAIN w \subseteq Keys
           /\ \A k \in DOMAIN w : IsRow(asStored(w)[k].attributes) /\ asStored(w)[k].attributes = w[k]
BY DEF asStored, IsWorld, resource

ChangeFields == {"intent", "action", "before", "after", "fields", "reversible", "destructive",
                 "dependencies", "estimatedRisk"}

\* The provider's refinement touches two fields.
LEMMA RefinedKeeps ==
    ASSUME NEW c, DOMAIN c = ChangeFields, c.reversible \in BOOLEAN, c.destructive \in BOOLEAN
    PROVE  /\ refined(c).intent = c.intent /\ refined(c).action = c.action
           /\ refined(c).before = c.before /\ refined(c).after = c.after
           /\ refined(c).fields = c.fields /\ refined(c).dependencies = c.dependencies
           /\ refined(c).estimatedRisk = c.estimatedRisk
           /\ refined(c).reversible \in BOOLEAN /\ refined(c).destructive \in BOOLEAN
<1> DEFINE e == [c EXCEPT !.destructive = TRUE, !.reversible = FALSE]
<1>1. refined(c) = c \/ refined(c) = e
  BY DEF refined
<1>2. /\ e.intent = c.intent /\ e.action = c.action
      /\ e.before = c.before /\ e.after = c.after
      /\ e.fields = c.fields /\ e.dependencies = c.dependencies
      /\ e.estimatedRisk = c.estimatedRisk
      /\ e.reversible = FALSE /\ e.destructive = TRUE
  BY DEF ChangeFields
<1> HIDE DEF e
<1>3. CASE refined(c) = c
  BY <1>3
<1>4. CASE refined(c) = e
  <2>1. e.reversible \in BOOLEAN /\ e.destructive \in BOOLEAN
    BY <1>2
  <2> QED BY <1>2, <1>4, <2>1
<1> QED BY <1>1, <1>3, <1>4

\* The intent of a change, the document and the table on either side.
intentOf(r, w, k)       == Engine!intent(document(r), asStored(w), k)
fieldsOf(r, w, k)       == Engine!fields(document(r), asStored(w), k)
dependenciesOf(r, w, k) == Engine!dependenciesFor(document(r), asStored(w), k)

LEMMA Planned ==
    ASSUME NEW r \in Runs, NEW w, IsWorld(w)
    PROVE  /\ DOMAIN planOf(r, w) = DOMAIN document(r) \cup DOMAIN w
           /\ \A k \in DOMAIN planOf(r, w) :
                /\ planOf(r, w)[k].intent = intentOf(r, w, k)
                /\ planOf(r, w)[k].action \in {"blocked", intentOf(r, w, k)}
                /\ planOf(r, w)[k].action = "delete" => k[1] = "mock.table"
                /\ planOf(r, w)[k].before = Engine!attributes(asStored(w), k)
                /\ planOf(r, w)[k].after = Engine!attributes(document(r), k)
                /\ planOf(r, w)[k].fields = fieldsOf(r, w, k)
                /\ planOf(r, w)[k].reversible \in BOOLEAN
                /\ planOf(r, w)[k].destructive \in BOOLEAN
                /\ planOf(r, w)[k].dependencies = dependenciesOf(r, w, k)
                /\ planOf(r, w)[k].estimatedRisk = "low"
<1> DEFINE C == asStored(w)
<1>1. DOMAIN compared(r, w) = DOMAIN document(r) \cup DOMAIN w
  BY StoredType DEF compared, Engine!computeChanges, Engine!planned
<1>2. ASSUME NEW k \in DOMAIN planOf(r, w)
      PROVE  /\ planOf(r, w)[k].intent = intentOf(r, w, k)
             /\ planOf(r, w)[k].action \in {"blocked", intentOf(r, w, k)}
             /\ planOf(r, w)[k].action = "delete" => k[1] = "mock.table"
             /\ planOf(r, w)[k].before = Engine!attributes(C, k)
             /\ planOf(r, w)[k].after = Engine!attributes(document(r), k)
             /\ planOf(r, w)[k].fields = fieldsOf(r, w, k)
             /\ planOf(r, w)[k].reversible \in BOOLEAN
             /\ planOf(r, w)[k].destructive \in BOOLEAN
             /\ planOf(r, w)[k].dependencies = dependenciesOf(r, w, k)
             /\ planOf(r, w)[k].estimatedRisk = "low"
  <2> DEFINE c    == compared(r, w)[k]
             what == intentOf(r, w, k)
  <2>1. k \in DOMAIN compared(r, w) /\ planOf(r, w)[k] = refined(c)
    BY DEF planOf
  <2>2. c = Engine!toPlanChange(document(r), C, Options[r], k)
    BY <2>1 DEF compared, Engine!computeChanges
  <2>3. /\ DOMAIN c = ChangeFields
        /\ c.intent = what
        /\ c.action = IF Engine!blocks(k, what, Options[r]) THEN "blocked" ELSE what
        /\ c.before = Engine!attributes(C, k) /\ c.after = Engine!attributes(document(r), k)
        /\ c.fields = fieldsOf(r, w, k)
        /\ c.reversible = Engine!isReversible(what)
        /\ c.destructive = (what \in {"delete", "replace"})
        /\ c.dependencies = dependenciesOf(r, w, k)
        /\ c.estimatedRisk = "low"
    BY <2>2 DEF Engine!toPlanChange, ChangeFields, intentOf, fieldsOf, dependenciesOf
  <2> HIDE DEF c, what
  <2>4. c.reversible \in BOOLEAN
    BY <2>3 DEF Engine!isReversible
  <2>5. c.destructive \in BOOLEAN
    BY <2>3
  <2>6. c.action = "delete" => k[1] = "mock.table"
    <3>1. SUFFICES ASSUME c.action = "delete" PROVE k[1] = "mock.table"
      OBVIOUS
    <3>2. what = "delete" /\ ~Engine!blocks(k, what, Options[r])
      BY <2>3, <3>1
    <3>3. k \in Keys
      BY <1>1, <2>1, DocumentType, StoredType
    <3>4. Engine!definition(k) = mockResourceTypes(k[1])
      BY <3>3, KeyHasType DEF Engine!definition
    <3>5. mockResourceTypes(k[1]).delete
      BY <3>2, <3>4 DEF Engine!blocks
    <3> QED BY <3>5 DEF mockResourceTypes
  <2>7. c.action \in {"blocked", what}
    BY <2>3
  <2>8. /\ refined(c).intent = c.intent /\ refined(c).action = c.action
        /\ refined(c).before = c.before /\ refined(c).after = c.after
        /\ refined(c).fields = c.fields /\ refined(c).dependencies = c.dependencies
        /\ refined(c).estimatedRisk = c.estimatedRisk
        /\ refined(c).reversible \in BOOLEAN /\ refined(c).destructive \in BOOLEAN
    BY <2>3, <2>4, <2>5, RefinedKeeps
  <2> QED BY <2>1, <2>3, <2>6, <2>7, <2>8 DEF what
<1>3. DOMAIN planOf(r, w) = DOMAIN compared(r, w)
  BY DEF planOf
<1> QED BY <1>1, <1>2, <1>3

\* What each intent says of the two sides.
LEMMA Intents ==
    ASSUME NEW r \in Runs, NEW w, IsWorld(w), NEW k \in DOMAIN planOf(r, w)
    PROVE  /\ intentOf(r, w, k) \in {"create", "update", "replace", "delete", "noop"}
           /\ intentOf(r, w, k) = "create" <=> k \notin DOMAIN w
           /\ intentOf(r, w, k) = "delete" <=> k \in DOMAIN w /\ k \notin DOMAIN document(r)
           /\ intentOf(r, w, k) = "noop" => k \in DOMAIN w /\ k \in DOMAIN document(r)
                                             /\ fieldsOf(r, w, k) = {}
           /\ intentOf(r, w, k) = "replace" => k \in DOMAIN w /\ k \in DOMAIN document(r)
                /\ Engine!immutableDiffs(k, w[k], document(r)[k].attributes) # {}
           /\ k \in DOMAIN document(r) /\ intentOf(r, w, k) # "delete" =>
                dependenciesOf(r, w, k) =
                    document(r)[k].dependsOn \cap (DOMAIN document(r) \cup DOMAIN w)
<1> DEFINE C == asStored(w)
<1>1. DOMAIN C = DOMAIN w /\ (k \in DOMAIN w => C[k].attributes = w[k])
  BY StoredType
<1>2. k \in DOMAIN document(r) \/ k \in DOMAIN w
  BY Planned
<1>3. intentOf(r, w, k) =
        CASE k \notin DOMAIN C -> "create"
          [] k \notin DOMAIN document(r) -> "delete"
          [] OTHER ->
               IF fieldsOf(r, w, k) = {} THEN "noop"
               ELSE IF Engine!immutableDiffs(k, C[k].attributes, document(r)[k].attributes) # {}
                    THEN "replace" ELSE "update"
  BY DEF intentOf, Engine!intent, fieldsOf
<1>4. dependenciesOf(r, w, k) =
        IF intentOf(r, w, k) = "delete"
        THEN {j \in DOMAIN C : intentOf(r, w, j) = "delete" /\ k \in C[j].dependsOn}
        ELSE document(r)[k].dependsOn \cap (DOMAIN document(r) \cup DOMAIN C)
  BY DEF dependenciesOf, Engine!dependenciesFor, intentOf, Engine!planned
<1> HIDE DEF C
<1>5. CASE k \notin DOMAIN C
  <2>1. intentOf(r, w, k) = "create"
    BY <1>1, <1>2, <1>3, <1>5
  <2> QED BY <1>1, <1>2, <1>4, <1>5, <2>1
<1>6. CASE k \in DOMAIN C /\ k \notin DOMAIN document(r)
  <2>1. intentOf(r, w, k) = "delete"
    BY <1>3, <1>6
  <2> QED BY <1>1, <1>4, <1>6, <2>1
<1>7. CASE k \in DOMAIN C /\ k \in DOMAIN document(r)
  <2>1. intentOf(r, w, k) =
               IF fieldsOf(r, w, k) = {} THEN "noop"
               ELSE IF Engine!immutableDiffs(k, C[k].attributes, document(r)[k].attributes) # {}
                    THEN "replace" ELSE "update"
    BY <1>3, <1>7
  <2>2. intentOf(r, w, k) \in {"noop", "replace", "update"}
    BY <2>1
  <2> QED BY <1>1, <1>4, <1>7, <2>1, <2>2
<1> QED BY <1>5, <1>6, <1>7

\* Rows may be compared: only leaves of the one or the other differ.
LEMMA FieldsType ==
    ASSUME NEW r \in Runs, NEW w, IsWorld(w), NEW k
    PROVE  fieldsOf(r, w, k) \subseteq Paths
<1>1. CASE k \in DOMAIN document(r) \cap DOMAIN w
  <2>1. IsRow(document(r)[k].attributes) /\ IsRow(w[k])
    BY <1>1, DocumentType DEF IsWorld, IsResource
  <2>2. fieldsOf(r, w, k) \subseteq DOMAIN w[k] \cup DOMAIN document(r)[k].attributes
    BY <1>1, StoredType DEF fieldsOf, Engine!fields, Engine!fieldDiffs, Engine!differing
  <2> QED BY <2>1, <2>2 DEF IsRow
<1>2. CASE k \notin DOMAIN document(r) \cap DOMAIN w
  BY <1>2, StoredType DEF fieldsOf, Engine!fields
<1> QED BY <1>1, <1>2

LEMMA PlanType ==
    ASSUME NEW r \in Runs, NEW w, IsWorld(w), NEW k \in DOMAIN planOf(r, w)
    PROVE  Engine!IsChange(planOf(r, w)[k])
<1> DEFINE c == planOf(r, w)[k]
<1>1. /\ c.intent = intentOf(r, w, k) /\ c.action \in {"blocked", intentOf(r, w, k)}
      /\ c.before = Engine!attributes(asStored(w), k)
      /\ c.after = Engine!attributes(document(r), k)
      /\ c.fields = fieldsOf(r, w, k) /\ c.dependencies = dependenciesOf(r, w, k)
      /\ c.reversible \in BOOLEAN /\ c.destructive \in BOOLEAN /\ c.estimatedRisk = "low"
      /\ DOMAIN planOf(r, w) = DOMAIN document(r) \cup DOMAIN w
  <2>1. /\ planOf(r, w)[k].intent = intentOf(r, w, k)
        /\ planOf(r, w)[k].action \in {"blocked", intentOf(r, w, k)}
    BY Planned, Zenon
  <2>2. /\ planOf(r, w)[k].before = Engine!attributes(asStored(w), k)
        /\ planOf(r, w)[k].after = Engine!attributes(document(r), k)
    BY Planned, Zenon
  <2>3. /\ planOf(r, w)[k].fields = fieldsOf(r, w, k)
        /\ planOf(r, w)[k].dependencies = dependenciesOf(r, w, k)
    BY Planned, Zenon
  <2>4. planOf(r, w)[k].reversible \in BOOLEAN /\ planOf(r, w)[k].destructive \in BOOLEAN
    BY Planned, Zenon
  <2>5. /\ planOf(r, w)[k].estimatedRisk = "low"
        /\ DOMAIN planOf(r, w) = DOMAIN document(r) \cup DOMAIN w
    BY Planned, Zenon
  <2> QED BY <2>1, <2>2, <2>3, <2>4, <2>5, Zenon
<1> HIDE DEF c
<1>2. \A a \in c.before \cup c.after : Engine!IsLeaves(a)
  <2>1. \A j \in DOMAIN w : IsRow(asStored(w)[j].attributes)
    BY StoredType
  <2>2. \A j \in DOMAIN document(r) : IsRow(document(r)[j].attributes)
    BY DocumentType DEF IsResource
  <2>3. ASSUME NEW a \in c.before PROVE IsRow(a)
    BY <1>1, <2>1, StoredType DEF Engine!attributes
  <2>4. ASSUME NEW a \in c.after PROVE IsRow(a)
    BY <1>1, <2>2 DEF Engine!attributes
  <2> QED BY <2>3, <2>4, RowIsLeaves
<1>3. c.fields \subseteq Paths
  BY <1>1, FieldsType
<1>4. c.dependencies \subseteq Keys
  <2>1. CASE intentOf(r, w, k) = "delete"
    <3>1. dependenciesOf(r, w, k) \subseteq DOMAIN asStored(w)
      BY <2>1 DEF dependenciesOf, Engine!dependenciesFor, intentOf
    <3> QED BY <1>1, <3>1, StoredType
  <2>2. CASE intentOf(r, w, k) # "delete"
    <3>1. dependenciesOf(r, w, k) \subseteq DOMAIN document(r) \cup DOMAIN asStored(w)
      BY <2>2 DEF dependenciesOf, Engine!dependenciesFor, intentOf, Engine!planned
    <3> QED BY <1>1, <3>1, StoredType, DocumentType
  <2> QED BY <2>1, <2>2
<1>5. /\ c.estimatedRisk \in Engine!Levels
      /\ c.intent \in Engine!Actions \ {"blocked"} /\ c.action \in Engine!Actions
  BY <1>1, Intents DEF Engine!Levels, Engine!Actions
<1>6. Engine!IsChange(c)
  BY <1>1, <1>2, <1>3, <1>4, <1>5 DEF Engine!IsChange
<1> QED BY <1>6 DEF c

-----------------------------------------------------------------------------
(***************************************************************************)
(* What holds of every run                                                 *)
(***************************************************************************)
InPlan == {"planned", "applying"}

Stages == Over \cup InPlan \cup {"validated"}

PlanOK(r) ==
    /\ DOMAIN run[r] = {"at", "checked", "revision", "changes", "results", "attempts"}
    /\ IsWorld(run[r].revision)
    /\ run[r].changes = planOf(r, run[r].revision)
    /\ references(Spec[r]) /\ fixedTerms(Spec[r], run[r].checked)
    /\ DOMAIN run[r].results \subseteq DOMAIN run[r].changes
    /\ \A k \in DOMAIN run[r].results : run[r].results[k] \in Results
    /\ run[r].attempts \in 0..(MaxAttempts - 1)
    /\ run[r].at = "planned" => DOMAIN run[r].results = {}

RunOK(r) ==
    /\ run[r].at \in Stages
    /\ run[r].at = "validated" => references(Spec[r]) /\ fixedTerms(Spec[r], run[r].checked)
    /\ run[r].at \in InPlan => PlanOK(r)

RunsOK ==
    /\ IsWorld(stored)
    /\ DOMAIN run = Runs
    /\ \A r \in Runs : RunOK(r)

\* What a table or a subscription waited for is there and stays there.
StandingOf(r) ==
    run[r].at \in InPlan =>
        \A k \in DOMAIN run[r].changes : k[1] # "mock.table" =>
            /\ run[r].changes[k].action = "noop" => k \in DOMAIN stored
            /\ k \in DOMAIN run[r].results =>
                 (run[r].results[k] \in {"succeeded", "noop"} => k \in DOMAIN stored)

Standing == \A r \in Runs : StandingOf(r)

\* A row holds nothing under a declared field that was not declared.
Clean(r, k, row) ==
    \A p \in DOMAIN row : p[1] \in declaredFields(Spec[r], k) => p \in DOMAIN target(r, k)

\* What a run that nothing disturbed has settled is as it left it, the rest as
\* it found it.
Settled(r, k) ==
    /\ run[r].results[k] = "noop" =>
         /\ run[r].changes[k].action = "noop"
         /\ k \in DOMAIN stored /\ stored[k] = run[r].revision[k]
    /\ run[r].results[k] = "succeeded" =>
         IF run[r].changes[k].action = "delete" THEN k \notin DOMAIN stored
         ELSE k \in DOMAIN document(r) /\ k \in DOMAIN stored /\ Clean(r, k, stored[k])

Untouched(r, k) ==
    /\ k \in DOMAIN stored <=> k \in DOMAIN run[r].revision
    /\ k \in DOMAIN stored => stored[k] = run[r].revision[k]

Progress(r) ==
    /\ DOMAIN stored \subseteq DOMAIN run[r].changes
    /\ \A k \in DOMAIN run[r].changes :
         IF k \in DOMAIN run[r].results THEN Settled(r, k) ELSE Untouched(r, k)

DoneIn(r, w) ==
    /\ DOMAIN w = DOMAIN document(r)
    /\ \A k \in DOMAIN w : \A p \in Engine!fields(document(r), asStored(w), k) :
         p[1] \notin declaredFields(Spec[r], k)

Undisturbed ==
    \A r \in Runs \ disturbed :
        /\ run[r].at = "applying" => Progress(r)
        /\ run[r].at = "verified" /\ run[r].completed /\ run[r].status = "satisfied" =>
             DoneIn(r, run[r].revision)

-----------------------------------------------------------------------------
(***************************************************************************)
(* One run                                                                 *)
(***************************************************************************)
LEMMA OneRun ==
    ASSUME RunsOK, NEW r \in Runs, NEW v, run' = [run EXCEPT ![r] = v],
           IsWorld(stored'), RunOK(r)'
    PROVE  RunsOK'
<1>1. DOMAIN run' = Runs /\ \A q \in Runs \ {r} : run'[q] = run[q]
  BY DEF RunsOK
<1>2. ASSUME NEW q \in Runs \ {r} PROVE RunOK(q)'
  BY <1>1 DEF RunsOK, RunOK, PlanOK
<1> QED BY <1>1, <1>2 DEF RunsOK, IsWorld

\* A run that settles a change is as it was but for that.
LEMMA Settling ==
    ASSUME RunsOK, NEW r \in Runs, run[r].at = "applying",
           NEW k \in DOMAIN run[r].changes, NEW result, Settle(r, k, result)
    PROVE  /\ run' = [run EXCEPT ![r] = run'[r]]
           /\ \A q \in Runs \ {r} : run'[q] = run[q]
           /\ DOMAIN run'[r] = {"at", "checked", "revision", "changes", "results", "attempts"}
           /\ run'[r].at = "applying" /\ run'[r].attempts = 0
           /\ run'[r].checked = run[r].checked /\ run'[r].revision = run[r].revision
           /\ run'[r].changes = run[r].changes
           /\ DOMAIN run'[r].results = {k} \cup DOMAIN run[r].results
           /\ run'[r].results[k] = result
           /\ \A j \in DOMAIN run[r].results \ {k} : run'[r].results[j] = run[r].results[j]
<1> DEFINE new == over(entry(k, result), run[r].results)
           v   == [run[r] EXCEPT !.results = new, !.attempts = 0]
<1>1. run' = [run EXCEPT ![r] = v]
  BY DEF Settle
<1>2. PlanOK(r) /\ DOMAIN run = Runs
  BY DEF RunsOK, RunOK, InPlan
<1>3. /\ DOMAIN new = {k} \cup DOMAIN run[r].results
      /\ new[k] = result
      /\ \A j \in DOMAIN run[r].results \ {k} : new[j] = run[r].results[j]
  BY DEF over, entry
<1> HIDE DEF new
<1>4. /\ DOMAIN v = DOMAIN run[r] /\ v.at = run[r].at /\ v.attempts = 0
      /\ v.checked = run[r].checked /\ v.revision = run[r].revision
      /\ v.changes = run[r].changes /\ v.results = new
  BY <1>2 DEF PlanOK
<1>5. run'[r] = v /\ \A q \in Runs \ {r} : run'[q] = run[q]
  BY <1>1, <1>2
<1> HIDE DEF v
<1> QED BY <1>1, <1>2, <1>3, <1>4, <1>5 DEF PlanOK

LEMMA SettledRuns ==
    ASSUME RunsOK, NEW r \in Runs, run[r].at = "applying",
           NEW k \in DOMAIN run[r].changes, NEW result \in Results, Settle(r, k, result),
           IsWorld(stored')
    PROVE  RunsOK'
<1>1. PlanOK(r)
  BY DEF RunsOK, RunOK, InPlan
<1>2. 0 \in 0..(MaxAttempts - 1)
  BY SpecAssumption
<1>3. \A j \in DOMAIN run'[r].results : run'[r].results[j] \in Results
  BY <1>1, Settling DEF PlanOK
<1>4. PlanOK(r)'
  BY <1>1, <1>2, <1>3, Settling DEF PlanOK
<1>5. RunOK(r)'
  BY <1>4, Settling DEF RunOK, InPlan, Stages
<1> QED BY <1>5, Settling, OneRun

\* What is sent: not yet settled, and of the two sides as its action says.
LEMMA Sending ==
    ASSUME RunsOK, NEW r \in Runs, NEW k, Sends(r, k)
    PROVE  /\ run[r].at = "applying" /\ PlanOK(r)
           /\ k \in DOMAIN run[r].changes /\ k \notin DOMAIN run[r].results
           /\ run[r].changes[k].action \notin {"noop", "blocked"}
           /\ run[r].changes[k].action = intentOf(r, run[r].revision, k)
           /\ run[r].changes[k].action = "delete" =>
                k[1] = "mock.table" /\ k \notin DOMAIN document(r)
           /\ run[r].changes[k].action # "delete" =>
                /\ k \in DOMAIN document(r)
                /\ run[r].changes[k].dependencies =
                     document(r)[k].dependsOn \cap DOMAIN run[r].changes
           /\ met(r, k)
           /\ run[r].changes[k].dependencies \subseteq DOMAIN run[r].results
<1> DEFINE w == run[r].revision
<1>1. /\ run[r].at = "applying" /\ k \in next(r) /\ met(r, k)
      /\ Engine!Effective(run[r].changes[k])
  BY DEF Sends
<1>2. PlanOK(r)
  BY <1>1 DEF RunsOK, RunOK, InPlan
<1>3. /\ k \in DOMAIN run[r].changes /\ k \notin DOMAIN run[r].results
      /\ run[r].changes[k].dependencies \subseteq DOMAIN run[r].results
  BY <1>1 DEF next
<1>4. IsWorld(w) /\ run[r].changes = planOf(r, w)
  BY <1>2 DEF PlanOK
<1>5. run[r].changes[k].action \notin {"noop", "blocked"}
  BY <1>1 DEF Engine!Effective
<1> HIDE DEF w
<1>6. /\ DOMAIN run[r].changes = DOMAIN document(r) \cup DOMAIN w
      /\ run[r].changes[k].action \in {"blocked", intentOf(r, w, k)}
      /\ run[r].changes[k].action = "delete" => k[1] = "mock.table"
      /\ run[r].changes[k].dependencies = dependenciesOf(r, w, k)
  <2>1. /\ DOMAIN planOf(r, w) = DOMAIN document(r) \cup DOMAIN w
        /\ \A j \in DOMAIN planOf(r, w) :
             /\ planOf(r, w)[j].action \in {"blocked", intentOf(r, w, j)}
             /\ planOf(r, w)[j].action = "delete" => j[1] = "mock.table"
             /\ planOf(r, w)[j].dependencies = dependenciesOf(r, w, j)
    BY <1>4, Planned
  <2> QED BY <1>3, <1>4, <2>1
<1>7. run[r].changes[k].action = intentOf(r, w, k)
  BY <1>5, <1>6
<1>8. /\ intentOf(r, w, k) = "delete" => k \notin DOMAIN document(r)
      /\ intentOf(r, w, k) # "delete" => k \in DOMAIN document(r)
      /\ intentOf(r, w, k) # "delete" =>
           dependenciesOf(r, w, k) = document(r)[k].dependsOn \cap DOMAIN run[r].changes
  <2>1. /\ intentOf(r, w, k) = "create" <=> k \notin DOMAIN w
        /\ intentOf(r, w, k) = "delete" <=> k \in DOMAIN w /\ k \notin DOMAIN document(r)
        /\ k \in DOMAIN document(r) /\ intentOf(r, w, k) # "delete" =>
             dependenciesOf(r, w, k) =
                 document(r)[k].dependsOn \cap (DOMAIN document(r) \cup DOMAIN w)
    BY <1>3, <1>4, Intents
  <2> QED BY <1>3, <1>6, <2>1
<1> QED BY <1>1, <1>2, <1>3, <1>5, <1>6, <1>7, <1>8 DEF w

\* What a write leaves: a row that is well formed, and of the fields the
\* document declares only what it declares.
LEMMA Writing ==
    ASSUME RunsOK, NEW r \in Runs, NEW k, Sends(r, k), run[r].changes[k].action # "delete"
    PROVE  /\ IsRow(drifted(r, k, written(r, k)))
           /\ Clean(r, k, drifted(r, k, written(r, k)))
<1> DEFINE t == target(r, k)
           e == IF run[r].changes[k].action = "create" \/ k \notin DOMAIN stored
                THEN t ELSE mergedWith(stored[k], t)
           d == drifted(r, k, e)
           F == {p[1] : p \in DOMAIN t}
<1>1. k \in DOMAIN document(r)
  BY Sending
<1>2. IsRow(t) /\ declaredFields(Spec[r], k) = F
  BY <1>1, DocumentType DEF target, document, IsResource, declaredFields
<1>3. written(r, k) = e
  BY DEF written
<1> HIDE DEF t
<1>4. IsRow(e) /\ \A p \in DOMAIN e : p[1] \in F => p \in DOMAIN t
  <2>1. CASE run[r].changes[k].action = "create" \/ k \notin DOMAIN stored
    BY <1>2, <2>1
  <2>2. CASE ~(run[r].changes[k].action = "create" \/ k \notin DOMAIN stored)
    <3> DEFINE rest == {q \in DOMAIN stored[k] : \A a \in DOMAIN t : a[1] # q[1]}
               old  == [p \in rest |-> stored[k][p]]
    <3>1. IsRow(stored[k])
      BY <2>2 DEF RunsOK, IsWorld
    <3>2. e = over(t, old)
      BY <2>2 DEF mergedWith
    <3>3. /\ DOMAIN old = rest /\ rest \subseteq DOMAIN stored[k]
          /\ \A p \in rest : old[p] = stored[k][p] /\ p[1] \notin F
      BY DEF F
    <3> HIDE DEF rest, old, e
    <3>4. /\ DOMAIN e = DOMAIN t \cup rest
          /\ \A p \in DOMAIN e : e[p] = IF p \in DOMAIN t THEN t[p] ELSE stored[k][p]
          /\ e = [p \in DOMAIN e |-> e[p]]
      BY <3>2, <3>3 DEF over
    <3>5. IsRow(e)
      BY <1>2, <3>1, <3>3, <3>4 DEF IsRow
    <3> QED BY <3>3, <3>4, <3>5
  <2> QED BY <2>1, <2>2
<1> HIDE DEF e
<1>5. CASE d = e
  BY <1>2, <1>3, <1>4, <1>5 DEF Clean, t
<1>6. CASE d # e
  <2>1. d = over(entry(<<"region">>, "drifted-region"), e)
    BY <1>6 DEF drifted
  <2>2. /\ DOMAIN d = {<<"region">>} \cup DOMAIN e
        /\ \A p \in DOMAIN d : d[p] = IF p = <<"region">> THEN "drifted-region" ELSE e[p]
        /\ d = [p \in DOMAIN d |-> d[p]]
    BY <2>1 DEF over, entry
  <2> HIDE DEF d
  <2>3. <<"region">> \in Paths
    BY DEF Paths
  <2>4. IsRow(d)
    <3>1. ASSUME NEW p \in DOMAIN d PROVE p \in Paths /\ d[p] \in Scalars
      <4>1. CASE p = <<"region">>
        <5>1. d[p] = "drifted-region" /\ p \in Paths
          BY <2>2, <2>3, <4>1
        <5>2. "drifted-region" \in Scalars
          BY SpecAssumption
        <5> QED BY <5>1, <5>2, Zenon
      <4>2. CASE p # <<"region">>
        BY <1>4, <2>2, <4>2 DEF IsRow
      <4> QED BY <4>1, <4>2
    <3> QED BY <2>2, <3>1 DEF IsRow
  <2>5. ASSUME <<"region">>[1] \in F PROVE <<"region">> \in DOMAIN t
    <3>1. PICK q \in DOMAIN t : q[1] = "region"
      BY <2>5
    <3>2. q \in Paths
      BY <1>2 DEF IsRow
    <3>3. q = <<"region">>
      BY <3>1, <3>2 DEF Paths, columnPaths
    <3> QED BY <3>3
  <2>6. \A p \in DOMAIN d : p[1] \in F => p \in DOMAIN t
    BY <1>4, <2>2, <2>5
  <2> QED BY <1>2, <1>3, <2>4, <2>6 DEF Clean, d, t
<1> QED BY <1>5, <1>6

\* The table after an upsert.
LEMMA Upserted ==
    ASSUME NEW k, NEW row, stored' = over(entry(k, row), stored)
    PROVE  /\ DOMAIN stored' = {k} \cup DOMAIN stored /\ stored'[k] = row
           /\ \A j \in DOMAIN stored \ {k} : stored'[j] = stored[j]
BY DEF over, entry

-----------------------------------------------------------------------------
(***************************************************************************)
(* Every step keeps the runs as they should be                             *)
(***************************************************************************)
LEMMA ValidFacts ==
    ASSUME NEW spec, valid(spec)
    PROVE  references(spec) /\ fixedTerms(spec, stored)
BY DEF valid, immutableViolations, references, fixedTerms

LEMMA ValidateRuns ==
    ASSUME RunsOK, NEW r \in Runs, Validate(r)
    PROVE  /\ RunsOK' /\ UNCHANGED <<stored, disturbed>>
           /\ \A q \in Runs \ {r} : run'[q] = run[q]
           /\ run'[r].at \in {"validated", "invalid"}
<1> DEFINE v == IF valid(Spec[r]) THEN [at |-> "validated", checked |-> stored]
                ELSE [at |-> "invalid"]
<1>1. run' = [run EXCEPT ![r] = v] /\ UNCHANGED <<stored, disturbed>>
  BY DEF Validate
<1>2. run'[r] = v /\ \A q \in Runs \ {r} : run'[q] = run[q]
  BY <1>1 DEF RunsOK
<1>5. run'[r].at \in {"validated", "invalid"}
  BY <1>2
<1>3. RunOK(r)'
  <2>1. CASE valid(Spec[r])
    <3>1. run'[r].at = "validated" /\ run'[r].checked = stored
      BY <1>2, <2>1
    <3> QED BY <2>1, <3>1, ValidFacts DEF RunOK, InPlan, Stages
  <2>2. CASE ~valid(Spec[r])
    <3>1. run'[r].at = "invalid"
      BY <1>2, <2>2
    <3> QED BY <3>1 DEF RunOK, InPlan, Stages, Over
  <2> QED BY <2>1, <2>2
<1>4. IsWorld(stored')
  BY <1>1 DEF RunsOK
<1> HIDE DEF v
<1> QED BY <1>1, <1>2, <1>3, <1>4, <1>5, OneRun

LEMMA PlanRuns ==
    ASSUME RunsOK, NEW r \in Runs, PlanChanges(r)
    PROVE  /\ RunsOK' /\ UNCHANGED <<stored, disturbed>>
           /\ \A q \in Runs \ {r} : run'[q] = run[q]
           /\ run'[r].at = "planned" /\ run'[r].revision = stored
           /\ run'[r].changes = planOf(r, stored) /\ run'[r].results = <<>>
<1> DEFINE v == [at |-> "planned", checked |-> run[r].checked, revision |-> stored,
                 changes |-> planOf(r, stored), results |-> <<>>, attempts |-> 0]
<1>1. run[r].at = "validated" /\ UNCHANGED <<stored, disturbed>>
  BY DEF PlanChanges
<1>2. run' = [run EXCEPT ![r] = v]
  <2>1. compared(r, stored) = Engine!computeChanges(projectSpec(Spec[r]), projectStored, Options[r])
    BY DEF compared, document, asStored, projectStored
  <2> QED BY <2>1 DEF PlanChanges, planOf, revision
<1>3. run'[r] = v /\ \A q \in Runs \ {r} : run'[q] = run[q]
  BY <1>2 DEF RunsOK
<1>4. /\ DOMAIN v = {"at", "checked", "revision", "changes", "results", "attempts"}
      /\ v.at = "planned" /\ v.checked = run[r].checked /\ v.revision = stored
      /\ v.changes = planOf(r, stored) /\ v.results = <<>> /\ v.attempts = 0
  OBVIOUS
<1> HIDE DEF v
<1>5. references(Spec[r]) /\ fixedTerms(Spec[r], run[r].checked)
  BY <1>1 DEF RunsOK, RunOK
<1>6. 0 \in 0..(MaxAttempts - 1) /\ DOMAIN <<>> = {}
  BY SpecAssumption
<1>7. PlanOK(r)'
  BY <1>3, <1>4, <1>5, <1>6 DEF PlanOK, RunsOK
<1>8. RunOK(r)'
  BY <1>3, <1>4, <1>7 DEF RunOK, InPlan, Stages
<1>9. IsWorld(stored')
  BY <1>1 DEF RunsOK
<1> QED BY <1>1, <1>2, <1>3, <1>4, <1>8, <1>9, OneRun

LEMMA DriftRuns ==
    ASSUME RunsOK, NEW r \in Runs, AssertNoDrift(r)
    PROVE  /\ RunsOK' /\ UNCHANGED <<stored, disturbed>>
           /\ \A q \in Runs \ {r} : run'[q] = run[q]
           /\ run'[r].at \in {"applying", "drifted"}
           /\ run'[r].at = "applying" =>
                /\ run[r].at = "planned" /\ run[r].revision = stored /\ PlanOK(r)
                /\ run'[r].changes = run[r].changes /\ run'[r].results = run[r].results
                /\ run'[r].revision = run[r].revision
<1> DEFINE v == IF revision = run[r].revision THEN [run[r] EXCEPT !.at = "applying"]
                ELSE [at |-> "drifted"]
<1>1. /\ run' = [run EXCEPT ![r] = v] /\ UNCHANGED <<stored, disturbed>>
      /\ run[r].at = "planned"
  BY DEF AssertNoDrift
<1>2. run'[r] = v /\ \A q \in Runs \ {r} : run'[q] = run[q]
  BY <1>1 DEF RunsOK
<1>3. PlanOK(r)
  BY <1>1 DEF RunsOK, RunOK, InPlan
<1>4. IsWorld(stored')
  BY <1>1 DEF RunsOK
<1>5. CASE revision = run[r].revision
  <2>1. /\ DOMAIN v = DOMAIN run[r] /\ v.at = "applying"
        /\ v.checked = run[r].checked /\ v.revision = run[r].revision
        /\ v.changes = run[r].changes /\ v.results = run[r].results
        /\ v.attempts = run[r].attempts
    BY <1>3, <1>5 DEF PlanOK
  <2> HIDE DEF v
  <2>2. PlanOK(r)'
    BY <1>2, <1>3, <2>1 DEF PlanOK
  <2>3. RunOK(r)'
    BY <1>2, <2>1, <2>2 DEF RunOK, InPlan, Stages
  <2>4. RunsOK'
    BY <1>1, <1>4, <2>3, OneRun
  <2> QED BY <1>1, <1>2, <1>3, <1>5, <2>1, <2>4 DEF revision
<1>6. CASE revision # run[r].revision
  <2>1. v.at = "drifted"
    BY <1>6
  <2> HIDE DEF v
  <2>2. RunOK(r)'
    BY <1>2, <2>1 DEF RunOK, InPlan, Stages, Over
  <2> QED BY <1>1, <1>2, <1>4, <2>1, <2>2, OneRun
<1> QED BY <1>5, <1>6

LEMMA VerifyRuns ==
    ASSUME RunsOK, NEW r \in Runs, Verify(r)
    PROVE  /\ RunsOK' /\ UNCHANGED <<stored, disturbed>>
           /\ \A q \in Runs \ {r} : run'[q] = run[q]
           /\ run'[r].at = "verified" /\ run'[r].revision = stored
           /\ run[r].at = "applying" /\ DOMAIN run[r].results = DOMAIN run[r].changes
           /\ run'[r].completed =>
                \A k \in DOMAIN run[r].results : run[r].results[k] \in {"succeeded", "noop"}
           /\ run'[r].status = Engine!verifyDesiredState(document(r), asStored(stored))
<1> DEFINE c == \A k \in DOMAIN run[r].results : run[r].results[k] \in {"succeeded", "noop"}
           s == Engine!verifyDesiredState(document(r), asStored(stored))
           v == [at |-> "verified", revision |-> stored, completed |-> c, status |-> s]
<1>1. /\ UNCHANGED <<stored, disturbed>>
      /\ run[r].at = "applying" /\ DOMAIN run[r].results = DOMAIN run[r].changes
  BY DEF Verify
<1>2. run' = [run EXCEPT ![r] = v]
  <2>1. projectStored = asStored(stored)
    BY DEF asStored, projectStored
  <2> QED BY <2>1, Zenon DEF Verify, document, revision
<1>3. run'[r] = v /\ \A q \in Runs \ {r} : run'[q] = run[q]
  BY <1>2 DEF RunsOK
<1> HIDE DEF c, s
<1>4. v.at = "verified" /\ v.revision = stored /\ v.status = s
  OBVIOUS
<1>5. v.completed = c
  BY Zenon
<1> HIDE DEF v
<1>6. RunOK(r)'
  BY <1>3, <1>4 DEF RunOK, InPlan, Stages, Over
<1>7. IsWorld(stored')
  BY <1>1 DEF RunsOK
<1>8. RunsOK'
  BY <1>2, <1>6, <1>7, OneRun
<1>9. run'[r].completed => c
  BY <1>3, <1>5, Zenon
<1> QED BY <1>1, <1>3, <1>4, <1>8, <1>9 DEF c, s

\* Of the ways to go on with a change each settles it, or tries it again.
LEMMA FailureRuns ==
    ASSUME RunsOK, NEW r \in Runs, NEW k \in DOMAIN run[r].changes, SimulateFailure(r, k)
    PROVE  /\ RunsOK' /\ UNCHANGED <<stored, disturbed>>
           /\ \/ Settle(r, k, "failed")
              \/ /\ \A q \in Runs \ {r} : run'[q] = run[q]
                 /\ run'[r].at = "applying"
                 /\ run'[r].changes = run[r].changes /\ run'[r].results = run[r].results
                 /\ run'[r].revision = run[r].revision
<1>1. run[r].at = "applying" /\ UNCHANGED <<stored, disturbed>>
  BY DEF SimulateFailure, Sends
<1>2. PlanOK(r) /\ IsWorld(stored')
  BY <1>1 DEF RunsOK, RunOK, InPlan
<1>3. CASE Settle(r, k, "failed")
  <2>1. "failed" \in Results
    BY DEF Results
  <2> QED BY <1>1, <1>2, <1>3, <2>1, SettledRuns
<1>4. CASE ~Settle(r, k, "failed")
  <2> DEFINE v == [run[r] EXCEPT !.attempts = run[r].attempts + 1]
  <2>1. run' = [run EXCEPT ![r] = v] /\ run[r].attempts + 1 < MaxAttempts
    BY <1>4 DEF SimulateFailure
  <2>2. run'[r] = v /\ \A q \in Runs \ {r} : run'[q] = run[q]
    BY <2>1 DEF RunsOK
  <2>3. /\ DOMAIN v = DOMAIN run[r] /\ v.at = run[r].at
        /\ v.checked = run[r].checked /\ v.revision = run[r].revision
        /\ v.changes = run[r].changes /\ v.results = run[r].results
        /\ v.attempts = run[r].attempts + 1
    BY <1>2 DEF PlanOK
  <2> HIDE DEF v
  <2>4. v.attempts \in 0..(MaxAttempts - 1)
    BY <1>2, <2>1, <2>3, SpecAssumption DEF PlanOK
  <2>5. PlanOK(r)'
    BY <1>1, <1>2, <2>2, <2>3, <2>4 DEF PlanOK
  <2>6. RunOK(r)'
    BY <1>1, <2>2, <2>3, <2>5 DEF RunOK, InPlan, Stages
  <2> QED BY <1>1, <1>2, <2>1, <2>2, <2>3, <2>6, OneRun
<1> QED BY <1>3, <1>4

LEMMA PassOverRuns ==
    ASSUME RunsOK, NEW r \in Runs, NEW k \in DOMAIN run[r].changes, PassOver(r, k)
    PROVE  /\ RunsOK' /\ UNCHANGED <<stored, disturbed>>
           /\ run[r].at = "applying" /\ k \notin DOMAIN run[r].results
           /\ \/ run[r].changes[k].action = "blocked" /\ Settle(r, k, "blocked")
              \/ run[r].changes[k].action = "noop" /\ Settle(r, k, "noop")
              \/ Settle(r, k, "unmet")
<1>1. /\ run[r].at = "applying" /\ k \in next(r) /\ UNCHANGED <<stored, disturbed>>
      /\ \/ run[r].changes[k].action = "blocked" /\ Settle(r, k, "blocked")
         \/ run[r].changes[k].action = "noop" /\ Settle(r, k, "noop")
         \/ Settle(r, k, "unmet")
  BY DEF PassOver
<1>2. k \notin DOMAIN run[r].results
  BY <1>1 DEF next
<1>3. {"blocked", "noop", "unmet"} \subseteq Results /\ IsWorld(stored')
  BY <1>1 DEF Results, RunsOK
<1>4. RunsOK'
  BY <1>1, <1>3, SettledRuns
<1> QED BY <1>1, <1>2, <1>4

LEMMA DeleteRuns ==
    ASSUME RunsOK, NEW r \in Runs, NEW k \in DOMAIN run[r].changes, Delete(r, k)
    PROVE  /\ RunsOK' /\ Sends(r, k) /\ Disturb(r)
           /\ run[r].changes[k].action = "delete" /\ k[1] = "mock.table"
           /\ DOMAIN stored' = DOMAIN stored \ {k}
           /\ \A j \in DOMAIN stored \ {k} : stored'[j] = stored[j]
           /\ Settle(r, k, "succeeded") \/ Settle(r, k, "failed")
<1>1. /\ Sends(r, k) /\ Disturb(r) /\ run[r].changes[k].action = "delete"
      /\ stored' = [j \in DOMAIN stored \ {k} |-> stored[j]]
      /\ Settle(r, k, "succeeded") \/ Settle(r, k, "failed")
  BY DEF Delete
<1>2. /\ DOMAIN stored' = DOMAIN stored \ {k}
      /\ \A j \in DOMAIN stored \ {k} : stored'[j] = stored[j]
  BY <1>1
<1>3. IsWorld(stored') /\ {"succeeded", "failed"} \subseteq Results
  BY <1>2 DEF RunsOK, IsWorld, Results
<1>4. run[r].at = "applying" /\ k[1] = "mock.table"
  BY <1>1, Sending
<1>5. RunsOK'
  BY <1>1, <1>3, <1>4, SettledRuns
<1> QED BY <1>1, <1>2, <1>4, <1>5

LEMMA UpsertRuns ==
    ASSUME RunsOK, NEW r \in Runs, NEW k \in DOMAIN run[r].changes, Upsert(r, k)
    PROVE  /\ RunsOK' /\ Sends(r, k) /\ Disturb(r)
           /\ run[r].changes[k].action # "delete"
           /\ DOMAIN stored' = {k} \cup DOMAIN stored /\ Clean(r, k, stored'[k])
           /\ \A j \in DOMAIN stored \ {k} : stored'[j] = stored[j]
           /\ Settle(r, k, "succeeded")
<1> DEFINE row == drifted(r, k, written(r, k))
<1>1. /\ Sends(r, k) /\ Disturb(r) /\ run[r].changes[k].action # "delete"
      /\ stored' = over(entry(k, row), stored)
      /\ Settle(r, k, "succeeded")
  BY DEF Upsert
<1>2. IsRow(row) /\ Clean(r, k, row)
  BY <1>1, Writing
<1> HIDE DEF row
<1>3. /\ DOMAIN stored' = {k} \cup DOMAIN stored /\ stored'[k] = row
      /\ \A j \in DOMAIN stored \ {k} : stored'[j] = stored[j]
  BY <1>1, Upserted
<1>4. k \in Keys
  <2>1. k \in DOMAIN document(r)
    BY <1>1, Sending
  <2> QED BY <2>1, DocumentType
<1>5. IsWorld(stored') /\ "succeeded" \in Results
  <2>1. \A j \in DOMAIN stored' : j \in Keys /\ IsRow(stored'[j])
    BY <1>2, <1>3, <1>4 DEF RunsOK, IsWorld
  <2> QED BY <2>1 DEF IsWorld, Results
<1>6. run[r].at = "applying"
  BY <1>1, Sending
<1>7. RunsOK'
  BY <1>1, <1>5, <1>6, SettledRuns
<1>8. Clean(r, k, stored'[k])
  BY <1>2, <1>3
<1> QED BY <1>1, <1>3, <1>7, <1>8

LEMMA NextRuns == RunsOK /\ [Next]_vars => RunsOK'
<1> SUFFICES ASSUME RunsOK, [Next]_vars PROVE RunsOK'
  OBVIOUS
<1>1. ASSUME NEW r \in Runs,
             Validate(r) \/ PlanChanges(r) \/ AssertNoDrift(r) \/ Verify(r)
      PROVE  RunsOK'
  BY <1>1, ValidateRuns, PlanRuns, DriftRuns, VerifyRuns
<1>2. ASSUME NEW r \in Runs, NEW k \in DOMAIN run[r].changes,
             PassOver(r, k) \/ SimulateFailure(r, k) \/ Delete(r, k) \/ Upsert(r, k)
      PROVE  RunsOK'
  BY <1>2, PassOverRuns, FailureRuns, DeleteRuns, UpsertRuns
<1>3. CASE UNCHANGED vars
  BY <1>3 DEF vars, RunsOK, RunOK, PlanOK, IsWorld
<1> QED BY <1>1, <1>2, <1>3 DEF Next

LEMMA InitRuns == Init => RunsOK
<1> SUFFICES ASSUME Init PROVE RunsOK
  OBVIOUS
<1>1. IsWorld(stored)
  BY DEF Init, IsWorld
<1>2. ASSUME NEW r \in Runs PROVE RunOK(r)
  BY DEF Init, Idle, RunOK, InPlan, Stages, Over
<1> QED BY <1>1, <1>2 DEF Init, RunsOK

\* What is stored are rows of the types with leaves their schema knows, a plan
\* holds well-formed changes, and what is settled of it is in it (MockBackend,
\* projectSpec, plan, applyChange).
THEOREM TypeCorrect == MockSpec => []TypeOK
<1>1. RunsOK => TypeOK
  <2> SUFFICES ASSUME RunsOK PROVE TypeOK
    OBVIOUS
  <2>1. DOMAIN stored \subseteq Keys /\ \A k \in DOMAIN stored : Engine!IsLeaves(stored[k])
    BY RowIsLeaves DEF RunsOK, IsWorld
  <2>2. ASSUME NEW r \in Runs, run[r].at \in InPlan
        PROVE  /\ \A k \in DOMAIN run[r].changes : Engine!IsChange(run[r].changes[k])
               /\ DOMAIN run[r].results \subseteq DOMAIN run[r].changes
               /\ \A k \in DOMAIN run[r].results : run[r].results[k] \in Results
               /\ run[r].attempts \in 0..(MaxAttempts - 1)
    <3>1. PlanOK(r)
      BY <2>2 DEF RunsOK, RunOK
    <3>2. \A k \in DOMAIN planOf(r, run[r].revision) :
              Engine!IsChange(planOf(r, run[r].revision)[k])
      BY <3>1, PlanType DEF PlanOK
    <3> QED BY <3>1, <3>2 DEF PlanOK
  <2> QED BY <2>1, <2>2 DEF TypeOK, InPlan
<1> QED BY <1>1, InitRuns, NextRuns, PTL DEF MockSpec

-----------------------------------------------------------------------------
(***************************************************************************)
(* Replacements are foretold                                               *)
(***************************************************************************)
\* What a replacement has to differ in.
LEMMA Replaced ==
    ASSUME NEW r \in Runs, NEW w, IsWorld(w), NEW k \in DOMAIN planOf(r, w),
           planOf(r, w)[k].intent = "replace"
    PROVE  /\ k \in DOMAIN w /\ k \in DOMAIN document(r)
           /\ \E p \in mockResourceTypes(k[1]).immutable :
                /\ p \in DOMAIN w[k] /\ p \in DOMAIN document(r)[k].attributes
                /\ w[k][p] # document(r)[k].attributes[p]
<1> DEFINE a == w[k]
           b == document(r)[k].attributes
<1>1. intentOf(r, w, k) = "replace"
  BY Planned
<1>2. k \in DOMAIN w /\ k \in DOMAIN document(r) /\ Engine!immutableDiffs(k, a, b) # {}
  BY <1>1, Intents
<1> HIDE DEF a, b
<1>3. PICK p \in Engine!immutableDiffs(k, a, b) : TRUE
  BY <1>2
<1>4. k \in Keys
  BY <1>2, DocumentType
<1>5. Engine!definition(k) = mockResourceTypes(k[1])
  BY <1>4, KeyHasType DEF Engine!definition
<1>6. /\ p \in Engine!definition(k).immutable /\ p \in DOMAIN a /\ p \in DOMAIN b
      /\ Engine!at(a, p) # Engine!at(b, p)
  BY <1>3 DEF Engine!immutableDiffs, Engine!fieldDiffs, Engine!differing
<1>7. p \in mockResourceTypes(k[1]).immutable /\ p \in DOMAIN a /\ p \in DOMAIN b /\ a[p] # b[p]
  BY <1>5, <1>6 DEF Engine!at
<1> QED BY <1>2, <1>7 DEF a, b

LEMMA Fixed ==
    ASSUME NEW r \in Runs, NEW w, IsWorld(w), fixedTerms(Spec[r], w),
           NEW k \in DOMAIN planOf(r, w), planOf(r, w)[k].intent = "replace"
    PROVE  k[1] = "mock.table"
<1> DEFINE spec == Spec[r]
<1>1. PICK p \in mockResourceTypes(k[1]).immutable :
          /\ k \in DOMAIN w /\ k \in DOMAIN document(r)
          /\ w[k][p] # document(r)[k].attributes[p]
  BY Replaced
<1>2. Declared(spec, k, document(r)[k])
  BY <1>1, DocumentType
<1> DEFINE res == document(r)[k]
<1> HIDE DEF res
<1>3. ASSUME NEW d \in elements(spec.databases),
             k = databaseKey(d.name), res = resource(databaseLeaves(d), {})
      PROVE  FALSE
  <2>1. p = <<"engine">>
    BY <1>3, KeysDiffer DEF mockResourceTypes
  <2>2. res.attributes[<<"engine">>] = d.engine
    BY <1>3, LeavesOf DEF resource, databaseLeaves
  <2>3. w[k][<<"engine">>] = d.engine
    BY <1>1, <1>3 DEF fixedTerms
  <2> QED BY <1>1, <2>1, <2>2, <2>3 DEF res
<1>4. ASSUME NEW s \in elements(spec.subscriptions),
             k = subscriptionKey(s.user), res = subscription(s)
      PROVE  FALSE
  <2>1. p = <<"currency">>
    BY <1>4, KeysDiffer DEF mockResourceTypes
  <2>2. res.attributes[<<"currency">>] = s.currency
    BY <1>4, LeavesOf DEF resource, subscription, subscriptionLeaves
  <2>3. w[k][<<"currency">>] = s.currency
    BY <1>1, <1>4 DEF fixedTerms
  <2> QED BY <1>1, <2>1, <2>2, <2>3 DEF res
<1>5. ASSUME NEW u \in elements(spec.users), k = userKey(u.name) PROVE FALSE
  <2>1. mockResourceTypes(k[1]).immutable = {}
    BY <1>5, KeysDiffer DEF mockResourceTypes
  <2> QED BY <2>1
<1>6. ASSUME NEW d \in elements(spec.databases), NEW t \in elements(d.tables),
             k = tableKey(d.name, t.name)
      PROVE  k[1] = "mock.table"
  BY <1>6, KeysDiffer
<1> QED BY <1>2, <1>3, <1>4, <1>5, <1>6 DEF Declared, res

\* A run that plans the world it validated replaces tables only: validate
\* refuses a document that asks for another engine or another currency, and the
\* types say of nothing else that it cannot change (#immutableViolations).
THEOREM FixedTermsAreForetoldAlways == MockSpec => []FixedTermsAreForetold
<1>1. RunsOK => FixedTermsAreForetold
  <2> SUFFICES ASSUME RunsOK, NEW r \in Runs, run[r].at \in {"planned", "applying"},
                      run[r].checked = run[r].revision,
                      NEW k \in DOMAIN run[r].changes, run[r].changes[k].intent = "replace"
               PROVE  k[1] = "mock.table"
    BY DEF FixedTermsAreForetold
  <2>1. PlanOK(r)
    BY DEF RunsOK, RunOK, InPlan
  <2> QED BY <2>1, Fixed DEF PlanOK
<1> QED BY <1>1, InitRuns, NextRuns, PTL DEF MockSpec

-----------------------------------------------------------------------------
(***************************************************************************)
(* Nothing is stored without what it depends on                            *)
(***************************************************************************)
\* Only tables go away.
Grows == \A k \in DOMAIN stored : k[1] # "mock.table" => k \in DOMAIN stored'

LEMMA StandingStays ==
    ASSUME NEW q \in Runs, StandingOf(q), run'[q] = run[q], Grows
    PROVE  StandingOf(q)'
BY DEF StandingOf, Grows

LEMMA SettlingStands ==
    ASSUME RunsOK, NEW r \in Runs, StandingOf(r), run[r].at = "applying",
           NEW k \in DOMAIN run[r].changes, NEW result, Settle(r, k, result), Grows,
           k[1] # "mock.table" /\ result \in {"succeeded", "noop"} => k \in DOMAIN stored'
    PROVE  StandingOf(r)'
<1>1. /\ run'[r].changes = run[r].changes
      /\ DOMAIN run'[r].results = {k} \cup DOMAIN run[r].results
      /\ run'[r].results[k] = result
      /\ \A j \in DOMAIN run[r].results \ {k} : run'[r].results[j] = run[r].results[j]
  BY Settling
<1>2. ASSUME NEW j \in DOMAIN run[r].changes, j[1] # "mock.table"
      PROVE  /\ run[r].changes[j].action = "noop" => j \in DOMAIN stored'
             /\ j \in DOMAIN run'[r].results =>
                  (run'[r].results[j] \in {"succeeded", "noop"} => j \in DOMAIN stored')
  <2>1. /\ run[r].changes[j].action = "noop" => j \in DOMAIN stored
        /\ j \in DOMAIN run[r].results =>
             (run[r].results[j] \in {"succeeded", "noop"} => j \in DOMAIN stored)
    BY <1>2 DEF StandingOf, InPlan
  <2>2. j \in DOMAIN stored => j \in DOMAIN stored'
    BY <1>2 DEF Grows
  <2> QED BY <1>1, <1>2, <2>1, <2>2
<1> QED BY <1>1, <1>2 DEF StandingOf

\* Another run than the one that moves.
LEMMA OthersStand ==
    ASSUME Standing, NEW r \in Runs, \A q \in Runs \ {r} : run'[q] = run[q], Grows,
           StandingOf(r)'
    PROVE  Standing'
<1>1. \A q \in Runs \ {r} : StandingOf(q)'
  BY StandingStays DEF Standing
<1> QED BY <1>1 DEF Standing

LEMMA StageStands ==
    ASSUME RunsOK, Standing, NEW r \in Runs,
           Validate(r) \/ PlanChanges(r) \/ AssertNoDrift(r) \/ Verify(r)
    PROVE  Standing' /\ UNCHANGED stored
<1>1. CASE Validate(r)
  <2>1. /\ UNCHANGED stored /\ \A q \in Runs \ {r} : run'[q] = run[q]
        /\ run'[r].at \in {"validated", "invalid"}
    BY <1>1, ValidateRuns
  <2>2. StandingOf(r)'
    BY <2>1 DEF StandingOf, InPlan
  <2> QED BY <2>1, <2>2, OthersStand DEF Grows
<1>2. CASE PlanChanges(r)
  <2>1. /\ UNCHANGED stored /\ \A q \in Runs \ {r} : run'[q] = run[q]
        /\ run'[r].changes = planOf(r, stored) /\ run'[r].results = <<>>
    BY <1>2, PlanRuns
  <2>2. ASSUME NEW k \in DOMAIN planOf(r, stored), planOf(r, stored)[k].action = "noop"
        PROVE  k \in DOMAIN stored
    <3>1. IsWorld(stored)
      BY DEF RunsOK
    <3>2. intentOf(r, stored, k) = "noop"
      BY <2>2, <3>1, Planned
    <3> QED BY <3>1, <3>2, Intents
  <2>3. DOMAIN <<>> = {}
    OBVIOUS
  <2>4. StandingOf(r)'
    BY <2>1, <2>2, <2>3 DEF StandingOf
  <2> QED BY <2>1, <2>4, OthersStand DEF Grows
<1>3. CASE AssertNoDrift(r)
  <2>1. /\ UNCHANGED stored /\ \A q \in Runs \ {r} : run'[q] = run[q]
        /\ run'[r].at \in {"applying", "drifted"}
        /\ run'[r].at = "applying" =>
             /\ run[r].at = "planned"
             /\ run'[r].changes = run[r].changes /\ run'[r].results = run[r].results
    BY <1>3, DriftRuns
  <2>2. StandingOf(r)'
    BY <2>1 DEF Standing, StandingOf, InPlan
  <2> QED BY <2>1, <2>2, OthersStand DEF Grows
<1>4. CASE Verify(r)
  <2>1. /\ UNCHANGED stored /\ \A q \in Runs \ {r} : run'[q] = run[q]
        /\ run'[r].at = "verified"
    BY <1>4, VerifyRuns
  <2>2. StandingOf(r)'
    BY <2>1 DEF StandingOf, InPlan
  <2> QED BY <2>1, <2>2, OthersStand DEF Grows
<1> QED BY <1>1, <1>2, <1>3, <1>4

\* What a resource depends on is in the document with it.
LEMMA DependsInside ==
    ASSUME NEW r \in Runs, references(Spec[r]), NEW k \in DOMAIN document(r)
    PROVE  /\ k[1] = "mock.table" =>
                /\ databaseKey(k[2]) \in document(r)[k].dependsOn
                /\ databaseKey(k[2]) \in DOMAIN document(r)
           /\ k[1] = "mock.subscription" =>
                /\ userKey(k[2]) \in document(r)[k].dependsOn
                /\ userKey(k[2]) \in DOMAIN document(r)
<1> DEFINE res  == document(r)[k]
           spec == Spec[r]
<1>1. Declared(spec, k, res)
  BY DocumentType
<1> HIDE DEF res
<1>2. ASSUME NEW d \in elements(spec.databases), NEW t \in elements(d.tables),
             k = tableKey(d.name, t.name),
             res = resource(tableLeaves(t), {databaseKey(d.name)})
      PROVE  /\ databaseKey(k[2]) \in res.dependsOn /\ databaseKey(k[2]) \in DOMAIN document(r)
             /\ k[1] = "mock.table"
  <2>1. Declared(spec, databaseKey(d.name), resource(databaseLeaves(d), {}))
    BY DEF Declared
  <2>2. databaseKey(d.name) \in DOMAIN document(r)
    BY <2>1, Projected DEF document
  <2>3. k[1] = "mock.table" /\ k[2] = d.name
    BY <1>2, KeysDiffer
  <2> QED BY <1>2, <2>2, <2>3 DEF resource
<1>3. ASSUME NEW s \in elements(spec.subscriptions),
             k = subscriptionKey(s.user), res = subscription(s)
      PROVE  /\ userKey(k[2]) \in res.dependsOn /\ userKey(k[2]) \in DOMAIN document(r)
             /\ k[1] = "mock.subscription"
  <2>1. PICK u \in elements(spec.users) : u.name = s.user
    BY DEF references
  <2>2. Declared(spec, userKey(u.name), resource(userLeaves(u), {}))
    BY DEF Declared
  <2>3. userKey(u.name) \in DOMAIN document(r)
    BY <2>2, Projected DEF document
  <2>4. k[1] = "mock.subscription" /\ k[2] = s.user
    BY <1>3, KeysDiffer
  <2> QED BY <1>3, <2>1, <2>3, <2>4 DEF subscription, resource
<1>4. (\E d \in elements(spec.databases) : k = databaseKey(d.name)) =>
          k[1] \notin {"mock.table", "mock.subscription"}
  BY KeysDiffer
<1>5. (\E u \in elements(spec.users) : k = userKey(u.name)) =>
          k[1] \notin {"mock.table", "mock.subscription"}
  BY KeysDiffer
<1>6. "mock.table" # "mock.subscription"
  OBVIOUS
<1>7. /\ k[1] = "mock.table" =>
           databaseKey(k[2]) \in res.dependsOn /\ databaseKey(k[2]) \in DOMAIN document(r)
      /\ k[1] = "mock.subscription" =>
           userKey(k[2]) \in res.dependsOn /\ userKey(k[2]) \in DOMAIN document(r)
  BY <1>1, <1>2, <1>3, <1>4, <1>5, <1>6 DEF Declared
<1> QED BY <1>7 DEF res

\* A change is sent when what its resource depends on is stored.
LEMMA SentAfter ==
    ASSUME RunsOK, Standing, NEW r \in Runs, NEW k, Sends(r, k),
           run[r].changes[k].action # "delete",
           NEW j, j \in document(r)[k].dependsOn, j \in DOMAIN document(r), j[1] # "mock.table"
    PROVE  j \in DOMAIN stored
<1>1. /\ run[r].at = "applying" /\ PlanOK(r) /\ met(r, k)
      /\ run[r].changes[k].dependencies = document(r)[k].dependsOn \cap DOMAIN run[r].changes
      /\ run[r].changes[k].dependencies \subseteq DOMAIN run[r].results
  BY Sending
<1>2. j \in DOMAIN run[r].changes
  <2>1. /\ IsWorld(run[r].revision)
        /\ run[r].changes = planOf(r, run[r].revision)
    BY <1>1 DEF PlanOK
  <2>2. DOMAIN planOf(r, run[r].revision) = DOMAIN document(r) \cup DOMAIN run[r].revision
    BY <2>1, Planned
  <2> QED BY <2>1, <2>2
<1>3. j \in run[r].changes[k].dependencies /\ j \in DOMAIN run[r].results
  BY <1>1, <1>2
<1>4. run[r].results[j] \in {"succeeded", "noop"}
  BY <1>1, <1>3 DEF met
<1> QED BY <1>1, <1>2, <1>3, <1>4 DEF Standing, StandingOf, InPlan

LEMMA ChangeStands ==
    ASSUME RunsOK, Standing, NoOrphans, NEW r \in Runs, NEW k \in DOMAIN run[r].changes,
           PassOver(r, k) \/ SimulateFailure(r, k) \/ Delete(r, k) \/ Upsert(r, k)
    PROVE  Standing' /\ NoOrphans'
<1>1. CASE PassOver(r, k)
  <2>1. /\ UNCHANGED stored /\ run[r].at = "applying"
        /\ \/ run[r].changes[k].action = "blocked" /\ Settle(r, k, "blocked")
           \/ run[r].changes[k].action = "noop" /\ Settle(r, k, "noop")
           \/ Settle(r, k, "unmet")
    BY <1>1, PassOverRuns
  <2>2. StandingOf(r) /\ Grows
    BY <2>1 DEF Standing, Grows
  <2>3. /\ "blocked" \notin {"succeeded", "noop"} /\ "unmet" \notin {"succeeded", "noop"}
        /\ run[r].changes[k].action = "noop" /\ k[1] # "mock.table" => k \in DOMAIN stored
    BY <2>1, <2>2 DEF StandingOf, InPlan
  <2>4. StandingOf(r)'
    BY <2>1, <2>2, <2>3, SettlingStands
  <2>5. \A q \in Runs \ {r} : run'[q] = run[q]
    BY <2>1, Settling
  <2> QED BY <2>1, <2>2, <2>4, <2>5, OthersStand DEF NoOrphans
<1>2. CASE SimulateFailure(r, k)
  <2>1. /\ UNCHANGED stored
        /\ \/ Settle(r, k, "failed")
           \/ /\ \A q \in Runs \ {r} : run'[q] = run[q]
              /\ run'[r].changes = run[r].changes /\ run'[r].results = run[r].results
    BY <1>2, FailureRuns
  <2>2. run[r].at = "applying"
    BY <1>2 DEF SimulateFailure, Sends
  <2>3. StandingOf(r) /\ Grows /\ "failed" \notin {"succeeded", "noop"}
    BY <2>1 DEF Standing, Grows
  <2>4. StandingOf(r)' /\ \A q \in Runs \ {r} : run'[q] = run[q]
    <3>1. CASE Settle(r, k, "failed")
      BY <2>2, <2>3, <3>1, SettlingStands, Settling
    <3>2. CASE ~Settle(r, k, "failed")
      BY <2>1, <2>2, <2>3, <3>2 DEF StandingOf, InPlan
    <3> QED BY <3>1, <3>2
  <2> QED BY <2>1, <2>3, <2>4, OthersStand DEF NoOrphans
<1>3. CASE Delete(r, k)
  <2>1. /\ Sends(r, k) /\ k[1] = "mock.table"
        /\ DOMAIN stored' = DOMAIN stored \ {k}
        /\ Settle(r, k, "succeeded") \/ Settle(r, k, "failed")
    BY <1>3, DeleteRuns
  <2>2. StandingOf(r) /\ Grows /\ run[r].at = "applying"
    BY <2>1, Sending DEF Standing, Grows
  <2>3. StandingOf(r)' /\ \A q \in Runs \ {r} : run'[q] = run[q]
    BY <2>1, <2>2, SettlingStands, Settling
  <2>4. NoOrphans'
    <3>1. ASSUME NEW j \in DOMAIN stored'
          PROVE  /\ j[1] = "mock.table" => databaseKey(j[2]) \in DOMAIN stored'
                 /\ j[1] = "mock.subscription" => userKey(j[2]) \in DOMAIN stored'
      <4>1. /\ j[1] = "mock.table" => databaseKey(j[2]) \in DOMAIN stored
            /\ j[1] = "mock.subscription" => userKey(j[2]) \in DOMAIN stored
        BY <2>1 DEF NoOrphans
      <4>2. databaseKey(j[2]) # k /\ userKey(j[2]) # k
        BY <2>1, KeysDiffer
      <4> QED BY <2>1, <4>1, <4>2
    <3> QED BY <3>1 DEF NoOrphans
  <2> QED BY <2>2, <2>3, <2>4, OthersStand
<1>4. CASE Upsert(r, k)
  <2>1. /\ Sends(r, k) /\ run[r].changes[k].action # "delete"
        /\ DOMAIN stored' = {k} \cup DOMAIN stored /\ Settle(r, k, "succeeded")
    BY <1>4, UpsertRuns
  <2>2. StandingOf(r) /\ Grows /\ run[r].at = "applying"
    BY <2>1, Sending DEF Standing, Grows
  <2>3. StandingOf(r)' /\ \A q \in Runs \ {r} : run'[q] = run[q]
    BY <2>1, <2>2, SettlingStands, Settling
  <2>4. k \in DOMAIN document(r) /\ references(Spec[r])
    BY <2>1, Sending DEF PlanOK
  <2>5. k[1] = "mock.table" => databaseKey(k[2]) \in DOMAIN stored
    BY <2>1, <2>4, DependsInside, SentAfter, KeysDiffer
  <2>6. k[1] = "mock.subscription" => userKey(k[2]) \in DOMAIN stored
    BY <2>1, <2>4, DependsInside, SentAfter, KeysDiffer
  <2>7. NoOrphans'
    BY <2>1, <2>5, <2>6 DEF NoOrphans
  <2> QED BY <2>2, <2>3, <2>7, OthersStand
<1> QED BY <1>1, <1>2, <1>3, <1>4

\* No table is stored without its database and no subscription without its
\* user, whatever fails and however the runs overlap: a change waits for what
\* its resource depends on (projectSpec, dependenciesFor), and applyChange
\* deletes nothing but tables.
THEOREM NoOrphansEver == MockSpec => []NoOrphans
<1>1. Init => Standing /\ NoOrphans
  <2> SUFFICES ASSUME Init PROVE Standing /\ NoOrphans
    OBVIOUS
  <2>1. ASSUME NEW r \in Runs PROVE StandingOf(r)
    BY DEF Init, Idle, StandingOf, InPlan
  <2>2. DOMAIN stored = {}
    BY DEF Init
  <2> QED BY <2>1, <2>2 DEF Standing, NoOrphans
<1>2. RunsOK /\ Standing /\ NoOrphans /\ [Next]_vars => Standing' /\ NoOrphans'
  <2> SUFFICES ASSUME RunsOK, Standing, NoOrphans, [Next]_vars PROVE Standing' /\ NoOrphans'
    OBVIOUS
  <2>1. CASE UNCHANGED vars
    BY <2>1 DEF vars, Standing, StandingOf, NoOrphans
  <2>2. ASSUME NEW r \in Runs, Validate(r) \/ PlanChanges(r) \/ AssertNoDrift(r) \/ Verify(r)
        PROVE  Standing' /\ NoOrphans'
    BY <2>2, StageStands DEF NoOrphans
  <2> QED BY <2>1, <2>2, ChangeStands DEF Next
<1> QED BY <1>1, <1>2, InitRuns, NextRuns, PTL DEF MockSpec

-----------------------------------------------------------------------------
(***************************************************************************)
(* A verified run has done what it declares                                *)
(***************************************************************************)
LEMMA Dividing ==
    ASSUME NEW f \in Nat, NEW t \in Nat \ {0}, f <= t, t < 20000,
           (20000 * f + t) \div (2 * t) >= 10000
    PROVE  f = t
<1> DEFINE a == 20000 * f + t
           b == 2 * t
           d == a \div b
<1>1. a \in Nat /\ b \in Nat \ {0}
  OBVIOUS
<1> HIDE DEF a, b
<1>2. d \in Nat /\ d >= 10000
  BY <1>1 DEF a, b
<1>3. b * d <= a
  BY <1>1
<1> HIDE DEF d
<1>4. b * 10000 <= b * d
  BY <1>1, <1>2
<1>5. b * 10000 <= a
  BY <1>1, <1>2, <1>3, <1>4
<1>6. 20000 * t <= 20000 * f + t
  BY <1>5 DEF a, b
<1> QED BY <1>6

\* The engine counts as this module does.
LEMMA OneCardinality == \A S : Engine!Cardinality(S) = Cardinality(S)
BY DEF Engine!Cardinality, Cardinality

\* With so few leaves that one cannot be rounded away, a document that is found
\* satisfied has every leaf it declares.
LEMMA Satisfied ==
    ASSUME NEW d, NEW o, IsFiniteSet(Engine!desiredLeaves(d)),
           Cardinality(Engine!desiredLeaves(d)) < 20000,
           Engine!verifyDesiredState(d, o) = "satisfied"
    PROVE  Engine!matched(d, o) = Engine!desiredLeaves(d)
<1> DEFINE M == Engine!matched(d, o)
           L == Engine!desiredLeaves(d)
           f == Cardinality(M)
           t == Cardinality(L)
<1>1. M \subseteq L
  BY DEF Engine!matched
<1>2. IsFiniteSet(M) /\ f <= t /\ (f = t => M = L)
  BY <1>1, FS_Subset
<1>3. f \in Nat /\ t \in Nat
  BY <1>2, FS_CardinalityType
<1>4. Engine!statusFor(Engine!satisfaction(f, t), f) = "satisfied"
  BY OneCardinality DEF Engine!verifyDesiredState
<1> HIDE DEF f, t
<1>5. Engine!satisfaction(f, t) >= 10000
  BY <1>4 DEF Engine!statusFor
<1>6. CASE t = 0
  BY <1>2, <1>3, <1>6
<1>7. CASE t # 0
  <2>1. (20000 * f + t) \div (2 * t) >= 10000
    BY <1>5, <1>7 DEF Engine!satisfaction
  <2>2. t < 20000
    BY DEF t
  <2> QED BY <1>2, <1>3, <1>7, <2>1, <2>2, Dividing
<1> QED BY <1>6, <1>7

\* Fewer leaves than the share of matching leaves has digits for.
FewLeaves ==
    \A r \in Runs :
        /\ IsFiniteSet(Engine!desiredLeaves(document(r)))
        /\ Cardinality(Engine!desiredLeaves(document(r))) < 20000

LEMMA PlanDomain ==
    ASSUME NEW r \in Runs, PlanOK(r)
    PROVE  DOMAIN run[r].changes = DOMAIN document(r) \cup DOMAIN run[r].revision
<1> DEFINE w == run[r].revision
<1>1. IsWorld(w) /\ run[r].changes = planOf(r, w)
  BY DEF PlanOK
<1> HIDE DEF w
<1>2. DOMAIN planOf(r, w) = DOMAIN document(r) \cup DOMAIN w
  BY <1>1, Planned
<1> QED BY <1>1, <1>2 DEF w

\* What a run has of a change, by its intent.
LEMMA PlannedAs ==
    ASSUME NEW r \in Runs, PlanOK(r), NEW k \in DOMAIN run[r].changes
    PROVE  /\ DOMAIN run[r].changes = DOMAIN document(r) \cup DOMAIN run[r].revision
           /\ run[r].changes[k].action = "noop" =>
                /\ k \in DOMAIN run[r].revision /\ k \in DOMAIN document(r)
                /\ fieldsOf(r, run[r].revision, k) = {}
           /\ k \in DOMAIN document(r) => run[r].changes[k].action # "delete"
<1> DEFINE w == run[r].revision
<1>1. IsWorld(w) /\ run[r].changes = planOf(r, w)
  BY DEF PlanOK
<1> HIDE DEF w
<1>2. /\ DOMAIN planOf(r, w) = DOMAIN document(r) \cup DOMAIN w
      /\ \A j \in DOMAIN planOf(r, w) : planOf(r, w)[j].action \in {"blocked", intentOf(r, w, j)}
  BY <1>1, Planned
<1>3. /\ intentOf(r, w, k) = "delete" => k \notin DOMAIN document(r)
      /\ intentOf(r, w, k) = "noop" =>
           k \in DOMAIN w /\ k \in DOMAIN document(r) /\ fieldsOf(r, w, k) = {}
  BY <1>1, Intents
<1>4. run[r].changes[k].action \in {"blocked", intentOf(r, w, k)}
  BY <1>1, <1>2
<1>5. /\ run[r].changes[k].action = "noop" => intentOf(r, w, k) = "noop"
      /\ run[r].changes[k].action = "delete" => intentOf(r, w, k) = "delete"
  BY <1>4
<1> QED BY <1>1, <1>2, <1>3, <1>5 DEF w

LEMMA Begun ==
    ASSUME RunsOK, NEW r \in Runs, AssertNoDrift(r), run'[r].at = "applying"
    PROVE  Progress(r)'
<1>1. /\ UNCHANGED stored /\ run[r].revision = stored /\ PlanOK(r)
      /\ run[r].at = "planned"
      /\ run'[r].changes = run[r].changes /\ run'[r].results = run[r].results
      /\ run'[r].revision = run[r].revision
  BY DriftRuns
<1>2. DOMAIN run[r].changes = DOMAIN document(r) \cup DOMAIN stored
  BY <1>1, PlanDomain
<1>3. DOMAIN run[r].results = {}
  BY <1>1 DEF PlanOK
<1> QED BY <1>1, <1>2, <1>3 DEF Progress, Untouched

\* One change settled, the rows of the others as they were.
LEMMA Proceeds ==
    ASSUME RunsOK, NEW r \in Runs, run[r].at = "applying", Progress(r),
           NEW k \in DOMAIN run[r].changes, NEW result, Settle(r, k, result),
           \A j \in DOMAIN stored' : j # k => j \in DOMAIN stored,
           \A j \in DOMAIN stored : j # k => j \in DOMAIN stored' /\ stored'[j] = stored[j],
           Settled(r, k)'
    PROVE  Progress(r)'
<1>1. /\ run'[r].changes = run[r].changes /\ run'[r].revision = run[r].revision
      /\ DOMAIN run'[r].results = {k} \cup DOMAIN run[r].results
      /\ \A j \in DOMAIN run[r].results \ {k} : run'[r].results[j] = run[r].results[j]
  BY Settling
<1>2. DOMAIN stored' \subseteq DOMAIN run[r].changes
  BY DEF Progress
<1>3. ASSUME NEW j \in DOMAIN run[r].changes, j # k, j \in DOMAIN run[r].results
      PROVE  Settled(r, j)'
  <2>1. Settled(r, j)
    BY <1>3 DEF Progress
  <2>2. run'[r].results[j] = run[r].results[j]
    BY <1>1, <1>3
  <2>3. /\ j \in DOMAIN stored' <=> j \in DOMAIN stored
        /\ j \in DOMAIN stored => stored'[j] = stored[j]
    BY <1>3
  <2> QED BY <1>1, <2>1, <2>2, <2>3 DEF Settled, Clean, target
<1>4. ASSUME NEW j \in DOMAIN run[r].changes, j # k, j \notin DOMAIN run[r].results
      PROVE  Untouched(r, j)'
  <2>1. Untouched(r, j)
    BY <1>4 DEF Progress
  <2>2. /\ j \in DOMAIN stored' <=> j \in DOMAIN stored
        /\ j \in DOMAIN stored => stored'[j] = stored[j]
    BY <1>4
  <2> QED BY <1>1, <2>1, <2>2 DEF Untouched
<1>5. ASSUME NEW j \in DOMAIN run[r].changes
      PROVE  IF j \in DOMAIN run'[r].results THEN Settled(r, j)' ELSE Untouched(r, j)'
  BY <1>1, <1>3, <1>4
<1> QED BY <1>1, <1>2, <1>5 DEF Progress

LEMMA Skipped ==
    ASSUME RunsOK, NEW r \in Runs, Progress(r), NEW k \in DOMAIN run[r].changes, PassOver(r, k)
    PROVE  Progress(r)'
<1>1. /\ UNCHANGED stored /\ run[r].at = "applying" /\ k \notin DOMAIN run[r].results
      /\ \/ run[r].changes[k].action = "blocked" /\ Settle(r, k, "blocked")
         \/ run[r].changes[k].action = "noop" /\ Settle(r, k, "noop")
         \/ Settle(r, k, "unmet")
  BY PassOverRuns
<1>2. ASSUME NEW result \in {"blocked", "unmet"}, Settle(r, k, result) PROVE Progress(r)'
  <2>1. run'[r].results[k] = result
    BY <1>1, <1>2, Settling
  <2>2. result # "noop" /\ result # "succeeded"
    OBVIOUS
  <2>3. Settled(r, k)'
    BY <2>1, <2>2 DEF Settled
  <2> QED BY <1>1, <1>2, <2>3, Proceeds
<1>3. CASE run[r].changes[k].action = "noop" /\ Settle(r, k, "noop")
  <2>1. /\ run'[r].results[k] = "noop" /\ run'[r].changes = run[r].changes
        /\ run'[r].revision = run[r].revision
    BY <1>1, <1>3, Settling
  <2>2. PlanOK(r)
    BY <1>1 DEF RunsOK, RunOK, InPlan
  <2>3. k \in DOMAIN run[r].revision
    BY <1>3, <2>2, PlannedAs
  <2>4. Untouched(r, k)
    BY <1>1 DEF Progress
  <2>5. "noop" # "succeeded"
    OBVIOUS
  <2>6. Settled(r, k)'
    BY <1>1, <1>3, <2>1, <2>3, <2>4, <2>5 DEF Settled, Untouched
  <2> QED BY <1>1, <1>3, <2>6, Proceeds
<1> QED BY <1>1, <1>2, <1>3

LEMMA Failed ==
    ASSUME RunsOK, NEW r \in Runs, Progress(r), NEW k \in DOMAIN run[r].changes,
           SimulateFailure(r, k)
    PROVE  Progress(r)'
<1>1. /\ UNCHANGED stored
      /\ \/ Settle(r, k, "failed")
         \/ /\ run'[r].changes = run[r].changes /\ run'[r].results = run[r].results
            /\ run'[r].revision = run[r].revision
  BY FailureRuns
<1>2. run[r].at = "applying"
  BY DEF SimulateFailure, Sends
<1>3. CASE Settle(r, k, "failed")
  <2>1. run'[r].results[k] = "failed"
    BY <1>2, <1>3, Settling
  <2>2. "failed" # "noop" /\ "failed" # "succeeded"
    OBVIOUS
  <2>3. Settled(r, k)'
    BY <2>1, <2>2 DEF Settled
  <2> QED BY <1>1, <1>2, <1>3, <2>3, Proceeds
<1>4. CASE ~Settle(r, k, "failed")
  BY <1>1, <1>4 DEF Progress, Settled, Untouched, Clean, target
<1> QED BY <1>3, <1>4

LEMMA Deleted ==
    ASSUME RunsOK, NEW r \in Runs, Progress(r), NEW k \in DOMAIN run[r].changes, Delete(r, k)
    PROVE  Progress(r)'
<1>1. /\ Sends(r, k) /\ run[r].changes[k].action = "delete"
      /\ DOMAIN stored' = DOMAIN stored \ {k}
      /\ \A j \in DOMAIN stored \ {k} : stored'[j] = stored[j]
      /\ Settle(r, k, "succeeded") \/ Settle(r, k, "failed")
  BY DeleteRuns
<1>2. run[r].at = "applying"
  BY <1>1, Sending
<1>3. ASSUME NEW result \in {"succeeded", "failed"}, Settle(r, k, result) PROVE Progress(r)'
  <2>1. run'[r].results[k] = result /\ run'[r].changes = run[r].changes
    BY <1>2, <1>3, Settling
  <2>2. result # "noop"
    OBVIOUS
  <2>3. Settled(r, k)'
    BY <1>1, <2>1, <2>2 DEF Settled
  <2> QED BY <1>1, <1>2, <1>3, <2>3, Proceeds
<1> QED BY <1>1, <1>3

LEMMA Sent ==
    ASSUME RunsOK, NEW r \in Runs, Progress(r), NEW k \in DOMAIN run[r].changes, Upsert(r, k)
    PROVE  Progress(r)'
<1>1. /\ Sends(r, k) /\ run[r].changes[k].action # "delete"
      /\ DOMAIN stored' = {k} \cup DOMAIN stored /\ Clean(r, k, stored'[k])
      /\ \A j \in DOMAIN stored \ {k} : stored'[j] = stored[j]
      /\ Settle(r, k, "succeeded")
  BY UpsertRuns
<1>2. run[r].at = "applying" /\ k \in DOMAIN document(r)
  BY <1>1, Sending
<1>3. run'[r].results[k] = "succeeded" /\ run'[r].changes = run[r].changes
  BY <1>1, <1>2, Settling
<1>4. "succeeded" # "noop"
  OBVIOUS
<1>5. Settled(r, k)'
  BY <1>1, <1>2, <1>3, <1>4 DEF Settled, Clean, target
<1> QED BY <1>1, <1>2, <1>5, Proceeds

\* All settled and every declared leaf found: the document and the table say the
\* same of what it declares.
LEMMA Complete ==
    ASSUME NEW r \in Runs, PlanOK(r), Progress(r),
           DOMAIN run[r].results = DOMAIN run[r].changes,
           \A k \in DOMAIN run[r].results : run[r].results[k] \in {"succeeded", "noop"},
           Engine!matched(document(r), asStored(stored)) = Engine!desiredLeaves(document(r))
    PROVE  DoneIn(r, stored)
<1>1. ASSUME NEW k \in DOMAIN run[r].changes
      PROVE  /\ Settled(r, k)
             /\ \/ run[r].results[k] = "noop" /\ run[r].changes[k].action = "noop"
                \/ run[r].results[k] = "succeeded"
  <2>1. Settled(r, k)
    BY DEF Progress
  <2> QED BY <2>1 DEF Settled
<1>2. DOMAIN run[r].changes = DOMAIN document(r) \cup DOMAIN run[r].revision
  BY PlanDomain
<1>3. ASSUME NEW k \in DOMAIN document(r) PROVE k \in DOMAIN stored
  <2>1. k \in DOMAIN run[r].changes /\ run[r].changes[k].action # "delete"
    BY <1>2, PlannedAs
  <2> QED BY <1>1, <2>1 DEF Settled
<1>4. ASSUME NEW k \in DOMAIN stored PROVE k \in DOMAIN document(r)
  <2>1. k \in DOMAIN run[r].changes
    BY DEF Progress
  <2>2. CASE run[r].results[k] = "noop" /\ run[r].changes[k].action = "noop"
    BY <2>1, <2>2, PlannedAs
  <2>3. CASE run[r].results[k] = "succeeded"
    BY <1>1, <2>1, <2>3 DEF Settled
  <2> QED BY <1>1, <2>1, <2>2, <2>3
<1>5. ASSUME NEW k \in DOMAIN stored,
             NEW p \in Engine!fields(document(r), asStored(stored), k),
             p[1] \in declaredFields(Spec[r], k)
      PROVE  FALSE
  <2> DEFINE a == document(r)[k].attributes
             b == stored[k]
  <2>1. k \in DOMAIN document(r) /\ k \in DOMAIN asStored(stored) /\ asStored(stored)[k].attributes = b
    BY <1>4 DEF asStored, resource
  <2>2. p \in Engine!differing(b, a)
    BY <2>1 DEF Engine!fields, Engine!fieldDiffs
  <2>3. p \in DOMAIN a \cup DOMAIN b /\ Engine!at(b, p) # Engine!at(a, p)
    BY <2>2 DEF Engine!differing
  <2>4. p \notin DOMAIN a
    <3>1. SUFFICES ASSUME p \in DOMAIN a PROVE FALSE
      OBVIOUS
    <3>2. <<k, p>> \in {k} \X DOMAIN a
      BY <3>1
    <3>3. <<k, p>> \in Engine!desiredLeaves(document(r))
      BY <2>1, <3>2 DEF Engine!desiredLeaves
    <3>4. <<k, p>> \in Engine!matched(document(r), asStored(stored))
      BY <3>3
    <3>5. Engine!at(a, p) = Engine!at(b, p)
      BY <2>1, <3>4 DEF Engine!matched
    <3> QED BY <2>3, <3>5
  <2>5. k \in DOMAIN run[r].changes
    BY <1>2, <2>1
  <2>6. CASE run[r].results[k] = "noop" /\ run[r].changes[k].action = "noop"
    <3>1. stored[k] = run[r].revision[k]
      BY <1>1, <2>5, <2>6 DEF Settled
    <3>2. k \in DOMAIN run[r].revision /\ fieldsOf(r, run[r].revision, k) = {}
      BY <2>5, <2>6, PlannedAs
    <3>3. fieldsOf(r, run[r].revision, k) = Engine!fieldDiffs(b, a)
      BY <2>1, <3>1, <3>2 DEF fieldsOf, Engine!fields, asStored, resource
    <3>4. p \in Engine!fieldDiffs(b, a)
      BY <2>2 DEF Engine!fieldDiffs
    <3> QED BY <3>2, <3>3, <3>4
  <2>7. CASE run[r].results[k] = "succeeded"
    <3>1. run[r].changes[k].action # "delete"
      BY <2>1, <2>5, PlannedAs
    <3>2. Clean(r, k, b)
      BY <1>1, <2>5, <2>7, <3>1 DEF Settled
    <3>3. p \in DOMAIN target(r, k)
      BY <1>5, <2>3, <2>4, <3>2 DEF Clean
    <3> QED BY <2>4, <3>3 DEF target, document
  <2> QED BY <1>1, <2>5, <2>6, <2>7
<1> QED BY <1>3, <1>4, <1>5 DEF DoneIn

\* A write of one run disturbs all the others that apply.
LEMMA OthersUndisturbed ==
    ASSUME Undisturbed, NEW r \in Runs, NEW q \in Runs \ {r}, q \notin disturbed',
           run'[q] = run[q], UNCHANGED <<stored, disturbed>> \/ Disturb(r)
    PROVE  /\ run'[q].at = "applying" => Progress(q)'
           /\ run'[q].at = "verified" /\ run'[q].completed /\ run'[q].status = "satisfied" =>
                DoneIn(q, run'[q].revision)
<1>1. q \in Runs \ disturbed
  BY DEF Disturb
<1>2. CASE UNCHANGED <<stored, disturbed>>
  <2>1. Progress(q) => Progress(q)'
    BY <1>2 DEF Progress, Settled, Untouched, Clean, target
  <2> QED BY <1>1, <2>1 DEF Undisturbed
<1>3. CASE Disturb(r)
  <2>1. run[q].at # "applying"
    BY <1>3 DEF Disturb
  <2> QED BY <1>1, <2>1 DEF Undisturbed
<1> QED BY <1>2, <1>3

LEMMA NextUndisturbed ==
    ASSUME FewLeaves, RunsOK, Undisturbed, [Next]_vars
    PROVE  Undisturbed'
<1> DEFINE Kept(q) ==
             /\ run'[q].at = "applying" => Progress(q)'
             /\ run'[q].at = "verified" /\ run'[q].completed /\ run'[q].status = "satisfied" =>
                  DoneIn(q, run'[q].revision)
<1>1. ASSUME NEW r \in Runs, \A q \in Runs \ {r} : run'[q] = run[q],
             UNCHANGED <<stored, disturbed>> \/ Disturb(r), r \notin disturbed' => Kept(r)
      PROVE  Undisturbed'
  <2>1. \A q \in Runs \ {r} : q \notin disturbed' => Kept(q)
    BY <1>1, OthersUndisturbed
  <2>2. \A q \in Runs : q \notin disturbed' => Kept(q)
    BY <1>1, <2>1
  <2> QED BY <2>2 DEF Undisturbed, DoneIn
<1>2. ASSUME NEW r \in Runs, Validate(r) PROVE Undisturbed'
  <2>1. /\ UNCHANGED <<stored, disturbed>> /\ \A q \in Runs \ {r} : run'[q] = run[q]
        /\ run'[r].at \in {"validated", "invalid"}
    BY <1>2, ValidateRuns
  <2>2. Kept(r)
    BY <2>1
  <2> QED BY <1>1, <2>1, <2>2
<1>3. ASSUME NEW r \in Runs, PlanChanges(r) PROVE Undisturbed'
  <2>1. /\ UNCHANGED <<stored, disturbed>> /\ \A q \in Runs \ {r} : run'[q] = run[q]
        /\ run'[r].at = "planned"
    BY <1>3, PlanRuns
  <2>2. Kept(r)
    BY <2>1
  <2> QED BY <1>1, <2>1, <2>2
<1>4. ASSUME NEW r \in Runs, AssertNoDrift(r) PROVE Undisturbed'
  <2>1. /\ UNCHANGED <<stored, disturbed>> /\ \A q \in Runs \ {r} : run'[q] = run[q]
        /\ run'[r].at \in {"applying", "drifted"}
    BY <1>4, DriftRuns
  <2>2. Kept(r)
    BY <1>4, <2>1, Begun
  <2> QED BY <1>1, <2>1, <2>2
<1>5. ASSUME NEW r \in Runs, Verify(r) PROVE Undisturbed'
  <2>1. /\ UNCHANGED <<stored, disturbed>> /\ \A q \in Runs \ {r} : run'[q] = run[q]
        /\ run'[r].at = "verified" /\ run'[r].revision = stored
        /\ run[r].at = "applying" /\ DOMAIN run[r].results = DOMAIN run[r].changes
        /\ run'[r].completed =>
             \A k \in DOMAIN run[r].results : run[r].results[k] \in {"succeeded", "noop"}
        /\ run'[r].status = Engine!verifyDesiredState(document(r), asStored(stored))
    BY <1>5, VerifyRuns
  <2>2. ASSUME r \notin disturbed', run'[r].completed, run'[r].status = "satisfied"
        PROVE  DoneIn(r, run'[r].revision)
    <3>1. PlanOK(r) /\ Progress(r)
      BY <2>1, <2>2 DEF RunsOK, RunOK, InPlan, Undisturbed
    <3>2. Engine!matched(document(r), asStored(stored)) = Engine!desiredLeaves(document(r))
      <4> DEFINE d == document(r)
                 o == asStored(stored)
      <4>1. /\ IsFiniteSet(Engine!desiredLeaves(d))
            /\ Cardinality(Engine!desiredLeaves(d)) < 20000
        BY DEF FewLeaves
      <4>2. Engine!verifyDesiredState(d, o) = "satisfied"
        BY <2>1, <2>2
      <4> HIDE DEF d, o
      <4>3. Engine!matched(d, o) = Engine!desiredLeaves(d)
        BY <4>1, <4>2, Satisfied
      <4> QED BY <4>3 DEF d, o
    <3>3. DoneIn(r, stored)
      BY <2>1, <2>2, <3>1, <3>2, Complete
    <3> QED BY <2>1, <3>3
  <2>3. r \notin disturbed' => Kept(r)
    BY <2>1, <2>2
  <2> QED BY <1>1, <2>1, <2>3
<1>6. ASSUME NEW r \in Runs, run[r].at = "applying", NEW k \in DOMAIN run[r].changes,
             PassOver(r, k) \/ SimulateFailure(r, k) \/ Delete(r, k) \/ Upsert(r, k)
      PROVE  Undisturbed'
  <2>1. UNCHANGED <<stored, disturbed>> \/ Disturb(r)
    BY <1>6, PassOverRuns, FailureRuns, DeleteRuns, UpsertRuns
  <2>2. run'[r].at = "applying" /\ \A q \in Runs \ {r} : run'[q] = run[q]
    BY <1>6, PassOverRuns, FailureRuns, DeleteRuns, UpsertRuns, Settling
  <2>3. ASSUME r \notin disturbed' PROVE Kept(r)
    <3>1. Progress(r)
      BY <1>6, <2>1, <2>3 DEF Undisturbed, Disturb
    <3>2. Progress(r)'
      BY <1>6, <3>1, Skipped, Failed, Deleted, Sent
    <3> QED BY <2>2, <3>2
  <2> QED BY <1>1, <2>1, <2>2, <2>3
<1>7. CASE UNCHANGED vars
  BY <1>7 DEF vars, Undisturbed, Progress, Settled, Untouched, Clean, target, DoneIn
<1> QED BY <1>2, <1>3, <1>4, <1>5, <1>6, <1>7 DEF Next

\* When a run whose changes no other run wrote between completed and was
\* verified, and nothing has been written since, planning its document again
\* finds nothing to create, to delete or to set in what it declares: each kind of
\* result leaves its row so (applyChange, mergedWith), and what is written over
\* with another value is found by verifyDesiredState, unless there are so many
\* leaves that its share is rounded up to one.
THEOREM DeclaredIsDoneAlways ==
    ASSUME FewLeaves
    PROVE  MockSpec => []DeclaredIsDone
<1>1. Init => Undisturbed
  <2> SUFFICES ASSUME Init PROVE Undisturbed
    OBVIOUS
  <2>1. \A r \in Runs : run[r].at = "idle"
    BY DEF Init, Idle
  <2> QED BY <2>1 DEF Undisturbed
<1>2. RunsOK /\ Undisturbed /\ [Next]_vars => Undisturbed'
  BY NextUndisturbed
<1>3. Undisturbed => DeclaredIsDone
  <2> SUFFICES ASSUME Undisturbed, NEW r \in Runs \ disturbed, run[r].at = "verified",
                      run[r].completed, run[r].status = "satisfied", run[r].revision = revision
               PROVE  /\ DOMAIN stored = DOMAIN projectSpec(Spec[r])
                      /\ \A k \in DOMAIN stored :
                           \A p \in Engine!fields(projectSpec(Spec[r]), projectStored, k) :
                               p[1] \notin declaredFields(Spec[r], k)
    BY DEF DeclaredIsDone
  <2>1. DoneIn(r, stored)
    BY DEF Undisturbed, revision
  <2>2. projectStored = asStored(stored)
    BY DEF projectStored, asStored
  <2> QED BY <2>1, <2>2 DEF DoneIn, document
<1> QED BY <1>1, <1>2, <1>3, InitRuns, NextRuns, PTL DEF MockSpec

=============================================================================
