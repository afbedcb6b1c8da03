# Verification of the Desired State Protocol runtime

TLA+ models of the runtime in this repository, TLC configurations that check
them on small instances, and theorems about them whose proofs TLAPS checks.
Paths in this file are relative to the repository root.

The protocol: a client submits a *desired state document*; the runtime inspects
the provider, computes the difference, orders the changes and stores an immutable
*plan*; people approve the plan; `apply` executes it change by change and verifies
the result. A plan is made now, approved later and applied later still, by clients
that retry and race, over a world that others change and with a process that may be
restarted: most of what can go wrong is there.

## 1. Inventory

| Component | Source | State | Operations | Talks to |
|---|---|---|---|---|
| Runtime | `packages/core/src/runtime.ts` | none between calls; each call keeps copies of rows across its waits | `validate`, `plan`, `approve`, `apply`, `verify`, `cancel`, `inspect`, getters | everything below |
| Execution engine | `packages/execution-engine/src` | the `OperationRecord` in memory | `executePlan` with retries, timeouts, cancellation poll | provider; the runtime through `onProgress` |
| Plan engine | `packages/plan-engine/src` | none | diff, field ownership, dependency graph, risk, plan hash, refinement check | called by `plan` |
| Policy, contract, verification engines | `packages/{policy,contract,verification}-engine/src` | none | evaluate rules, conditions, compare desired and observed | called by `plan`, `apply`, `verify` |
| Runtime store | `packages/core/src/store` | SQLite tables: plans, approvals, idempotency, operations, field_ownership, audit | one synchronous statement or transaction per call | shared by all requests |
| Audit log | `packages/audit/src` | hash chain and its tail in memory | `record`, `verify` | store |
| Secret store | `packages/secret-store/src` | an encrypted file, a cached key | get, set, delete | file system, environment |
| Mock provider | `packages/provider-mock/src` | a table in memory | `validate`, `inspect`, `planChanges`, `applyChange` | nothing |
| Stripe provider | `packages/provider-stripe/src` | none | the same | Stripe's API |
| HTTP server | `apps/server/src` | one runtime in one Node process | routes and authentication | runtime |
| Provider SDK, CLI | `packages/provider-sdk`, `apps/cli` | none | interfaces, a conformance suite; an HTTP client | provider; server |

How they interact. One request is one asynchronous call chain. Between two waits
(for the provider, a timer, a file) it runs alone, because the process is
single-threaded and the store synchronous; at each wait any other request may run.
Requests share nothing but rows of the store, and mostly read a row, wait, and write
it back whole. This is where what is hard lives:

- *stale state*: `apply`, `cancel` and `verify` each save a whole operation row
  from a copy they read earlier; `plan` dates a window before a wait and compares
  it after it; `apply` checks its gates before it inspects the provider; a secret
  store keeps a derived key while the salt is in the file;
- *partial failure*: a change of many fails, times out with its effect in doubt,
  or is cancelled; a store or audit call throws between two saves; an audit record
  that nobody awaits fails;
- *crash*: the process dies between the claim of an idempotency key, the operation
  row and any save, or in the middle of writing a file; nothing resumes an
  operation, but a client comes again;
- *races*: two applies with one key; two documents over one field, one Stripe
  account, one workspace; pages of a listing read while others write;
- *unreliable delivery*: a request to Stripe is lost, late, or sent again;
- *order*: changes must run in an order their dependencies allow, whatever mix of
  creations, moves and deletions the graph holds; audit events of concurrent calls
  must chain;
- *time*: validity windows that must not be stretched by planning again, approvals
  that must not outlive them.

What makes each component correct, in one line each:

- execution engine: dependencies first; a recorded success is real; never repeat
  it; the final status tells what happened; it ends;
- operation row: whatever the stale saves lose, it never claims more than happened;
- plan and approve: a window is never extended; an approval authorises nothing
  later than one TTL after it was given;
- apply: only an approved plan, under the policies it was made under, once per key;
- field ownership: who is responsible for a field earned it, and nobody else
  overwrites it;
- plan engine: the order respects dependencies, a refinement cannot widen a plan or
  talk its risk down, and a plan carried out leaves nothing to do;
- validate and plan: what the one accepts the other does not refuse;
- audit log: an append-only chain without gaps, in which any edit shows;
- secret store: what was kept can be read, by any later process;
- Stripe provider: one write per change, nobody's objects taken;
- mock provider: no orphans, and what was declared is there.

## 2. Modules

| Module | Models |
|---|---|
| `PlanRun` | what running a plan promises about the world: the abstract specification of an execution |
| `Execution` | one operation: `executePlan`, the tail of `apply`, `cancel` and `verify`, over the operation row |
| `PlanLifecycle` | `plan`, `approve`, `apply` of many clients: windows, approvals, gates, drift, idempotency keys, restarts |
| `Ownership` | field ownership: several documents plan and apply over shared fields |
| `PlanDiff` | the diff, immutability, what is blocked, dependencies: operators, no state |
| `PlanRules` | risk, policies, contract, verification: operators, no state |
| `Admission` | what `validate` and `#prepare` check of a document: operators, no state |
| `PlanBuild` | a plan from the request to the plan stored, and one run of it; composes the three above |
| `AuditLog` | `record` and its queue, the hash chain, `verify`, of several processes over one table |
| `SecretFile` | the encrypted file and the environment as secret stores |
| `Stores` | one process with both, where a resolved secret is recorded without waiting; composes `AuditLog` and `SecretFile` |
| `StripeCatalog` | the Stripe provider: documents over one account, requests under idempotency keys |
| `MockWorkspace` | the mock provider with `PlanRules` between its calls: versions of one document over one workspace |
| `MC…` | instances for TLC |
| `…_proof` | theorems and proofs |

The modules compose along the code's own seams. `PlanBuild` makes a plan that
nobody disturbs; `PlanLifecycle` takes plans as made and treats the execution as
one write; `Execution` starts where the key has just been claimed, with any plan.
`Ownership` follows the record of owners through both, with the changes of a plan
one by one but without approvals, keys or retries. `Execution` implements `PlanRun`,
and `Stores` implements `AuditLog` and `SecretFile`.

A definition named `original_variant` is a copy of `original` with a plausible bug.
No specification uses it; each property of a passing run is violated when one of
them replaces the original.

### Execution

State and code: `saved` is the row of `operations`; `mem` is the record that
`apply` and the engine hold; `pc`, `cur`, `attempts` are the position in
`executePlan` and `runChange`; `client` holds each cancel or verify call with the
row it has read (`snap`); `effected` is the provider's world; `doubt` are calls
that have failed here and may still take effect there.

Every save replaces the row by a copy (`Save`, `CancelSave`, `VerifySave`), that of
`requestCancellation` too, which reads the row again (`RequestReads`) and saves it
with the flag set (`RequestSaves`). A step is
one store call, or the stretch to the next wait. `turn` names the request that is
between two waits; with `SharedStore = FALSE` (the shipped server) nobody else moves
until it waits; with `TRUE` requests interleave at every store call, as they do when
two runtimes share the file or with an asynchronous `RuntimeStore`.

`ProviderFails` is any error, before or after the timeout has fired (`expired`): the
effect may be lost, done or still to come (`LateEffect`). `Reject` is an exception
that leaves `apply`; `Crash` ends the process and the requests in it. With
`MayResume` the record given to `executePlan` may hold successes of an earlier run.

### PlanLifecycle

One document is planned again and again. A plan's id is derived from its hash, so
an id is modelled by what the hash tells apart: the revision of the world, the
policy bundle, what the policies decided. `contract.success` is not covered by the
hash, so documents that differ in it only (`Documents`) share an id; the instances
have one variant, and the theorems hold for any set of them.

`planner` and `applier` hold one request each, with the plan it copied; `Keys` are
idempotency keys; an operation is named after the request that claimed its key. The
world drifts (`Drift`), the clock ticks up to `MaxTime`, the process is restarted
with any configuration (`Restart`), and a request may throw at any store call or
inspection (`FailApply`).

### Ownership

`world` is what the provider shows, as a projection of fields; `owner` is
`field_ownership`. A stored plan records claims (free fields), releases (owned, no
longer declared) and conflicts (owned by another), as `resolveOwnership` finds them.
`Admit` is the re-check, `AssertNoDrift` the comparison of revisions, `ChangeLands`
and `ChangeFails` one change each, `RecordOwnership` the transaction at the end.
A change that fails may have taken effect. Any number of applies overlap, and
deletions run where they are allowed. The slice is empty at first or holds what one
document left that was applied before.

`exposed` is history: the fields that one of three steps has put at risk which
nothing in the code guards. `unchecked`: an apply is let in that will set a field
which was its document's own at planning and is another one's since. `overlapping`:
an apply is let in while another one under way changes the same resource. And a
resource is deleted some of whose fields are recorded (`Takes`).
`OwnersValueIsInPlace` is about all other fields: these are the only ways to lose it.

### PlanBuild, PlanDiff, PlanRules, Admission

The state of a resource is the leaves that `flattenValue` leaves of it: a function
from paths to scalars, in which no path lies inside another (`IsLeaves`). `input` is
a request with the server it is made to; `pc` follows `plan`: admission and diff
(`asked`), one step per turn of the loop of `topologicalOrder` (`order`), one step
per call that the search for a cycle makes or ends (`cycle`), the provider's
refinement, which may answer anything (`refine`), conflicts, policies and approvals
(`judge`), then the changes one by one, each of which may fail, and the verification.
`computed` is the diff as the code computed it, `changes` what became of it.
A document is what the checks see of it; the value of a CEL predicate is an input
(`contract`). Two policies are the ones the repository ships
(`BASELINE_SAFETY_POLICY`, `PRODUCTION_SAFETY_POLICY`); the interpreter of
conditions and constraints is modelled whole.

### AuditLog, SecretFile, Stores

A hash is modelled by what it was computed over, so an event's hash holds the call
it says, its number and the hash before it. `logger[p]` is a process: its tail
(the promise `#tail`) and the calls that wait on it. An append may fail, a process
may crash at any point, another starts by reading the last row; two may be up at
once, since the table gives each number once. `edited` are rows changed by hand.

`SecretFile` numbers the calls that change the file; a number stands for a value, a
version and, when the call found no file, for the salt it made. `vault[p]` is a
process with its cached key, its queue and the copy it is working on; a mutation
reads the file, prepares the new one, writes it beside the old one and renames it.
`Stores` opens and kills both together; `Resolve` is `#resolverFor`, whose audit
record nobody awaits: when that append fails, the process ends.

### StripeCatalog

`products`, `prices` and `replies` are Stripe, modelled after the stub the provider
is tested with; `network` are requests under way, each of which may be executed,
replayed, rejected or lost at any time, also after its run has given up waiting;
`run[r]` is one plan-and-apply: the cursor and what was seen of each listing, the
results so far, the change and attempt under way. A run reads both listings page by
page for the plan, again for the drift check of `apply` (`pass`; `Plan` lies between
the two and `Start` after them), and the prices under a lookup key for each update of
a price (`LookUp`, with `mine` what it has seen of its own); each read may fail.
`KeyOf` gives any two runs one Idempotency-Key that share it. `there`, `before` and
`landed` are history.

### MockWorkspace

`stored` is the backend's table, `run[r]` one run of one version of the document,
with the revision it planned and the one it validated. `Engine` is `PlanRules` over
the resource types of the mock. Failures and drift are the simulations the provider
offers itself. `Scalars` are the values of fields; `SpecAssumption` says what the
schema of the document leaves, so that rows are leaves of the right fields.

## 3. Runs

Passing:

| Run | Instance | States | Shows |
|---|---|---|---|
| `exec_server` | 3 changes with every action and every acyclic dependency, 2 attempts, 1 cancelling client, failures, crashes, earlier results, one process | 940,000 | order, root causes, resumption, every call ends, and `Execution` implements `PlanRun` |
| `exec_clients` | 2 changes, 1 cancel, 1 verify, shared store, failures and crashes | 1,550,000 | no stale save makes the row claim more than happened |
| `life_approval` | 2 approvers of which 2 are needed, 2 clients planning, 1 applying, TTL 2, 5 instants, restarts | 218,000 | windows are not extended, approvals do not outlive them |
| `life_keys` | 3 applies, 2 keys, 3 configurations (another bundle, a denying environment), failures and restarts | 192,000 | a key names one launched operation, replays answer with it, policies still hold |
| `life_answered` | 2 applies with one key, drift, 2 instants, failures and restarts, fairness | 176,000 | every apply is answered |
| `own_rivals` | 2 owners, one with 2 versions of its document, 2 resources with 2 fields each, 2 applies that may overlap, deletions, 1 open plan | 1,720,000 | who is responsible earned it, and its value is in place but where one of three holes is open |
| `plan_build` | every graph over 3 resources, created, moved or deleted; every pair of values of one resource's fields; every fault of a document; options, policies, contracts and conflicts over 3 resource types; a provider that answers anything | 220,000 | what validate and plan agree on, the order, refinement, the baseline policy, who must be asked, convergence |
| `stripe_catalog` | 2 of 3 runs (two versions of one document, another document) under one Idempotency-Key, a shared lookup key, found objects, pages of one object, 2 attempts, losses, delays, repetitions | 197,000 | complete inspections, one write per success, owners, the account as declared |
| `stores` | 2 processes, 4 calls of record, set, delete and get, all three kinds of key, crashes, failed appends and writes, edits by hand, fairness | 522,000 | the chain shows exactly the edits, order of calls, secrets readable, calls end |
| `mock_workspace` | 6 versions of one document, 3 runs, 2 at once, with the failures and the drift each simulates | 134,000 | no orphans, what was declared is there, what is fixed is foretold |

Why these bounds. *Execution*: three changes are the least with a chain, a fork and
a join; a dependency decision looks at one change and the set before it. Two
attempts reach both sides of the limit. One cancel and one verify suffice for every
overlap of two writers with the engine. *Lifecycle*: two approvers against a
requirement of two tell "enough" from "some". Five instants with a TTL of two hold
two windows that touch and one that is past. In `life_keys` a third request comes
after one that died and one that joined. *Ownership*: what stands at first is one
document's work, one open plan and those of two requests are a stale one and a fresh
one, and two applies overlap or follow one another; that each of the three holes is
needed shows when it is left out of `exposed`, which TLC then refutes. In
`own_overwritten` two open plans and three applies are what the story takes. *Planning*: three resources give every shape of cycle there is in
a search (a loop, a two-cycle entered from outside, a three-cycle) and every order
of chains, forks and joins; `diff` looks at one resource at a time, and at three
paths of it, one of them inside another. The parts are put in families because they
do not interact: the graph does not look at fields, nor the rules at the graph.
*Stripe*: pages of one object, with a limit of three, make some listings of the
instance just fit and others fail, as prices are created; of two runs under one key
each is once the one whose write is made and once the one that is answered with it,
and a third would only repeat the second.
*Stores*: four calls hold one that fails, one queued behind it, one after a restart,
and one that edits show up against; two mutations hold a failed first write and a
second. *Mock*: three runs are a version, another one, and the first again.
Bounds that exist for model checking only are `MaxTime`, `MaxPlans`, `MaxApplies`,
`MaxRecords`, `MaxCalls`, `MaxMutations`, `MaxBegun`, `MaxAtOnce` and `MaxColumns`; the theorems
below hold for all values of those of their modules.

Deadlock is checked where the specification has an explicit end or always a step:
`Execution` (`Rest`), `PlanBuild` (`Ended`), `StripeCatalog` (`Done`),
`PlanLifecycle`, `Ownership`. In `stores` and `mock_workspace` all calls of the
instance may have been made and answered, and nothing is left to do.

Fairness. `Execution` (`EveryCallEnds`): weak fairness of `Apply` and of calls that
clients have begun: Node resumes what has stopped waiting, and a provider call is
over at the latest when its timeout aborts it. Nobody has to make a call, and
nothing is fair about failures, crashes or late effects. It says that calls end and
that the row does then, as far as cancellations go; a `verify` that overlaps the end
of `apply` may leave the row running (below), so the run has none. `PlanLifecycle`
(`AppliesAreAnswered`): strong fairness of each request that has begun, because it
can move only while no other has the turn, and Node's queue is first come, first
served. `Stores` (`CallsEnd`): weak fairness of the log's own steps, which are
promise callbacks over a synchronous store.

Violations. Each checks one statement of a document, test or comment that the code
does not keep; PROJECT.json quotes both sides.

| Run | What TLC finds |
|---|---|
| `own_overwritten` | the re-check before executing looks at newly claimed paths only; a plan made while its document owned a field passes it after that field went to another document, and overwrites it (`runtime.ts:931`) |
| `secret_restart` | the `stores` instance with `FirstWriteMayFail`: a first write that fails leaves a cached key whose salt is lost; the next write stores another salt beside a ciphertext under that key, and after a restart the secret cannot be decrypted (`encrypted-file-store.ts:181`) |

### Deviations that no run checks

The models have all of these as the code has them. Those marked * were found by TLC
with an instance or a property of their own that the project no longer carries.

Operations and plans:

- * An accepted `cancel` is forgotten when `onProgress` saves the engine's copy over
  the row that `cancel` has just marked (`runtime.ts:530`; `execute.ts:27`,
  `SPEC.md:700`: cancellation between changes).
- * A `verify` that overlaps the end of `apply` saves the row it read before it
  inspected: the row says running for ever (`runtime.ts:595`; `docs/protocol.md:449`:
  "Re-verifying is safe").
- * A plan call that waits across the end of a window opens a new one dated before
  approvals of the old one, which therefore go on counting (`runtime.ts:376`;
  `SPEC.md:585`). `ApprovalsAge` still holds.
- * `contract.success` is outside the hash: changing it keeps the plan id and its
  approvals (`normalize.ts:74`; `SPEC.md:628`).
- * A document that conflicts with another one but finds its values in place gets a
  noop, and recording it takes the fields (`runtime.ts:962`; `SPEC.md:368`).
- * A resource is deleted while another that is being moved off it still depends on
  it: deletes wait for deletes only (`diff.ts:211` against its comment at 208).
- `cancel` refuses four of the six terminal statuses (`runtime.ts:606`,
  `docs/protocol.md:458`); a partially completed operation can be cancelled again.
- An error that arrives after the timeout has fired counts as a timeout and is
  retried, also when it was final (`execute.ts:206`; `SPEC.md:696`).
- When recording ownership throws, the row keeps `completed` without a verification
  (`runtime.ts:572`, `Reject` at `"record"`, against the comment at 570).
- With `SharedStore = TRUE` two runtimes can both run the operation of one key
  (`runtime.ts:486`) and replace an open window: `KeyNamesOneOperation` and
  `WindowIsKept` belong to the one-process server.
- A crash leaves the row running; nothing resumes it, and retries with the key are
  answered with that row.
- The number of approvals is the one computed at planning (`runtime.ts:847`); an
  environment that has become stricter under the same bundle does not raise it.
- The world may change between the drift check and the first write;
  `docs/security.md:167` accepts this.
- * With two applies in flight both can pass the re-check for one free field
  (`runtime.ts:912`); both write, and the record may name the one whose value was
  overwritten. `SPEC.md:380` asks for the re-check before executing, not for a lock.
  Deletions are not checked against ownership, and releases are
  recorded whether or not any change landed.
- * Since a noop can take a field, a plan made before that passes the re-check and
  writes its own value: B's first version has set a field, a document of A that asks
  for the same value takes it by a noop, and the plan of B's second version, which was
  made while B had the field and so claims nothing, overwrites it.
  These are the steps that `exposed` names; fields they have touched are what
  `OwnersValueIsInPlace` leaves out, and the only ones.

Rules:

- A refinement that marks a change as `destructive` does not raise its score
  (`scoreChange`), as `docs/provider-authoring.md:436` says it does.
- A refinement may change `reversible` and `fields`, which count in the risk that is
  then computed; an `estimatedRisk` that it sets (SPEC §13) is overwritten.
- The condition `environment: 'production'` is exact, while the weight of an
  environment accepts `prod`, `live` and any case.
- Of two rules with one id the requirement of the later replaces that of the earlier
  one of the same policy, so `RiskyWritesAreAsked` is about
  bundles in which nothing replaces the rule about high risk (`OneOfItsName`).
- A rule with empty `constraints` never fires. A missing attribute and an explicit
  null differ where immutability is judged.
- The share of matching leaves is rounded to four digits: from 20,000 leaves on one
  mismatch rounds up to satisfied (`verify.ts:82`), which the theorems exclude
  (`FewLeaves`). Only leaves of the desired state
  are compared, so extra items at the end of a list go unnoticed (`verify.ts:59`).
- `validate` reports nothing but missing secrets when secrets are missing.

Stores:

- Deleting the last rows of the audit table leaves a chain that verifies
  (`docs/operations.md:139` promises to detect edits).
- A failing audit append in `secret.resolve` ends the process (`runtime.ts:758`).
- Two processes that write one secret file lose each other's changes, as there is no
  queue between them (`encrypted-file-store.ts:106`); `WritesAreSafe` in `Stores_proof`
  excludes them, and the property is about the mutations of one process.
- The variables of the secrets `a/b` and `a-b` have one name.

Providers:

- * Stripe's key is the client's key and the change id, which is the same in every
  plan of the same change; with the key `docs/interoperability.md:161` recommends, a
  later plan's change is answered with the earlier response
  (`provider-stripe/src/provider.ts:252`) and recorded as succeeded. All runs of
  `stripe_catalog` share a key, and the theorems let any share one: a recorded success
  is the run's own write or another run's under the same key (`sameRequest`), and
  `AccountIsAsDeclared` leaves out the changes of the second kind (`AnsweredByAnother`),
  for which it is false.
- A price's nickname that is cleared is never sent, metadata keys that are removed
  stay, and a listing of more than 20 pages of the whole account cannot be read.
- * The mock's `validate` judges changed columns by other rules than the plan: a
  change of a column's type passes it, and the plan then wants a replacement
  (`provider-mock/src/provider.ts:148`); only engine and currency are foretold.
- * An update is merged into the stored row, so a field that the document no longer
  declares is reported as a difference for ever (`provider.ts:253`,
  `docs/operations.md:313`); `DeclaredIsDone` is about the declared ones.
- The mock's inspection returns no dependencies, so deletes are not ordered.

## 4. Theorems

All proofs are checked by TLAPS to the last leaf, from the ASSUMEs of the modules
only and, where it is said, from an assumption of the theorem. They hold for every
value of the constants: any number of changes, attempts, clients, plans, keys,
configurations, documents, resources, processes and restarts.

**Execution** (`Execution_proof`). `TypeCorrect` needs two strengthenings: the
attempt counter is below the limit wherever the engine may call again (`Counters`),
and a client between two steps has read a row (`Snapshots`). Safety rests on
`SafeInv`, because none of the checked invariants is inductive alone:

- `RecordsFaithful`: *every* copy of the record, in memory, in the row or in the
  hands of a client, is faithful to the world. This is what makes stale saves
  harmless: a faithful record stays faithful, as the world only moves forward
  (`FaithfulStays`);
- `PlanOrdered`, `SettledByPlan`, `SkipsHaveCause`: what is recorded of a change
  agrees with its action, and each skip leads to an earlier failed or blocked change;
- `TriedIsReady`: the change being tried has its dependencies.

From it follow `DependenciesFirstAlways`, `RecordedSuccessIsRealAlways`,
`CompletedIsEarnedAlways`, `IncompleteHasCauseAlways`, `NeverRepeatsSuccessAlways`,
and `Implements`: `Spec => ImplementsPlanRun`, by mapping `done` to `effected` and
the outcome to the status in memory, step by step (`StepImplements`).

**PlanLifecycle** (`PlanLifecycle_proof`). Each theorem has its own invariant:

- `WindowInv`: every plan, in the store or in a request, was made in the past and is
  open for exactly one TTL. Since the gates ask for an open plan and count
  approvals from its creation, `ApprovalsAgeAlways` follows, with
  `OneWayPastGates` (no request gets past the gates but through them);
- `ApprovedInv`: enough approvals count for each request past the gates, and a later
  approval only replaces an earlier one (`CountedGrows`): `LaunchedWithApprovalAlways`;
- `PoliciesInv`: what the gates saw of the configuration stays true, because another
  one comes with a restart and no request survives it:
  `LaunchedUnderItsPoliciesAlways`;
- `ClaimInv`: the operation of a request is the one that claimed its key, and exists
  when it is answered with: `ReplaysAreClaimed`, for shared stores too;
- `TurnInv` (what does not wait has the turn), assuming `SharedStore = FALSE`. With
  `SavingInv` (the window about to be saved is that of the stored plan, unless it
  has expired) it gives `WindowIsKeptAlways`; with `OwnerInv` (a claimed key names
  a request that came with it) and `AloneInv` (no request about to launch shares its
  operation with one that has launched) it gives `KeyNamesOneOperationAlways`.

**Ownership** (`Ownership_proof`). `EarnedInv`: what has landed in a request under
way was earned, and so was everything recorded: `ClaimsAreEarnedAlways`.
`OwnersValueIsInPlaceAlways` assumes nothing: applies overlap, deletions run, owners
change their minds. `PlaceInv` adds to the property what keeps it, all of it but for
exposed fields: a request past the re-check is entitled to what it is going to set
(`Entitled`: each such field is free or its owner's, since the re-check saw it so or
the field is `unchecked`), the world is as it was inspected where the request has
still to work and as its document says where it has (`Done`), and no two requests
under way have a change for one resource (`Apart`). So what a request sets is nobody
else's, what it records is in place, and what it does not touch stays as it was for
the others (`Undisturbed`).

**PlanBuild** (`PlanBuild_proof`). `TypedDiff` says that states are well formed and
that each change is what the diff made it, or blocked, wherever the plan may still
be used; the diff itself is well typed because applying leaves never puts one inside
another, which is also what keeps immutable fields (`UpdateKeepsFixed`) and so
carries `NothingIsDestroyedAlways` (`KeptInv`: under the baseline policy no change of
a plan that runs deletes or replaces). `OwnedInv` adds that what another document owns
is as it was: `PlanIsTheDiffAlways`. `AnswerInv` ties the stage that refused a document to
the stages of `validate`: `ValidateForetellsAlways`. `PlanIsOrderedAlways` needs the
invariants of the two algorithms, for graphs of any size: `OrderInv` (what is placed
has its dependencies before it, once), `StackInv` (the stack of the search is a path
in the graph without repetition) and `CycleInv` (what is answered is that path,
closed).

The run of a plan rests on `RunInv`: each resource is as the change made it if it
succeeded and as it was found otherwise, and what a success waited for was met
(`NoopInv`: a noop of the diff stays one, so what it waited for is there). It gives
`WritesFindTheirDependenciesAlways`, and `ConvergesAlways` with three lemmas: no
report is empty by hiding (`NothingHidden`: `fieldDiffs` drops a difference only for
one inside it, which nothing hides, as no side has three paths in a row), what was
written agrees leaf by leaf (`AgreesWhenDone`), and the rounded share of matching
leaves is one only when all match (`VerdictIsRight`, from `FewLeaves`: fewer than
20,000 declared leaves). `RiskyWritesAreAskedAlways` assumes `OneOfItsName`: other
rules of the bundle have another policy or id. `JudgedRisk` says that the risk the
rules see is the one computed from the score, whatever the provider answered, and
`HighIsAsked` that the rule asks for the highest of those it finds. The instance of
`plan_build` meets both assumptions.

**AuditLog** (`AuditLog_proof`). With `h` rows in the table, `Sound(h)`: the rows are
`1..h` and each is linked to the one before, up to edits of its content; the tail of
each process is a row of the table or its end (`TailOK`), so that an append by a
process that fell behind hits an existing number; calls in a queue are later than
the rows of their process (`QueueBehind`). `VerifyFindsTheEditAlways` and
`CallsKeepOrderAlways` follow. `TypeCorrect` adds `Shape` and needs the bound
`MaxRecords` to be a number.

**SecretFile** (in `Stores_proof`). `KeptIsReadableAlways` assumes `WritesAreSafe`:
one process writes the file, and its write of a file that is not there yet succeeds.
Without either the property is false (`secret_restart`). `SecretInv` says of the file
that everything in it is under the key that a fresh process would derive (`FileOK`),
and of each process that the key it keeps is that of the file, or of the file it is
about to write, which is the present one with its own mutation applied (`VaultOK`).

**Stores** (`Stores_proof`). `StoresKeepALog` and `StoresKeepAFile`: the composition
implements `AuditLog` and `SecretFile`, each step by step, so that what is proved of
either is carried over (`VerifyFindsTheEditAlways`, `CallsKeepOrderAlways`,
`StoresKeepSecrets`). This needs `Coupled`, that a process has both stores or neither,
since a failed append of the one kills the other; `TypeCorrect` follows from the same
`StoresInv`.

**StripeCatalog** (`StripeCatalog_proof`). `CatalogInv`: a request under way is for a
write of a run that has begun to write and still sees what it saw, and names an
object of its owner if it changes a price; what a run has seen of its products is
there and its owner's. Hence no step changes an owner: `OwnersKeepTheirsAlways`.
`SuccessIsOneWriteAlways` is for any sharing of keys: `WriteInv` says that the keys
Stripe knows are exactly those of the changes that landed, that of the runs which send
a change under one key at most one has it landed, once, and that each success of a run
was answered for a write under its key (`Answered`).

`InspectionIsCompleteAlways` needs no assumption. `InspectInv`: what was there when a
run began to read is still there (objects are deactivated, never removed, and keep
their owner), and each listing has been seen up to its cursor or to its end; that a
page leaves no gap rests on the order in which Stripe lists, by number, for any page
size and whatever others create meanwhile. `AccountIsAsDeclaredAlways` has `AlignedInv`: while a
run applies, alone for its document, each object is as declared whose change landed or
was not needed, and a price that is updated has the fixed parts that are declared
(`ProductOK`, `PriceOK`); each outcome agrees with what was asked (`OutcomeOK`), and
`CatalogInv` keeps a request to a price under its lookup key. For a success it has
`WriteInv`: it is the run's own write, or another run's under the same key
(`AnsweredByAnother`).

**MockWorkspace** (`MockWorkspace_proof`). `RunsOK`: rows are well formed, and the
plan of a run is the diff of its document against the revision it planned; this gives
`TypeCorrect` and `FixedTermsAreForetoldAlways` (what `validate` checked is what the
diff replaces, for databases and subscriptions). `NoOrphansEver` adds `Standing`:
a database or a user that a run has found in place or has written is there when its
tables and subscription come, because the mock deletes nothing but tables (`Grows`).
`DeclaredIsDoneAlways` adds `Undisturbed`: in a run that nothing disturbed, what is
settled is as the run left it and the rest as it found it (`Progress`). An update is
merged into the stored row, so the row agrees with the declared fields only, which is
what the theorem says; it assumes `FewLeaves` too.

Model-checked only are the three liveness properties, `EveryCallEnds`,
`AppliesAreAnswered` and `CallsEnd`: fairness is out of TLAPS's reach. Every invariant
and action property that a passing run checks is a theorem.

Abstractions the theorems inherit: a hash never collides; an idempotency key is
claimed by one atomic statement and a row saved by another, as in SQLite; a rename
replaces a file at once; Stripe replays its first response under a key and rejects
what its test stub rejects.

## 5. Not modelled, and what is left

PROJECT.json lists every component with its status. Left out for good, because they
keep no state and only transform data: routing, authentication, OpenAPI, the CLI,
the provider SDK, logging, the parsing of policy files, JSON schema validation, the
canonical form, the redaction of answers (the runtime passes no values to redact to
the audit log), the evaluation of CEL expressions, and the ticking of back-off
delays. Of the Stripe provider, metadata and descriptions of the user are left out,
since they are written like names, and a change of a price's metadata, which is
always refused. That a Stripe run ends is not stated: its attempts and pages are
bounded by constants of the model as of the code.

Hazards that no property covers carry a note in PROJECT.json: mostly what the code
really loses (a cancellation or a final status under a stale save, a deletion before
its last user has moved), and two where a property would only repeat the model (the
weights and limits of the risk score) or need an instance out of TLC's reach (20,000
leaves). The validity and the approvals of a plan are looked at once, at the gates: an
expiry between the gates and the first write is in the model and allowed by it, as by
the code.

Left: a composition of `Execution` with `StripeCatalog`'s runs in place of its
abstract provider, so that the engine's late effects and Stripe's replays meet.
