# A verification development for the Exasol Terraform provider

The provider creates, renames and drops users, roles, connections and schemas
in an Exasol database and grants and revokes privileges on them. Exasol gives
none of these objects a stable identity: a name is all the provider has, Exasol
silently moves grants along when a name changes, and Terraform runs the
operations of one apply in parallel. Most of what is hard in this code follows
from that, and most of these modules are about it.

## The system

| Part | State | Operations |
|---|---|---|
| rename log (`exasolclient/client.go`) | map from kind and old name to current name, for one provider instance | `Record`, `Lookup` |
| read cache (`exasolclient/read_cache.go`) | map from query to a view with `loaded`, `err`, `rows` and a mutex | `Rows`, `Clear` |
| statement runner (`execWrite` in `resources/helpers.go`) | loop counter, the caller's context | run, retry on SQL error 40001, stop on cancellation, clear the cache |
| locks (`resources/delete_mutex.go`) | `deleteMutex`, one mutex per grantee name | `lockDelete`, `lockGrantees`, `lockGranteesAndRenames` |
| endpoint helpers (`resources/helpers.go`) | none | `resolveEndpoint`, `renamedAway`, `requireExists`, object targets |
| users, roles, connections, schemas (`*_resource.go`) | objects in the database, Terraform state | Create, Read, Update (with rename), Delete, Import |
| role, system privilege, connection, impersonation and object grants (`*_resource.go`) | grants in the database, Terraform state, for object privileges private state too | Create, Read, Update (move), Delete, Import |
| provider (`provider/*.go`) | connection pool | read the configuration, connect with retries until `connect_timeout` |

How they meet: every handler that changes the database goes through
`execWrite`, which clears the read cache; `Read` handlers answer from the read
cache; renames write the rename log while they hold `deleteMutex`; grant updates
and deletes hold `deleteMutex` and the locks of their grantees, and read the
rename log to find where a grant lives now; grant creates only hold the lock of
their grantee. Terraform orders operations by the references in the
configuration and by nothing else.

What is hard here, and the property each component owes:

- *rename log*: chains, swaps and reuse of names. A name that state recorded
  leads to the object it named.
- *read cache*: a load that overlaps a write, a caller that is cancelled while
  others wait for its load. No answer is older than the last `Clear`; errors of
  one context stay there.
- *execWrite*: a retry after an unclear answer, the retry limit. One effect at
  most, no collision reported with few competitors, cache cleared on every way
  out.
- *locks*: two kinds of locks, names that change while one waits. Statements on
  one grantee exclude each other; nobody waits for ever.
- *grant moves*: old and new name looked up, then several statements, each of
  which may fail. Nothing is lost before the new place is known to exist, nothing
  of others is revoked, nothing is left behind.
- *object lifecycle*: a sequence of statements that fails half way must leave a
  state from which the next run continues; names are freed and taken in any order,
  and no handler may touch an object that is not its resource's.
- *object privileges*: a list of privileges, `ALL`, and target names that may differ
  in case only. What was granted is found again, on the object it was granted on.
- *connection set-up*: a deadline, a bound per attempt and a pace. Neither give up
  early nor go on for ever.

## Modules

| Module | What it is |
|---|---|
| `RenameOps` | the pure part of the rename log: `Normalize`, `Key`, `Record`, `Lookup` on a log that is a function from keys to names |
| `RenameLog` | the log next to the objects that are created, renamed and dropped |
| `FreshReads` | what the cache promises: reads of the database itself, none older than the last write that returned before |
| `ReadCache` | callers of `Rows` and of `execWrite` around the cache; implements `FreshReads` |
| `ExecWrite` | the retry loop of `execWrite` |
| `RoleGrantApply` | one apply: Create, Update and Delete of role grants next to creates, renames and drops of users and roles, with both kinds of locks, the rename log and failures; extends `RenameOps` |
| `SchemaLifecycle` | one `exasol_schema` over several applies: every handler, with failing statements, edits of the configuration, imports and other sessions |
| `NamedObjects` | several `exasol_user`, `exasol_role` or `exasol_connection` resources over several applies, in one space of names: every handler with failing statements, lost answers, imports and other sessions |
| `GrantLifecycle` | one grant of any of four kinds over several applies: every handler and the import, with failing statements, lost answers, a renamed endpoint and other sessions |
| `ObjectPrivilege` | one `exasol_object_privilege` over several applies: every handler, with its list of privileges, its target in private state, renames of both ends, failing statements and other sessions; extends `RenameOps` |
| `Connect` | the loop of `NewClient` |
| `RetryProofs` | the theorems about `ExecWrite` and `Connect` |
| other `*Proofs` | the theorems about the module of that name |
| `MC*` | values for the constants; each extends the proof module where it has one of its own, so that TLC evaluates its assumptions and an inductive invariant can be added to the cfg while a proof is worked on |

Definitions keep the names of the source where they have one. Definitions with
the comment "Mutant of X" are wrong versions of X that a property has been
seen to reject; nothing uses them.

### RenameOps and RenameLog

A key of the log is a kind with a normalized name, a log is a total function with
`NoEntry` where the Go map has no key. `Record`, `Lookup` and `normalize` are
translated as they stand; schema names keep their case, all others are compared
in upper case.

In `RenameLog` objects have an identity, which Exasol does not show, so that
"the object this name meant" can be said. `RenameStatement` and `RecordRename`
are the two halves of the rename branches of the Update handlers, which hold
`deleteMutex` across both; `Create` takes no lock and may come between them;
`Drop` is also what another session may do. `once` chooses between two settings:
each object has at most one Create or Update, as in one apply, which is what a name
in state relies on; or objects are renamed again and again, which the log itself must
follow. A rename whose statement fails
changes nothing and is left out. A rename that commits but whose answer is lost
is not in this module (nothing would be recorded); `RoleGrantApply` has it.

### ReadCache

The database is its version, the number of statements committed. A view is what
the Go struct has: `loaded`, `err`, and instead of rows the version they show. A
reader goes through `GetView` (under the cache's mutex), `LockView` (the view's
mutex and the test of `loaded`), `Query`, `Fill` and `Answer` (unlock). A view
that `Clear` has replaced can still be filled by a load under way, which is the
interesting case. `Exec` stands for the whole statement, with its retries; the
commit and the deferred `Clear` are separate steps.

`FreshReads` says what a Read handler may rely on, with no cache in sight: an answer
is the database as it was at some moment between the last return of a write before the
read began and the answer. `ReadsAreFresh` in `ReadCache` is `FreshReads` with a
refinement mapping: the version when the last `Clear` ran is `returned`, the version a
caller had to see at least is `floor`; taking a view, waiting for it, querying and
filling are stutters. An error counts as an answer, of the version its query met.

### ExecWrite

One step per turn of the loop: the statement begins, then commits (and its
answer may be lost), fails, or collides; a collision leads to another attempt or
out of the loop; in the wait the context may be done. What a collision is comes
from Exasol and is an assumption, stated in the module: error 40001 means the
statement was rolled back, and it is raised because another statement committed
since this one began.

### RoleGrantApply

An apply is a *scenario*: names of the principals before and after, prior state
and plan of every role grant. One operation per principal and per grant runs,
each one step at a time: every lock, every query and every statement is a step.
A statement succeeds, is refused by the database, or fails; a failing one may
have taken effect (the connection broke). Terraform's order is in `DependsOn`: a
grant waits for the creation or renaming of the principals its plan names, a
principal that takes a name over waits for the one that gives it up. Deletes,
and the *prior* names of an Update, are not ordered against renames and drops.
Grants are kept per pair of identities, as Exasol moves them with a rename.

A user's or role's plan changes its name only; the statements an Update runs
after its rename touch neither names nor grants. Validation of identifiers,
which returns before any lock or statement matters, is left out, as is what is
written to Terraform's state on success.

### SchemaLifecycle

The database has, for every name, the schema with its owner and comment, and what
the properties need to tell: whether this resource made it, whether somebody has
put objects in it, whether its comment is from this resource. `state` is
Terraform's state, `prior` the `req.State` of the handler that runs (`NoState` in
Create). An apply is `Refresh` (Read and the plan), then the steps of one handler:
`Create`, or `Rename`, then `SetComment` and `ChangeOwner` where they are needed,
then `ReadBack`; or `Delete`. Each executes one statement: it runs, it is refused
(the name is taken, the owner does not exist, the provider's user has no right), it
fails, or the apply was cancelled before. State changes where the code sets it: in
`Rename` (`keepRenameInState`), at the end of `ReadBack`, and in `Delete`; a
failed handler keeps it, as Terraform does. `Undo` is the drop in Create's error
path, which a cancelled apply does not stop.

A CREATE or RENAME that takes effect while its answer is lost is left out: the
provider learns nothing of the new name then, so no handler could keep it.
Identifier and comment checks, which reject the input first, are left out, too.

One assumption on Exasol: Read and the read-back of Create and Update ask
`EXA_ALL_SCHEMAS` (`schema_resource.go:199`, `225`, `342`), and the model lets it show
every schema that exists, also one whose owner has changed while the provider's user has
no right over schemas of others (`dba = FALSE`). The repository only says that the
`EXA_DBA_*` views are independent of access (`helpers.go:191-192`). If `EXA_ALL_SCHEMAS`
hid such a schema, a read-back would fail after the owner changed, and Read would take
the schema for gone; `schema_readback` shows what a failed read-back leaves behind.

### NamedObjects

Users and roles share one space of names, connections have one of their own, and
Exasol knows an object by its name alone. An object is the attributes that a system
view shows (how a user is authenticated, the user of a connection), the one that none
does (a password), and `by`, a history: the resource that made or imported it. An
apply is `Refresh`, which reads and plans every resource, then the handlers in any
order, one statement a step: `Create`; `Rename`, with `keepRenameInState` in the same
step, and the `Alter` that may follow; `Drop`. A statement runs, is refused (the name
is taken, the object is gone, the password is missing), or fails, in which case it may
have taken effect all the same. What such a lost answer leaves unknown depends on the
statement. After a CREATE, RENAME or DROP, names no longer tell whose object is whose;
the same goes for another session in the middle of an apply. Both set `blurred`, once
and for all, and `NothingOrphaned`, `OnlyOwn` and `SuccessMeansConfigured` are only
about histories without it. After an ALTER all is known but the password, and
`unanswered` remembers which one it set, until a CREATE or ALTER of the resource is
answered. Such histories are in all properties; `SuccessMeansConfigured` then allows
that password beside the configured one (see Limits). `Settles` is about all histories.

`buildAlterConnectionSQL` leaves out a user or password that is not configured. Whether
Exasol then keeps the old one is not in the repository, so `keeps` chooses either. An
exact read of a password is impossible; one set by another session is not noticed
(`Elsewhere`, also for an object that another session has made again), and
`Configured` allows it, as it does any password of a user who logs in otherwise.
`deleteMutex` and the rename log make no difference here, where every handler is one
resource's and no grant is around.

### ObjectPrivilege

Principals and schemas have an identity, and `held` are the rows of
`EXA_DBA_OBJ_PRIVS` per identity, as Exasol moves them with a rename. The target has
its `spelling` in the configuration and its exact name, `target`, in private state;
`Spellings` has pairs that differ in case. An apply is `Refresh`, `Begin`, which plans
and starts the handler, `LookUpdate` or `LookDelete`, which takes the queries before
the first statement as one step, one `RevokeNext` or `GrantNext` per privilege, with the
query before it, and `Finish`. The diff of two lists is walked as a Go map, so the
order is any. Update and Delete hold `deleteMutex`, so that a rename comes before or
after them; Create holds its grantee's lock only, which no rename takes, and the grantee
or the schema may be renamed between two of its GRANTs.

`own` are the rows that an import found or that a handler that ended well granted or
kept, `subject` the two identities that state was about when it was written. When another
session drops one of these, the name may come to mean something else, and the provider
cannot know: `SubjectExists` excludes it where a property is about identity. What was
dropped does not come back as the same identity. `Rename` is
another resource's of the same apply, whose state has the name it gives up; so no name
is given up twice. `split`
marks two limits: the rename and the change of the grant fell into different runs, or
the grantee or the schema was renamed under a running Create. Objects in a schema move with it and are
not told apart from it; the object type is fixed.

### Connect

Time is counted in ticks from the call of `NewClient`, and passes in `Ping` and in
the wait only. A ping that begins when the server can be reached gets through; one that began
before may hang until its window ends, or fail at once; the server may refuse the login
at any time, which is no reason to retry. `configured` runs over negative values and
none (`LoadConfig`).

### GrantLifecycle

A role grant, system privilege, connection grant or impersonation grant (`kind`) is
a *thing* granted to a *grantee*, for the first two with or without the admin
option. An apply is `Refresh` (Read and the plan), the steps of one handler and
`Finish`. The kinds share the steps and differ as the code does: a privilege has no
endpoint to look up; impersonation checks its target in Create, asks for the new
grant before it revokes the old one and grants the old one again (`Restore`) when
the new GRANT fails; the others ask after the REVOKE (`LookNew`) and compare the
admin option. `Look` takes the queries before the first statement as one step;
other sessions and failures can come between it and each statement. What parallel
handlers do to each other, several renames in an apply and names that are swapped
are in `RoleGrantApply`; here at most one endpoint is renamed in an apply, before or
after the handler, which holds `deleteMutex`, and the log lasts as long as the apply.

`ImportState` takes a grant that is there into state, and from then on it is the
resource's own. `own` are the pairs this resource imported, or granted with an answer. A GRANT whose answer is
lost may leave a pair nobody tracks; the provider cannot know, and `own` leaves it
out. `split` remembers that a rename was run and the change of the grant was not,
after which the next run cannot find the old grant; `role_resource.go:40-41` and the
other descriptions document that limit.

## Runs

| Run | Question | Bounds |
|---|---|---|
| `rename` | does a name in state lead to its object? does the log follow any sequence of renames? | 3 principals, 1 schema, 4 spellings of 3 names (one pair differs in case), with at most one Create or Update per object and with any number |
| `cache` | is an answer ever too old, or another caller's cancellation? does it all look like fresh reads? does every call return? | 2 readers, 2 writers, 1 query, 3 views |
| `write` | is a retried statement applied once, does any collision surface, does every write return? | 2 calls, 4 foreign statements, 2 retries, so that the limit is reached |
| `apply` | do grants end where the plan wants them, does nobody else's disappear, does every operation end? | 2 roles, 3 users, 2 grants, 983 applies, 1 failure |
| `apply_reuse` | the same as `apply` when a dropped user's name is reused: violated, see below | 4 applies, no failure |
| `schema` | does a schema ever leave state unreported, lose objects, or differ from its configuration after a successful apply? does applying again succeed? | 2 names, 3 owners (the provider's user, another, a missing one), 1 comment; 3 edits or imports, 2 failures, 1 act of another session; provider with and without DBA rights |
| `schema_readback` | the same as `schema` when Create's last query fails: violated, see below | 1 failure, no edits |
| `schema_comment` | does removing the comment clear it? violated, see below | 2 edits, no failure but a missing owner |
| `grants` | what does a successful apply leave, what does a failed one keep, does applying again succeed? | 4 kinds, 2 grantees, 2 things, all existing or one name free; 2 edits or imports, 1 rename, 1 act of another session, 1 failure |
| `object_privileges` | the same for lists of privileges, and: does every statement stay on its object? | 2 principals, 2 schemas, 2 names of principals and 3 of schemas, two of which differ in case; 2 privileges and `ALL`; 2 events (failures, renames, other sessions), 1 edit; from nothing or from an import |
| `named_objects` | is an object ever orphaned, or another resource's touched? is a successful apply's resource as configured? does applying again settle? | 2 resources (two users, a user and a role, two connections), 3 names, 3 or 4 configurations of each kind, `keeps` either way; 1 event (failure, lost answer, other session), 2 edits or imports |
| `connect` | when does the loop retry, when does it give up, does it return? | interval of 3 ticks; timeouts -1 to 9 and unset; the server can be reached from tick 0 to 13 on |

Why these are enough. The rename log's interesting cases need a swap (two
objects and a spare name) and a newcomer: three of each. The cache needs a load
from before a write and a call after it, and a call that shares the view of another;
two of each do for both, with a view to spare for each `Clear`. With 2 calls, 4
foreign statements and 2 retries a call can meet just as many competitors as it has
retries, and more, which is the boundary of the claim; the code has eight retries, and
the theorem any number. In an apply, one grant
that moves and one that is created, deleted or moved at the same time are enough
for every pair of handlers to meet; three users give chains (A to C, B to A) and
a name that is dropped or created; one failure reaches every error path of a
handler, and a second one would only end another operation the same way. A schema
needs a second name to be renamed to and to meet a schema of others; two failures
fail the handler and then its recovery; three edits fit a change that fails, a
second change and a return. A grant can move to another grantee, another thing or
both; one failure and one drop by another session fail a GRANT and its rollback. An
object privilege needs a rename and a failure, or a rename and a newcomer that takes the
name, in one apply: two events. Two named resources with a third name exchange their
names, take each other's, or chain; two edits fit a change of both. For `connect`,
what matters is how the timeout divides into intervals (none, a part, whole ones, and a
part more) and the time of recovery within one. The
proofs below need none of these bounds.

The 983 applies of `apply` are those of a larger set that are `Promising`, and the
theorems about names and grants assume no more. `Plausible` says what Terraform and Exasol
see to: names in the database are unique and in upper case, what is in state was found
by the refresh, and a plan does not name what it gives up. Three things are left out
beside, each a named predicate in `RoleGrantApply`:
- `NoHandOver`: two grants ask for the same pair, or one takes over a pair the
  other gives up, in one apply. Terraform does not order the two, and the
  provider cannot know.
- `NoHiddenMove`: a grant whose configuration stays the same while its name
  comes to mean somebody else. Terraform plans nothing for it; `CHANGELOG.md`
  (0.3.0, "Limit") documents this.
- `NoReuseOfDropped`: what `apply_reuse` is about.

### What apply_reuse shows

User `A` is dropped, a new user `A` is created and gets a role of its own, and a
grant of that role which state records for the old `A` moves to `B`. Terraform
runs that grant's Update after the drop, since its state refers to the dropped
user, but does not order it against the new user. `resolveEndpoint` finds no
rename and an existing principal `A`, takes it for the old one, and the new
user's grant is revoked. The acceptance tests ask that "an old name reused by a
new user in the same apply must not lose its own grant"
(`acceptance_test.go:944-945`), and test it for a name left by a rename; the
code does not tell a name left by a drop.

### What schema_readback and schema_comment show

Create drops its new schema again when the comment or the owner cannot be set,
because that "would leave the schema outside state, and the next apply would fail"
(`schema_resource.go:174-175`). The query that reads the owner
back comes after that (`:196-203`), and when it fails, or the apply is cancelled
during it, the schema is outside state all the same, and no error says so.
`schema` therefore has failures at every step but this one (in Update the
same query may fail there).

`docs/resources/schema.md:37` says that removing the `comment` attribute clears
the comment. An Update that sets a first comment and then fails to change the
owner leaves `comment` null in state, and Read leaves a null comment alone. If the
attribute is removed next, nothing is planned and the comment stays.

## Fairness

Every liveness run assumes weak fairness per goroutine: a goroutine that can run
does, every query and statement returns, the timer of a wait fires. Nothing is
assumed of cancellations, failures, other sessions or the order in which waiters
get a lock; since each operation takes a lock once, no waiter can be overtaken
for ever and weak fairness is enough. Go's mutexes guarantee more.

In `schema` and `grants` a handler that began goes on, and the user applies again;
failures, edits, renames and other sessions are bounded, so that "when they have
stopped" is every behaviour's end. What only a person can resolve is excluded by
name (`Blocked`): a configured owner or endpoint that does not exist, a name taken by others or
reported as left over, a schema that a provider user without DBA rights has given
away. In `object_privileges` applies repeat likewise, and `Blocked` are endpoints that
do not exist. In `named_objects` `Refresh` and every resource's `Handler` are weakly
fair; `Blocked` are names that two resources or somebody else want, a missing password,
and a connection's user that `ALTER CONNECTION` cannot remove. In `connect` the code
goes on, time passes while it blocks, and a ping answers when its context has ended.
`rename` and `connect` have `CHECK_DEADLOCK FALSE`: an apply ends, and `NewClient`
returns.

## Proofs

All theorems are checked by TLAPS for every value of the constants, from the
named assumptions in the modules: `NamesAssumption` (upper-casing is
idempotent), `ObjectsAssumption`, `CacheAssumption`, `WriteAssumption` (finitely
many calls), `ApplyAssumption` (principals and resources differ, the special
values are not names, scenarios have their shape), `NamedObjectsAssumption` (roles
have no attributes, connections do not share names with users), `SchemaAssumption`,
`GrantAssumption` (the special values are apart), `ObjectPrivilegeAssumption` (names at
first are unique per kind, there is a privilege, a list is not empty) and
`ConnectAssumption` (the interval is positive). Each has an inductive invariant that implies the
properties of the runs and is not itself in a run.

- `RenameLogProofs`: `RenameInv` says, for every object that has left a name,
  where the entry of that name points. It needs two things the properties do not
  mention: that an entry stays with the object that left last, also through the
  step between a rename and its record, and that names are unique per kind, so
  that following a chain moves the right entries. `LogTracksLastLeaver` and
  `LogResolvesStateNames` follow.
- `ReadCacheProofs`: `CacheInv` bounds the age of every view that is in the
  cache, of every view a caller has asked for since the last `Clear`, and of
  every load under way for one. Views that have left the cache are bounded by
  nothing, and no later caller can reach them. `ReadsSeeWrites` follows, and
  `LoadInv` adds that a loaded view never has a cancellation, that a cancellation is
  seen by the caller whose context it was and no other, and that no view shows a
  version the database has not had. `CancellationStays` and `LoadedOnce` (a loaded view
  stays as it is) follow; and `CacheImplementsFreshReads`, the refinement, for which
  `CacheInv` gives the lower bound of an answer at the step that answers, and `LoadInv`
  the upper one.
- `RetryProofs`, for `ExecWrite`: `WriteInv` counts: a call has had no more attempts than
  there were commits by others, the commits are the effects of the calls and of
  other sessions, and each call has one at most. So a call that still collides
  at its last attempt had too many competitors. `EffectsMatchResults`,
  `CollisionsOutnumbered` and `WritesVisible` follow.
- `RoleGrantApplyProofs`: `ApplyInv` is about one operation at a time. While an
  Update or Delete holds `deleteMutex`, the log does not change and principals
  only appear; what it has locked is still what `lockGranteesAndRenames` would
  lock now, so it covers the old grantee's current name as well. The lemma
  `FrameKeepsOthers` says once what any step leaves alone, and every handler
  step has a lemma that establishes its own part. `GranteesExclusive` and
  `MoveTargets` follow.

  The promises about grants are about identities, where the handlers see names.
  `WhoIsWho` adds to `ApplyInv` whose name is whose at each step: a principal has its old
  name or its planned one, what takes a name over waits for what gives it up
  (`ProgressInv`), the log has one entry for each rename that Terraform knows has
  succeeded and no other (`LogInv`), so that what a handler has looked up leads to its own
  grant (`FoundInv`). It is inductive for every `Plausible` apply in which nobody takes a
  dropped name (`KnownNames`), and `RevokesOwn` follows. Without that last hypothesis it
  is false, which `apply_reuse` shows. `PromiseInv` says of every grant what its handler
  has brought about so far and, since others run next to it, what they leave alone; it
  needs all of `Promising` (`Promises`). `WantedHeld` and `NothingLeftOver` follow.
- `NamedObjectsProofs`: `NamedInv` says why a name is enough. Until `blurred`, an
  object of a resource has the name that the resource has in state and its kind
  (`Owned`), the name in state leads to no other object (`HasOwn`), and no two
  resources have one name in state (`Distinct`); during an apply the name does lead to
  an object (`InApply`), which is why a name that a Create or a RENAME finds free is in
  no state. `NothingIsOrphaned` and `OwnOnly` follow. `KnownInv` adds what is known of the
  attributes: unless the handler has failed, what state has of them is in the database
  from the refresh on (`Known`), and the password there is the one in state, `Elsewhere`
  or one of `unanswered` (`HiddenOf`), which must hold between applies, too, as no refresh
  brings a password back. `WellConfigured` follows: until `blurred`, success means the
  configuration holds, but for a password of `unanswered`. Without that exception it is
  false.
- `GrantLifecycleProofs`: `LifeInv` joins what each step of a handler was chosen for
  (`HandlerInv`), where the one rename of an apply has brought the log (`RenameInv`), and
  what holds by this resource: the grant in state, at the place it is at now (`OwnInv`).
  That needs `EndsExist`, a grant disappears with its endpoints, since otherwise a new
  object under a dropped one's name would inherit it. `HeldInv` and `KeptInv` are
  only about applies that no other session touched. `LifeTypes`, `Granted`,
  `NoneLeftOver` and `Kept` follow, for all four kinds at once.
- `SchemaLifecycleProofs`: `LifeInv` follows the handler: `HandlerInv` says which schema
  each step is about, `ConfiguredInv` what has been brought about so far, `ReportInv` that
  a name the user was told of is outside state. `LifeTypes` and `Configured` follow.
  `NoOrphans` has two hypotheses about the constants, `ReadBackAnswers` and
  `ChangesAnswered`, which are those of the run `schema`; `schema_readback` shows that the
  first is needed, and without the second a lost answer hides a new name from everybody.
  With them, `OrphanInv` accounts for a schema at every step: it is in state, reported, or
  about to be either. `ObjectsKept` holds because `Undo` has no CASCADE and Exasol
  then drops empty schemas only.
- `RetryProofs`, for `Connect`: `ConnectInv` says where the clock may stand at each step: an attempt
  begins by the deadline and ends in its window, a wait ends by the deadline and
  by the next interval. `TimeoutKept`, `DelaysRiddenOut` and `AttemptsPaced` follow.

- `ObjectPrivilegeProofs`: `TypesInv` says what each step was chosen for. The rest is
  about identities behind names. `SubjectInv`: between applies the names in state are
  the subject's, unless `split`; during one, the log leads from them to it (`Now`), since
  no name is given up twice (`RenameFollows`). So what `resolveEndpoint` and
  `resolveKnownObject` find is where the subject is (`MoveFrom`), and an Update that does
  not move stays there (`NoMove`). `OwnInv`: every own row is the subject's and for a
  privilege in state, and while a handler runs it will yet be revoked or is asked for;
  without that second part a row could be lost sight of between two steps. `FoundInv` and
  `KeptInv`: what the refresh has found is there until the first statement, and an Update
  that begins to revoke has seen its new endpoints exist. `PrivilegeInv` joins them;
  `NothingLeft`, `AccessIsKept` and `OnTarget` follow. `GrantedWhenOk` needs `GrantedInv`:
  each configured privilege has yet to be granted, or is on the target and no REVOKE
  that is still to come takes it. Its hypothesis `AllAlone`, that a list has `ALL` or other
  privileges, is needed: see Limits. `MCObjectPrivilege` has TLC check that the run
  meets it.

Only model-checked: all liveness, which is out of the prover's reach, and the three
runs that expect a violation.

## Limits

What the models show and no property denies, so that a reader need not find it again:

- A Create of several object privileges that fails between two GRANTs has nothing in
  state. If the list is edited before the next apply, what was granted and is no
  longer listed stays. `own` counts what handlers granted that ended well.
- Create of an object privilege does not hold `deleteMutex`; a grantee or schema renamed
  between two of its GRANTs splits them (`split`). The references of a configuration
  order the rename first.
- An ALTER USER or ALTER CONNECTION takes effect and its answer is lost, so that state
  keeps the old password; then the configuration is edited back to that one. Plan and
  state agree (`user_resource.go:244-247`, `connection_resource.go:217-219`), nothing is
  sent, the apply ends well, and the database keeps the other password. No view shows it.
  `Configured` allows what is in `unanswered`, and nothing else, for this.
- A CREATE, RENAME or DROP of a user, role or connection whose answer is lost, and
  another session in the middle of an apply, leave open what a name in state leads to;
  what is promised of such histories is only that applying again settles (`blurred`).
- Read takes any privilege for `ALL`, so that one that was lost from an expanded `ALL`
  is not noticed. `Due` says when a successful apply promises them all.
- A list that has `ALL` next to another privilege: from `ALL` and `SELECT` to `ALL`, Update
  revokes `SELECT` and keeps `ALL` as it is, less `SELECT`; from the two to `SELECT` it
  revokes all and keeps a `SELECT` that is gone. Either ends well, and in the second case
  the next refresh finds the resource gone.
- Create of an object privilege grants on the spelling of the configuration as it
  stands; Update falls back to upper case (`ObjectTarget`).
- The last attempt to connect, which begins at the deadline, may take a whole
  interval, so that `NewClient` may return one interval after `connect_timeout`.
  `client.go:51-52` speaks of the time remaining, "if shorter"; at the deadline none is
  left, and the code takes the interval. `KeepsToTimeout` allows for it.
- A `connect_timeout` beyond some nine billion seconds overflows `time.Duration`
  (`client.go:58`). Ticks do not.
- A rename in one apply and the change of a grant in a later one, and two grants that
  hand a pair over, as said above.

## Not modelled

SQL escaping and log sanitizing (`security.go`, pure functions with unit tests);
schema declarations and documentation and how `provider.go` hands one client to every
resource; how `NewClient` puts the DSN together; `main.go`.

What could come next: an abstract grant that moves in one step or not at all, implemented by the Update handlers.
