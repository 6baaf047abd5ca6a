# A TLA+ verification project for terraform-provider-pcd

The repository is a Terraform provider for Platform9 Private Cloud Director: one
Go handler per resource and operation, called by Terraform core, each of which
sends requests to OpenStack services and to Platform9's resource manager (resmgr)
and records what it did as a row of Terraform's state.  The provider keeps no
state of its own but a mutex.  What is hard about it is everything around a
request: it can be refused, or carried out with its answer lost; the service
answers before the work is done and may fail it later; other handlers, other
people and the service itself change the same object meanwhile; and Terraform
may be interrupted between any two steps, to apply again later from whatever the
state and the service then hold.

## Inventory

| component | state | operations | hard behaviour | what makes it correct |
|---|---|---|---|---|
| routes on shared parents (`router_route`, `subnet_route`) | one entry of a list that Neutron stores on the parent; a mutex per parent | Create, Read, Delete, import | sibling resources read, splice and write the same list concurrently; a 200 without the object; lost answers; a dying process | no update lost, the mutex always released, a row owns its entry alone |
| security groups of shared ports (`port_secgroup_associate`) | the groups of a port; a shared or an exclusive claim | Create, Read, Update, Delete, import | several claims on one list, changed while others are written | a shared claim changes its own groups only |
| compute instance | the server, its row | Create, Read, Update, Delete | up to a dozen requests and waits in one Update; interruption; the cloud's own confirmation; reverts; failures after an accepted request | no server forgotten; what a successful apply reports is so; a failed one puts the power state back; applied again it converges |
| host configs and their assignments | resmgr's configs, which one each host carries, the rows | Create, Read, Delete, import | an unassign is answered before it is done; host endpoints answer 404 for a while; deleting a config in use cannot be undone | no host stranded, no assignment forgotten |
| cluster roles of hosts | the role, the settings of its granular role, the row | Create, Read, Update, Delete, import | a role is expanded and converges after the answer; the expansion resets settings; a PUT replaces them all | a recorded setting stays; the rest keeps what the control plane computed |
| load balancing | a load balancer and its listeners, pools, members, monitors | Create, Read, Update, Delete of each | Octavia locks the whole load balancer; a child's work fails after the answer; cascading deletes | nothing left behind; a deletion that fails is not taken for one that is slow |
| volumes, snapshots, backups, transfers; attachments; instance snapshots, rescue | Cinder and Nova objects | Create, Read, Update, Delete, accept | waits after each request, best-effort ones after attach and detach; a retype Cinder gives up | a created object is recorded before it is waited for; what is recorded arrived |
| images | a Glance image and its data | Create (create, upload or import), Read, Update, Delete, access, accept | an upload that fails half way, and a tidying up that fails too | no image left in the queue that the state does not hold |
| aggregates, clusters, blueprints, host roles, compute services | Nova's aggregates, resmgr's objects | Create, Read, Update, Delete | hosts one request at a time; a POST retried after a 500 | membership as configured; a second POST never taken for success |
| DNS, key manager | zones, recordsets, secrets, containers | Create, Read, Update, Delete | waits for ACTIVE and for the deletion | as for volumes |
| identity, flavors, keypairs, server groups, quotas, other networking | single objects | Create, Read, Update, Delete | a step after the POST (tags, extra specs, read-back) that fails | a row is dropped only when the object is gone |
| clients, tfstate | sessions; the row helper functions | retry of GET, HEAD and DELETE; rows without an ID | a retry of what was done already; a 2xx without the object | a write is never sent twice; no row names an id that is not there |
| instance actions, host drain | none | reboot, rebuild, migrate, drain | a list that is stale when used | |
| provider, data sources, tools | none | | | |

Components talk through the services and through Terraform: one resource's row
is another's input, Terraform runs the operations of independent resources
concurrently (one goroutine each, ten by default) and those of one resource one
at a time, and starts a separate plugin process per provider block.

## Modules

| module | models |
|---|---|
| `KeyedMutex` | `neutronParentMu` (networking.go): one mutex per parent ID and provider process |
| `ParentRoutes` (extends `KeyedMutex`) | `router_route_resource.go` and `subnet_route_resource.go`, which share the code: lock, GET, splice, PUT |
| `AtomicRoutes` | the abstract specification of the same: each operation adds or removes its own entry in one step |
| `ParentRoutesProofs` | theorems about `ParentRoutes` |
| `PortGroups` (extends `KeyedMutex`) | `port_secgroup_associate_resource.go` |
| `Nova` | one server as Nova shows it (external): which request it accepts when, the work it does after it has answered, its failures, and people acting on the server |
| `Instance` (extends `Nova`) | `instance_resource.go`, `instance_rebuild.go`, `instance_power.go`, `instance_owner.go`, `server_wait.go` |
| `Resmgr` | the resource manager (external), and how `resmgr.go` reads its answers |
| `HostConfigs` (extends `Resmgr`) | `host_config_resource.go`, `host_config_assignment_resource.go` and `waitUnassigned` |
| `HostRole` (extends `Resmgr`) | `host_cluster_role_resource.go` |
| `Onboarding` | `HostConfigs` and `HostRole` at work on the same hosts at the same time |
| `OnboardingProofs` | theorems about `Onboarding` |
| `Octavia` | one load balancer and what hangs below it (external): it locks the whole for each piece of work, answers before the work is done, and may fail it |
| `LoadBalancer` (extends `Octavia`) | `loadbalancer.go` and the resources of `loadbalancer`: the load balancer, and its listeners, pools, members and monitors |
| `LoadBalancerProofs` | theorems about `LoadBalancer` |
| `PortGroupsProofs`, `HostRoleProofs`, `InstanceProofs`, `InstanceWorkProofs` | theorems about `PortGroups`, `HostRole` (in `Onboarding`) and `Instance` |
| `Steps` | the vocabulary in which the other handlers are written down, and what a kind of resource is |
| `NetworkingKinds`, `BlockStorageKinds`, `ImageKinds`, `ComputeKinds`, `DnsKinds`, `KeyManagerKinds`, `IdentityKinds`, `ResmgrKinds` | the handlers of the other resources, 50 kinds, one module per directory of `services/` |
| `Lifecycle` (extends `Steps`) | what every step of a handler does to one resource, its object and its row, under Terraform's refresh, plan and apply |
| `ObjectCustody` | the abstract specification of the same: who answers for which object |
| `LifecycleRules` (extends `Lifecycle`) | what the handlers have in common, as assumptions TLC evaluates on them |
| `LifecycleProofs` | theorems about `Lifecycle` under these rules |
| `MC*` | small instances for TLC |

**State and actions.**  Each module has the service's state, the rows of
Terraform's state, and a program counter with the local variables of the
operations in flight.  One step of a model is one request with its answer, one
poll that ends a wait, or one computation between two of them.  A handler that
sends one request and waits for nothing is one action.  The row is written where
the handler writes it; what Terraform does with a handler's result (tainting
what a failed Create recorded, replacing it by a Delete and a Create) is part of
the action that ends the handler.

**Requests.**  A request the service cannot accept is refused.  One that it can
is accepted and answered, or accepted with the answer lost, or refused for
another reason; a write is never sent twice (`clients/retry.go` retries only
reads and deletions).  Apart from `ParentRoutes` and `PortGroups`, whose
failures are unbounded, failures are counted down from `MaxTrouble`, as are a
service's later failures and other people's actions.

**Waits** end well when the poll sees what the code waits for, and badly at any
time (a failed poll, a cancellation, a timeout) at the price of one failure; a
wait for what cannot come any more times out at no price.

**Kinds and steps.**  Most resources are one object of one service, and their
handlers differ in which requests they send in which order, where the row is
written, and what a failure leads to: exactly what goes wrong in such code.  So a
handler of these is a sequence of steps (`Steps`), written down next to its
functions' names, and `Lifecycle` gives each step its meaning once.  `Post` makes
the object, `Record` is `tfstate.RecordCreated`, `Send` a request that is sent if
its fields changed, `SendWork` and `Await` one that is answered before it is done
and the wait for it, `ReadBack` the GET at the end, `Destroy` and `AwaitGone` a
deletion; variants name what differs (a POST repeated after a 500, a 409 taken for
success, an answer nobody checks, a wait that may be given up, a wait that sends the
DELETE again).  `clients/retry.go` is in `Destroyed` (a DELETE whose answer is lost
is carried out and sent again), `clients/object.go` in `PostDone` (a 2xx without the
object), an object made by a POST without a usable answer is `unclaimed` until
somebody imports it.

A *field* is a group of arguments that travel in the same requests.  It has two
values, the one a fresh object has and another; a value of a configuration, row or
object is the set of the fields that have the other.  That tells apart what the
properties ask (did it arrive, is it in the row, does the plan show it).  A *trait*
says what the service does: refuse a second object of the name, build in its own
time, give work up and return the object as it was, answer a DELETE early.  The
object of a *standing* kind (a quota) is there before and after, and an *unheld*
one's Delete may end well without the object being known to be gone (a quota that is
left, a volume attachment whose wait may be given up); custody is not asked of them.

What keeps `Lifecycle` true to Terraform: a row is refreshed before it is planned
with, and again if something may have changed since (`refreshed`); a Create whose row
differs from its plan is tainted, as core does, an Update whose row differs is the end of
that apply (core's "inconsistent result") and the next one refreshes; configuration edits
come between operations; `run.calm` is FALSE if somebody interfered since the refresh, and
`AppliedMeansReached` asks nothing of such an operation.  It holds a Create to every
field, an Update to what it changes and what a Read sees: a change that no Read sees,
carried out without an answer and then taken back by the user, stays, and the provider
cannot know of it.  People outside change only
what a Read sees and what an update can change back, and delete only what a Read
looks for: the provider cannot know of the rest, and the documentation does not claim it.
An import takes objects whose unseen fields are the default, as nothing fills them in.

## Runs

| run | what it shows | bounds | states |
|---|---|---|---|
| `parent_routes` | the mutex is held exactly between lock and unlock (`MutexHeld`), the list written back is the parent's (`SnapshotFresh`), two rows own one entry only if an import or an unanswered removal made it so (`OwnedOnce`), each operation is one atomic edit (`AtomicEdits`: `ParentRoutes` implements `AtomicRoutes`), and ends (`OperationsEnd`) | three resources of one router, two with the same entry: two siblings of every kind and one in conflict.  A second parent would be independent | 130,792 |
| `port_groups` | a shared associate changes no group it neither lists nor listed (`OthersGroupsKept`) | two associates, one of which changes its list and one of which may be exclusive; two groups | 49,391 |
| `port_groups_empty` | refutes `DestroyRemovesOnlyListed` | one associate, Neutron may answer 200 without the port | |
| `instance_shape` | resizes and rebuilds: `ChangesAreReal`, `PowerReached`, `PowerKept`, `PutBackOnFailure`, `RootErasedOnce` | two flavors, two images, four configurations (power left alone, or PAUSED), two edits, three failures, a cloud that confirms resizes and one with volume-backed servers | 808,405 |
| `instance_life` | boot, replacement, deletion, owner, groups, a managed power state: `NoServerForgotten`, `GroupsNeverDip`, `ChangesAreReal`; applied again and again, a configuration is reached (`Converges`) | two users, three groups, two flavors and images, two edits between any of six configurations of flavor, image, power, owner, groups and existence, so that what one apply left behind meets another change; two failures | 910,179 |
| `instance_resize`, `instance_revert`, `instance_cloud` | refute `InterruptedResizeConfirmed`, `FlavorReached`, `CloudConfirmCounts` | as `instance_shape`, one edit | |
| `onboarding` | `NoHostStranded`, `AssignmentsKept`, `SettingsStick`, `RestKeepsComputed`; no deadlock | one host (hosts are independent but for the configs), two configs, two values of the managed setting beside the default, two failures; nobody adds settings to a role that has not converged (`Patient`); the two configs and the two values are symmetric, since no action and no property names one | 1,055,601 |
| `load_balancer` | `NothingLeftBehind`, `SettledWhenDone`, `DeletionSeenThrough`, `Converges` | one load balancer, a pool, two siblings below it of which Octavia refuses a second each; two values, one edit, two failures, an unanswered POST among them.  A listener behaves as a pool without children | 785,700 |
| `lifecycle` | every other resource: its handlers implement `ObjectCustody` (`KeepsCustody`), an apply that ends well reached the object (`AppliedMeansReached`), and applied again and again the configuration is reached (`Converges`) | the 42 of the 50 kinds that differ; configurations with none, any one and all of the fields set; three ids (at most two live objects, and one more to make); two edits; two failures, lost or empty answers or outside acts | 734,173 |
| `onboarding_untaint` | refutes `UntaintedSettingsWritten` | the same without `Patient` | |

The bounds on failures matter most.  Two suffice to fail an operation and then
its recovery; three (in `instance_shape`) also let the next apply meet the
leftovers of both.  Two edits let a configuration be changed and changed back.
Deadlock is checked except for the instance, the load balancer and `lifecycle`, whose runs may
really stop: a configuration that is reached leaves nothing to do once nothing more goes wrong.

`SettingsStick` says that a row with a managed setting is not one whose expansion is
still to come, and that its granular role then holds a setting somebody configured,
not the default the expansion writes.  `KeepsCustody` is `Custody!Spec`, an INSTANCE of
`ObjectCustody` with the refinement mapping `held`: the object the running Create has
made, else the one the row names.  A violated step would be one that forgets an object
that lives, makes a second one beside it, or lets a row name another's.

What the refuting runs show, in a sentence each (PROJECT.json `findings` quotes the
documentation they contradict):

- Deleting an associate takes every group off its port if Neutron answers the GET
  with a 200 that holds no port; the route resources guard against this, the
  associate does not.
- An apply that meets an interrupted resize still in RESIZE takes it for done and
  leaves it unconfirmed; one that meets an earlier apply's revert under way records
  a flavor the server is about to lose.  `ChangesAreReal` says what does hold: the
  flavor is right if no work was in flight at the live read (`u.was`).
- A resize the cloud confirms between the provider's poll and its own confirmation
  ends the apply in an error.
- A role untainted as the error message suggests, and applied before the
  expansion, records settings nobody writes.

`NoHostStranded` and `AssignmentsKept` name what they except (`unseen`): the bindings that
the answer a handler went by did not show.  There are two ways to one.  GET /hosts may
answer 200 with a null or an empty body, which `getJSONList` decodes to an empty list
(resmgr.go:92): the check before the deletion of a config then passes although a host
carries it.  And resmgr keeps the binding of a host whose record was deleted
(host_config_resource.go:261), a host no list shows.  A binding the answer did show is
never stranded or dropped.

## Fairness

`parent_routes`: a goroutine that can run does (weak fairness of an operation's
steps), and `sync.Mutex` hands a contended lock to a waiter after a millisecond
(strong fairness of taking the lock).  Nothing forces an operation to begin or a
request to succeed.

`instance_life`: each step of an apply is taken (every request and every wait of
the code has a timeout or answers), Nova ends every job it accepted (well or
badly), the user applies while the plan shows changes, and a refresh happens now
and then (strong: it can only run between applies).  Neither failures nor other
people's actions are forced; that they end is the bound `MaxTrouble`.
`Converges` excepts what needs a person (`NeedsPerson`): a server in ERROR or RESCUE, an
image change of a paused or suspended server, a row that was written without an ID (a
deletion of it is refused, and only `terraform state rm` takes it away), and a resize
that was recorded as done before it was confirmed (`ResizeForgotten`: what
`instance_resize` shows, seen later).  Nova refuses the next resize of such a server in
every apply, and the code confirms only for a row that still has the other flavor.

`lifecycle`: Terraform goes on while there is anything to do (weak: its steps are never
disabled by others for good) and the service carries out what it accepted (weak, per
object).  Nobody has to edit, import, fail or interfere.  `Converges` excepts an object of
the same name that nobody imports, one that broke during an update (only a destroy or
the operator helps), and one that would have to shrink.

`load_balancer`: the steps of a handler, Octavia's work and applies that find
something to do are taken (weak), and a load balancer in ERROR is repaired, which
the provider's own warning asks of the operator.  A handler that waits for ACTIVE
while siblings lock the load balancer in turn needs nothing stronger: a wait that
finds it locked goes on, a request that does ends in an error, and the next apply
tries again; a finite apply has finitely many siblings.  `Converges` excepts a load
balancer no answer told of, when the configuration has none any more, and
orphans: a child whose POST was accepted and whose wait then failed is deliberately
not recorded (member_resource.go:152), and where Octavia refuses a second one of it,
the next Create fails until somebody imports or removes it.

## Assumptions

- A request that has failed at the provider has no effect later on.  Neutron may
  carry out a PUT after the client has given up; nothing in the code can tell.
- `OneProcessPerParent`, for the two theorems that need it: all the resources of a
  parent are managed through one provider block.  The mutex is one process's.
- Only this configuration assigns host configs (between a config's check and its
  deletion nothing in resmgr prevents an assignment).
- A replaced load balancer or child is deleted by one apply and created by the next
  (within one apply no sibling could tell).
- The answer to a POST may be lost or lack the object, of a server (`answered`, `blank`), of
  a load balancer (`unanswered`) and of every other resource.  What is made then and
  named by no answer is for somebody to find and import, as CHANGELOG.md says; the models
  of a server and of a load balancer follow the object made last.  An answered GET of a
  server holds the server: a Read of one without it would record an empty ID
  (instance_resource.go:765).
- A 200 of GET /hosts without a body is taken for an empty list, as `getJSONList` does; a
  200 with a list shows every host resmgr knows and what it carries.
- Deleting a host's record does not clear the host config it carries
  (host_config_resource.go:261), and a host that comes back carries it still.
- `Patient`, for the theorems about settings: nobody adds settings to a role that has not
  converged.  `onboarding_untaint` shows what happens otherwise.
- A 2xx answer lacks the object only for the kinds whose handler notices.  The others
  (`Unguarded` in `MCLifecycle`) are a volume type, whose Create uses the answer
  unchecked, and the key manager's secret and container, of whose missing reference
  `refToID` makes the id "." (keymanager.go:54), which `RecordCreated` does not take for
  an empty one.  A GET of a volume, a backup or a volume type always holds the object.
- Terraform or the plugin is not killed between a request and the state write (an
  interrupt is modelled: it cancels the wait under way).
- What Nova, Neutron and resmgr do is taken from the provider's comments and from
  how its code uses them; the map marks it external.

## Proofs

`ParentRoutesProofs`, for any sets of resources, parents, entries and processes:

- `TypeCorrect`: `TypeOK` is inductive.
- `MutexCorrect`: `MutexHeld` is inductive relative to `TypeOK`.  It holds for any
  assignment of resources to processes.
- `SnapshotCorrect`: under `OneProcessPerParent`, two operations that are both about
  to write the same parent would both own the one mutex (`Exclusive`), so a write
  never changes a parent another has read.  The induction needs `MutexHeld` of the
  same state and is therefore of the conjunction.
- `EditsAreAtomic`: every step of `ParentRoutes` is a step of `AtomicRoutes` or a
  stutter (`StepRefines`), using `SnapshotFresh` (the list written is the current
  one with the entry spliced in or out) and `RowsMatchOperation` (`RowsCorrect`).
- `EveryEntryOwnedOnce`: under `OneProcessPerParent`, `OwnedOnce`.  What the check of a
  Create saw absent must still be absent, and without an owner, when the Create writes it
  (`SnapshotFresh`), and a row must not outlive its entry (`RowsHold`) but where an
  import took an entry that had an owner, or a removal was carried out without an
  answer: those entries are `contested`.

`OnboardingProofs`, for any hosts, configs, settings and number of failures:

- `NobodyStranded`: `NoHostStranded` is not inductive; the check of a Delete and the
  deletion are two steps.  `IInv` adds that a config that passed the check stays
  unbound (`CheckedUnbound`: an assignment needs a recorded config that has not
  passed it), but by bindings the answer of the check did not show, and that what a host
  carries was given out (`BindingsTyped`).
- `AssignmentsAreKept`: both Read and the Delete's wait believe the list they are given;
  what it does not show is in `unseen` when the row is dropped.

`LoadBalancerProofs`, for any tree of children, any values, and any number of edits
and failures, from one inductive invariant (`IInv`):

- `TypeCorrect` and `NothingIsLeftBehind` are parts of it.  The latter speaks of the
  load balancers an answer told of (`unanswered`).
- `DeletionsAreSeenThrough` needs that the ERROR of before a deletion is never shown
  once the wait has seen the load balancer leave it (`StaleUnseen`).
- `DoneMeansSettled` needs more: that Octavia works on one thing at a time and locks
  the load balancer for it (`Locked`), that an object hangs below one that is there
  and has a value (`Rooted`), that nothing begins again on an object whose operation
  has waited for it (`Waited`), and that the operations in flight agree with the rows
  and the configuration, and none on a child runs beside one on the load balancer
  (`Planned`).  It does not say that a child that was deleted is gone: the code looks at the
  load balancer alone, so a child whose deletion Octavia accepted and failed is left in
  ERROR without a row (loadbalancer.go:199).  The last two depend on each other through the order of an apply, so
  the induction is over the conjunction.

`LifecycleProofs`, for any kinds of resource whose handlers keep to `LifecycleRules`, any
ids, and any number of failures and edits:

- `TypeCorrect`, from `TypeInv`: with the types, what an operation knows (`RunInv`: a Create
  has no id before its POST and one after it; the others have the row's) and that what is
  answered for is not unclaimed (`ClaimInv`).
- `CustodyKept`: `KeepsCustody`, step by step.  `HeldInv` says that everything alive is held
  or unclaimed, that a Create that has passed `Record` works on the object of its row, that a
  blank id comes no further than `RecordCreated`, and that an operation that has passed a step
  which ends well only without the object (`RidPassed`) finds it gone: that is why a Delete
  may drop the row.  Kinds that are not held have nothing in custody.

- `AppliesReach`: `AppliedMeansReached`.  It speaks of the last step of an apply; what that
  step can rely on goes back to the refresh before it.  `ReachInv` says that an object at
  rest is what it is going to be (`WorldInv`), that a Read has in its row what it saw so far
  (`ReadInv`), and that a row an Update is planned by agrees with the object in all a Read
  sees (`FreshInv`).  During a Create or Update, every field sent so far is as configured, or
  going to be until the wait for it is over (`SentInv`); the object of a Create is up, or a
  wait for it is still ahead (`CreateInv`); and what an Update leaves alone stays as the
  refresh saw it (`UpdateInv`; one that has sent nothing, `Untouched`, cannot come to its
  end, as it changes something and every change is sent).  What each handler step does is
  stated once (the `*Does` lemmas) and used for all of these.  With a second edit, TLC
  refuted an earlier form of the property that held an Update to every field.

The rules are what the proofs need and no more.  For custody: one step of Create makes the
object, after nothing but questions; the next one records it, and no other does; a Delete
has a step that ends well only when the object is gone; an answer without the object is
refused before the row is written.  For what an apply reaches: what is answered before it
is carried out is waited for, and what the service may take back is looked for afterwards
(`OrderAssumption`); a Create waits for an object that is built, sends every field, and
takes over only what is up (`CreateAssumption`); an Update sends every field that can change
and ends with a look at what the service works on (`UpdateAssumption`); the Read of a kind
that can be updated asks for the object (`ReadAssumption`).  TLC evaluates them on all 42
different kinds, so a handler that breaks one fails the run before it starts.

`PortGroupsProofs`, for any associates, ports, groups and processes:

- `TypeCorrect`.
- `OthersAreKept`: under `OneProcessPerParent` and a Neutron that answers with the port, an
  operation at work owns the port's mutex (`Locked`), so what it read is what the port has
  (`Fresh`), and each of the three lists differs from that only in what is the associate's own.

`HostRoleProofs`, under `Patient`, for any hosts, configs, settings and failures:

- `TypeCorrect` of `Onboarding`; `SettingsAreKept` and `RestIsKept`.  Neither property is
  inductive: `Knows` adds that an operation that has waited for convergence and not yet
  written finds no expansion still to come, and has read what the last one computed;
  `Placed`, that a role that was expanded has settings of that expansion; `Written`, that
  a row with a setting was written after it.

`InstanceProofs`, for any flavors, images, users, groups, configurations and failures:

- `TypeCorrect`, from `IInv`, which knows in addition where setPowerState goes on.
- `NothingForgotten`: stronger, the row of a server whose POST was answered with it
  outlives the server at every step (`Recorded`): only the boot makes a server, and it
  writes the row; only a 404 drops the row.
- `SwapKeepsGroups`: `GroupsNeverDip`, from `GroupsInv`: what the live read found is still
  there until the swap begins (`HasRead`), through a pending confirmation, a rebuild of a
  server in ERROR and the power step; during the swap the configured groups are on the server
  or still to be added, and none of them is to be removed (`Covered`).

`InstanceWorkProofs`, for the same constants, proves what an apply reports of the server:
`ChangesHold` (`ChangesAreReal`), `PowerIsReached` and `PowerIsKept` (`PowerReached`,
`PowerKept`), `LiftedIsPutBack` (`PutBackOnFailure`) and `ErasedOnce` (`RootErasedOnce`).
Each speaks of one step only, the last of an apply or the request to rebuild, and none is
inductive: what that step can rely on was settled many steps, and work of Nova's, before.
`WorkInv` follows the apply label by label:

- `OpInv`: which steps each operation has, what it was started for (`u.changed` is still
  what the row and the configuration differ in) and what it cannot have found yet.
- `OwnerInv`: past the owner step the project is the one configured.
- `ImageInv`: past the rebuild no rebuild is under way and the image is the one
  configured, or Cinder did not confirm it; `JobFits` says which status a hidden job of
  Nova's leaves, and `EraseInv` what is known when the rebuild is asked for.
- `ExactInv`: what the live read found is what the server has until the swap; during it,
  what the server has besides the configured groups is still to be removed and what it
  lacks still to be added; afterwards it has exactly these.
- `FlavorInv`: up to the resize the server has the flavor or is going to be resized; while
  Update waits, the resize under way is to this flavor, and it has not been reverted.
- `PowerInv`: the server is at rest in the status the operation knows, or on the way from
  it that was asked for, and that status is the one due or one the last power step goes on
  from.  (Outsiders act between applies only; see Assumptions.)
- `LiftInv` and `RestoreInv`: a server brought up for a resize has a last power step or a
  deferred restore ahead of it; the restore knows where the server is unless it found it at
  work or something failed since it began (`trouble` against `u.left`).

A step changes few of the fifteen local variables, but a proof of each invariant for each
step would name them all.  So the effect of every step is stated once (the `*Does` lemmas,
`WorkDoes` for Nova's own steps), and so are the order of the steps (`StepFollows`) and
which of them an operation begins with (`StepBegins`); each invariant is then
proved from those.

The proofs assume the modules' named assumptions about constants (`MutexAssumption`,
`EntryAssumption`, `PlanAssumption`, `ResmgrAssumption`, `PatientAssumption`,
`OctaviaAssumption`, `NovaAssumption`, `NoneAssumption`, `InstanceAssumption`, `RowAssumption`, and those of
`Lifecycle` and `LifecycleRules`), which TLC evaluates in the runs.

Only model-checked: liveness (`OperationsEnd`, every `Converges`).  Every safety invariant
and action property that a passing run checks is stated by a theorem.

## What is not modelled, and the plan

Not modelled: the provider's configuration and registration (no state), data sources
(read-only), documentation tools and examples; the instance actions and the host
drain, which keep no state: a drain moves what one list named, and promises nothing
about what comes to the host meanwhile (host_drain_action.go:119).

Left out of the modelled components: an instance's name, metadata, networks and
import; a host config's labels; a role's options (host cluster, backends) and all
roles but one; a pool attached through a listener (one more GET), a listener's
default pool; which settings of a cluster or blueprint
are configured and which computed; the volume snapshots of a volume-backed instance
snapshot as objects of their own; the hand-over of a volume between projects when a
transfer is accepted; the replacement of an aggregate whose zone is removed; an image's
checksum; sessions and delays of the clients; provider restarts except in `ParentRoutes`.

Hazards of the code that no property covers, with the reason in PROJECT.json:
port_resource.go:279 (a port writes its groups without the mutex), networking.go:45 (two
provider processes), host_config_resource.go:296 (somebody else assigns a config between
the check and the deletion), host_cluster_role_resource.go:386 (a settings write
retried across an expansion), blueprint_resource.go:230 (a concurrent change
overwritten), host_drain_action.go:119 (a stale list), member_resource.go:147 and
loadbalancer.go:199 (the orphan and the failed deletion of a child, which the properties of
`load_balancer` name as exceptions).

Planned, in this order:

1. `pcd_networking_port` as a further writer of `PortGroups`; rescue as a second writer of
   `Nova`.
2. Two resources of `Lifecycle` where one needs the other (a volume and its attachment, a
   network and its subnet): the order of an apply and of a destroy.
3. The drain: what one list named, moved one after the other while the host changes.
4. Theorems about what these add.

Out of reach of the proofs: liveness and ENABLED, induction over data, and
RECURSIVE operators, of which no module has any.

## Running

    tlc -config MCParentRoutes.cfg MCParentRoutes.tla
    tlapm ParentRoutesProofs.tla

and likewise for the other configurations and proof modules.
