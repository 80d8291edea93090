# Verification of the ServiceRoute controller

TLA+ specifications, TLC runs and TLAPS proofs for `k8s-serviceroute-conrtoller`: a
Kubernetes controller that publishes services of application clusters under route names
on a separate istio cluster. Paths below are those of the repository.

## The system

One controller process runs per application cluster (`-clustername`). It watches the
ServiceRoutes, Endpoints and Services of its own cluster and writes to one istio
cluster that all controllers share. There a route name stands for an Endpoints, a
Service, a VirtualService and a DestinationRule of that name and for a host in one
shared Gateway. For each ServiceRoute the controller also keeps a *record*: another
ServiceRoute object on the istio cluster named `cluster--namespace--name`, whose
`spec.routeName` says which route was created for it.

| component | state | operations | interacts with |
|---|---|---|---|
| work queue, `runWorker`, `processNextWorkItem` (`controller.go:147`, `217-275`) | FIFO, dirty and processing sets, back-off heap, failure counts, shutdown flag | Add, AddRateLimited, Get, Done, Forget, ShutDown | event handlers add, two workers take |
| `syncHandler` (`controller.go:280-482`) | locals: cached ServiceRoute, route to delete, cached Endpoints and Service, copy of the Gateway | look up, tear down, decide, create / refuse / update, status | caches, both API servers, other workers through them |
| event handlers and caches (`controller.go:153-179`, `484-530`, `main.go:92-103`) | informer caches | Add/Update/Delete handlers, 30 s resync | queue, `syncHandler` reads the caches |
| constructors (`controller.go:535-654`) | none | copy source objects into istio objects | called by `syncHandler` |
| startup and shutdown (`main.go:45-108`, `Controller.Run`, `pkg/signals`) | stop channel | wait for caches, start two workers, ShutDown | everything |
| informer factory (`pkg/generated/informers`) | lock, registered and started informers | InformerFor, Start, WaitForCacheSync | `main`, `NewController` |
| lister, typed clients (`pkg/generated/listers`, `clientset`) | none of their own | Get; Get, Create, Update, Delete, List, Watch | caches, API servers |
| fake clients (`clientset/versioned/fake`) | a tracker | test doubles that nothing uses | |
| API types (`pkg/apis`) | none | deep copies, registration | all |

What makes it hard: two workers per process, and several processes, read and write the
same istio objects one API call at a time; `syncHandler` decides on what it read several
calls earlier; its caches lag; users rename and delete ServiceRoutes at any moment; no
call is repeated when it fails, because every error of an API call is assigned to a
variable that nobody tests; the process may die between any two calls.

What makes each component correct:

* **queue**: no key in two hands, no request forgotten, no failed key dropped, no key
  starved, also across back-off timers and a shutdown;
* **syncHandler**: a sync touches only the route of its own record; everything on the
  istio cluster can be found again through a record; a status only announces an earned
  name; routes are exclusive, whole, and hosted exactly when recorded; everything
  settles once users and backends stop;
* **caches and handlers**: the last version of a ServiceRoute is synced, and what readers
  share is not written;
* **startup and shutdown**: no worker before its caches are there, a signal always ends
  the process, and exit codes say how;
* **constructors**: the right sources, names that differ, and nothing of the application
  cluster's own (node ports) on the istio cluster, although they edit cached objects;
* **Gateway**: its owner's hosts and the other routes' are left alone, and a route is in
  all of its servers or in none;
* **factory**: one informer per type, run once, and no caller held up by one that waits.

## Modules

| module | models | role |
|---|---|---|
| `KeyedWork` | the contract of a work queue: pending keys, and at most one worker per key | abstract |
| `WorkQueue` | client-go's rate-limited queue and the two functions that drain it | refines `KeyedWork` |
| `RouteLease` | the promise of a route provider: a route has one holder and is given back before it is given again | abstract |
| `RouteSync` | `syncHandler`, the event handlers, caches, users, crashes, lost calls | uses `KeyedWork` and `LaggedCopy`, refines `RouteLease` while syncs do not race |
| `LaggedCopy` | what `RouteSync` takes for granted about ServiceRoutes, their cache and their status | abstract |
| `RouteCache` | API server, list and watch, cache, handlers, resync and status write of ServiceRoutes, with resource versions | refines `LaggedCopy` |
| `ServiceRouteApi` | the calls of the typed client and the API server's answers, as operators | used by `RouteCache`, `RecordNames` |
| `GatewayHosts` | the host lists of the shared Gateway and everybody who writes them | detail of `RouteSync` |
| `RecordNames` | `cluster--namespace--name`, and records found by it | detail of `RouteSync` |
| `RoutePorts` | ports of Services in shared memory, and the panic without any, with the creation and teardown it hangs on | detail of `RouteSync` |
| `Lifecycle` | signals, `main`, `Run`, informers and workers as goroutines of one process | |
| `InformerFactory` | the shared informer factory, lock by lock | |
| `RouteSyncProofs`, `GatewayHostsProofs`, `RecordNamesProofs`, `RoutePortsProofs`, `LifecycleProofs`, `InformerFactoryProofs` | theorems about the module of that name | proofs |
| `ProcessProofs` | theorems about `WorkQueue`, and about `MCProcess` from those of its parts | proofs |
| `DetailsProofs` | theorems about `RouteCache`, and about `MCDetails` from those of its parts | proofs |
| `MCRouteSync` | constants, budgets and symmetries of `RouteSync`'s runs | TLC |
| `MCProcess` | `WorkQueue`, `Lifecycle` and `InformerFactory` in one run | TLC |
| `MCDetails` | `RouteCache`, `GatewayHosts`, `RecordNames` and `RoutePorts` in one run | TLC |
| `MCRoutePorts` | constants of `RoutePorts` alone | TLC |

`RouteSync` builds on abstractions, and for each there is a module that justifies it:

* the queue is `KeyedWork`; `WorkQueue` implements it, fairness included
  (`ImplementsKeyedWork`), so the states of slice, sets and timers need not be multiplied
  with those of the syncs, and `RouteSync` uses it by that contract (`QueueIsUsedByContract`);
* ServiceRoutes have flags (`fooLag`, `job.fresh`) in the place of resource versions;
  `RouteCache` has the versions and implements `LaggedCopy`, which has the flags
  (`ImplementsLaggedCopy`), and so does `RouteSync` (`UsesLaggedCopy`). The two together say that
  neither leaves the contract; that `RouteSync` has every behaviour of `RouteCache` is not shown
  by them, and rests on how its actions were written: a copy may lag, and a status write may
  come from an old one, at every step;
* the Gateway is a set of routes; in `GatewayHosts` it is lists of hosts in several
  servers, and every write adds or removes one route of the set (`EditsAreSetEdits`);
* each ServiceRoute has a record of its own; in `RecordNames` it is found by its composed
  name (`RecordIsOwn`);
* a Service's ports are part of its contents; `RoutePorts` has what happens to them in
  memory (`NodePortsStayHome`, `PanicsAreCounted`).

The modules of `MCProcess`, and those of `MCDetails`, share no variable and no action: no
behaviour of one has an effect on another. The product of their states would show nothing
that the parts do not, so `part`, which never changes, says which of them moves, and the
others rest in their initial states. Each property is that of its module, under the same
name.

### WorkQueue

`queue`, `dirty` and `processing` are the three fields of the queue type, `waiting` is
the heap of the delaying queue without its times, `failures` the rate limiter's count
(saturating at `MaxFailures`, since only zero and non-zero are told apart). Each action
is one critical section of the queue's lock. A worker is in `get`, `sync`, `done` or
`stopped`; `syncHandler` is reduced to "error" or "no error", *both* of which are allowed
here although the present `syncHandler` never fails, so the result survives a repair of
its error handling.

### Lifecycle

`main` is where the goroutine of `main` and `Run` is, `handler` which signal the goroutine
of `SetupSignalHandler` waits for, `inbox` the two places of its channel, `stop` the stop
channel, `cache` how far each informer is, `worker` where each goroutine of `wait.Until`
is. `code` is the exit code: 143 for a signal before `Notify`, 255 for a fatal error, 2 for
a panic of a sync (`runtime.HandleCrash` panics again), 1 for a second signal and 0 for
the return of `main`. When it is set everything else ends with it, as in Go. The queue is
reduced to the number of its keys. As in the code, three caches are started and two are
awaited (`Awaited`).

### RouteCache, LaggedCopy and ServiceRouteApi

`server` and `version` are the API server; `events` what a watch carries, in order per
object; `cache` the indexer; `notes` the events of the processor on their way to the
handlers; `pending`, `hand`, `seen` the keys, workers and cached objects of syncs; `past`
and `looked` are history. A watch may break and be too old to resume: then the informer
lists, and what is cached but not listed is a tombstone. `enqueueServiceRoute` cannot make
a key of a tombstone, as in the code. `LookUp` returns the cached object itself (the lister
copies nothing), `PutStatus` sends a `DeepCopy`. Simplification: the events of a key are
kept in order and those of different keys are not, since nothing relates two keys; the
notifications of a key are a set of kinds, since `enqueueServiceRoute` looks at nothing
else.

### GatewayHosts

`servers` maps each port name to its list of hosts. `Edited` is the two loops of
`syncHandler`: append unless listed, and put the last host in the place of the first match.
A write needs the version of the copy, as the Update of a Gateway with a resource version
does. The owner of the Gateway puts hosts of its own anywhere into any server and takes
them out; `owned` remembers what it wants. That two servers with the same port name can
exist in a Gateway is left out: istio asks for unique port names.

### RecordNames

Labels are sequences of characters in which the dash is told apart. `RecordNamesAssumption`
is that labels neither begin nor end with a dash (Kubernetes) and that clusters and
namespaces have no `--` in their names. Kubernetes allows the latter, and then two
ServiceRoutes can have one record: cluster `a`, namespace `b--c`, name `d` and cluster `a`,
namespace `b`, name `c--d` are both `a--b--c--d`. The name of the ServiceRoute itself may
contain `--`.

### RoutePorts

A decoded Service is a *cell* of `heap`; the cache has the last one, a sync keeps the one
it was given. `ZeroNodePort` is one round of `newService`'s loop over the slice it shares
with that cell. `Panic` is `Ports[0]` of no ports, which ends the process and every sync
in it; `Restart` is the StatefulSet's, `Kill` any other end of the process.

Whether a sync comes to the ports at all hangs on the record, so that the module has what
makes and removes it: the user who renames, deletes and creates the ServiceRoute
(`UserAsks`), the teardown of a condemned route (`DeleteService`, `DeleteVirtualService`,
`DeleteRecord`), the look-ups of `Decide` and `CreateRecord`. Each call may be lost (`Lost`),
after which the sync goes on, as in the code. `lapses` counts per ServiceRoute how often its
record was deleted, or was not created although the sync went on to create the rest.
Endpoints, DestinationRule and Gateway have no ports and are left out, and a Service's
Endpoints come and go with it. The API server refuses a Service without ports and one to
create that exists (external); one to update that is missing it may refuse or create. Each
ServiceRoute keeps to routes of its own: what races over a route do is `RouteSync`'s subject.

### InformerFactory

`informers`, `started` and `runs` are the maps of the factory and the Run goroutines;
`got`, `covered` and `waits` are what callers know. In this program each factory has one caller,
`main`, which never calls `WaitForCacheSync` on it; the comments of the generated code promise
the methods to many callers, and that promise is what is modelled. Entering and
leaving the lock are steps, and so is each round of a loop. Ordering is free where Go's map
iteration is.

### RouteSync

Variables: `foo`, `ep`, `svc` are the objects on the application clusters, `fooCache`,
`epCache`, `svcCache` the informers' copies, `fooLag` says that a change of a ServiceRoute
is still on its way; `rec`, `objs` and `gw` are the records, the four kinds of objects and
the hosts of the Gateway on the istio cluster; `pending` and `running` are the queue;
`pc` and `job` are the place and the locals of each sync; `spent` counts what the
environment has done, by kind.

Each step of a sync is one API call, or the reads of the caches between two calls:

| actions | code |
|---|---|
| `LookUp` | `controller.go:290-308`: cache, record, `routetodelete` |
| `TearDown`: `DeleteObject` x 4, `GetGateway`, `PutGateway`, `DeleteRecord` | `308-338` |
| `ReadCaches` | `340-366` |
| `Decide` | `368-375`, `421`, `429` |
| `Create`: `CreateRecord`, `CreateObject` x 4, `GetGateway`, `PutGateway`, `PutStatus` | `375-420` |
| `Refuse` | `421-428` |
| `Update`: `UpdateObject` x 2 | `429-439` |
| `StartSync`, `FinishSync` | `224-275`, with the queue's `Start` and `Finish` |

Every call has a failing alternative (`CallFails`, counted in `spent["faults"]`), after
which the code goes on as it does: only NotFound is told apart. A call that took effect
and whose answer is lost is the same as one that succeeded, since nobody looks at the
answer. Three pairs of reads are one step: the cached ServiceRoute and its record in
`LookUp`, the record and the Service in `Decide` (only the sync itself writes its record,
so the record reads the same a moment earlier or later), and the two caches in
`ReadCaches` (no property relates the ages of the two copies). Abstractions of data:

* Resource versions are kept as what they decide. `job.fresh` and `job.gwFresh` say that
  nobody has changed the ServiceRoute or the Gateway since the worker's copy; a write
  back of a copy that is not fresh is the API server's conflict. A write that changes
  nothing keeps the version and sends no event.
* Several changes of a ServiceRoute may be delivered as one event. The cache between
  them differs from what a later read gives only for syncs that could not have written.
* Contents of Endpoints and Services are members of `Data`; an object on the istio
  cluster is where it was copied from and what. The Gateway's host list is a set.
* Clusters are kept apart by `ClusterOf`; each key has its own record.
* A crash and the restart that follows are one step; how long the gap is does not show,
  since users and backends may act before and after it.

External assumptions: the API servers apply each call atomically, accept an Update without
a resource version for Services and Endpoints (the code sends none), and refuse an Update
of a ServiceRoute or Gateway with an old one. An Update of a Service or Endpoints that is
missing is refused by some API servers and creates it in others: both may happen
(`UpdateObject`). After an error other than NotFound the Gateway that `Get` returned is
empty and its Update is refused.

## Runs

| run | instance | question | states |
|---|---|---|---|
| `queue` (`process.cfg`) | 3 keys, 2 workers, `MaxFailures` 2; 3 keys of backlog, 3 signals; 2 types, 2 callers with 3 calls each | is the queue a keyed work queue, safe and fair; does the process start and stop as it says; is the factory safe for several callers | 0.2 million |
| `details` | `RouteCache`: 2 keys, 1 worker, 2 routes, 3 versions, 1 broken watch; `GatewayHosts`: 2 syncs, 2 routes, 1 host of the owner, 2 managed servers and another, 4 writes; `RecordNames`: any two of 80 ServiceRoutes; `RoutePorts`: 1 key, 1 worker, 2 routes, 3 lists of ports, 2 changes, 2 faults | do the abstractions of `RouteSync` hold | 0.5 million |
| `race` | 2 keys, 2 workers of one cluster, 2 routes, 1 edit | what two interleaved syncs and a user can do to each other; do ServiceRoutes change as `RouteCache` has it | 0.75 million |
| `crash` | 2 clusters with a key and a worker each, 1 route, 1 edit, 1 crash | what is left when one of two competing controllers dies anywhere | 2.8 million |
| `faults` | 2 keys, 1 worker, 2 routes, 1 edit, 1 lost call, 1 change of the Gateway by its owner | does a sync that has lost a call tear down anything else | 1.4 million |
| `calm` | 2 keys, 2 workers of one cluster, 2 routes, 2 edits or 1 backend change, no race (state constraint `StaysCalm`) | exclusive leases, whole routes, exact hosts, and what each sync has done when it ends | 1.1 million |
| `converges` | 2 keys after one route, 1 worker, 2 contents, 1 edit, 1 backend change | does everything settle | 0.5 million |

Bounds. Two keys and two routes are the least for a conflict over a route, a swap and a
rename at once; two workers are what `main.go:105` starts. All properties speak of one or
two ServiceRoutes and one route at a time. An edit of the budget is a rename, a removal of
the name, a deletion or a creation; two of them reach "rename, then rename back" and
"delete, then create again" under a running sync. Runs start with both ServiceRoutes
naming any of the routes, their backends present, and an empty Gateway (`Ready`), which
the edits and backend changes leave again; `ContendedSpec` fixes the same route for both,
and the state constraint `StaysCalm` goes no further where two syncs race (see below) or where both
edits and a backend change have come.
Three versions let a ServiceRoute be created, edited and deleted, or deleted and created
again, around a broken watch and a status write. Four writes of the Gateway let two routes
and a host of the owner come, and one of them go again. Labels up to five characters over a
letter and the dash have single dashes in every place where `--` could be mistaken. Three
signals are one more than the handler's channel holds. In `RoutePorts` one ServiceRoute is
enough, since neither cells nor records are shared by two; two changes and two faults reach a
second panic by each of its ways, a lost record and a rename or deletion. Most safety properties are also
proved without any of these bounds (see Proofs). Symmetry is used only in safety runs, and
only for names that `Init` and `Next` treat alike: keys, routes, workers, or the two
clusters with all that is theirs.

Deadlock is not checked where the system rightly stops: in the runs of `RouteSync`, once
every ServiceRoute is deleted and torn down and the budgets are spent; in `queue`, where
the process exits, workers return and callers of the factory have made their calls; in
`details`, where the bounds on versions and changes run out.

What the passing runs say:

* `NeverSharedKey`, `QueueIsBacklog`, `FailedKeyIsKept`, `RequestIsServed`: the claims of
  the comments on `Controller.workqueue` and in `processNextWorkItem` hold for every order
  of handlers, back-off timers, the deferred Done and ShutDown. `RequestIsServed` promises
  nothing once the queue is shut down: the process ends then.
* `NoEarlySync`, `ExitCodesAreEarned`, `SignalEndsProcess`, `KeysAreTaken`: nothing is
  synced before Endpoints and ServiceRoutes are there; a signal ends the process also in
  the middle of the wait for a cache that never syncs; a Services cache that never syncs
  holds up nobody.
* `InformersAreShared`, `RunsOnce`, `StartIsComplete`, `WaitIsComplete`, `HolderGoesOn`: the
  factory's comments hold for callers that overlap: a Start leaves no informer behind that was
  handed out, since the lock is held through its loop, and a wait holds up no other caller.
  With the one caller of this program these are promises of the generated code that it does
  not yet call in.
* `TearsDownOwnRoute`, `WritesOwnRoute`, `NameIsEarned`: the decision that a sync takes from
  its first reads stays true through all its writes. This hangs on two things, the queue's
  one worker per key and the resource version of the status update.
* `NoOrphans`: "record first, record last" makes everything recoverable.
* `LeasesRoutes`, `WholeRoutes`, `HostsAreRecorded`, `SyncServes`: two syncs of different
  ServiceRoutes can only race in two places. One records a name while the Service that says
  whether it is free is missing in the middle of the other's creation or teardown
  (`NoNameRace` excludes it), or both have a copy of the Gateway at once (`NoGatewayRace`). The
  runs `two_owners` and `unserved_name` are these two races. Without them, and without
  failures, two workers are as good as one: the records are exclusive leases, routes are
  complete between syncs, and each sync has done its work when it ends.
* `UsesLaggedCopy`: what `RouteSync` does with ServiceRoutes and their copies is what
  `RouteCache` implements with resource versions.
* `Converges`: with one worker and no failures everything settles. It needs the resync: a
  Service that appears late, or a route that another ServiceRoute gives up, raises no event.
* `CacheIsHistory`, `ImplementsLaggedCopy`, `LastVersionIsSynced`: caches and versions come
  to the flags of `RouteSync`, and the last version of a ServiceRoute is seen by a sync; that
  one is *gone* is seen only if no watch breaks.
* `OwnerIsObeyed`, `HostsAreListedOnce`, `ServersAgree`, `EditsAreSetEdits`: writing the whole
  Gateway back is safe because of its resource version, and the `break` after the first
  match is enough because no list has a host twice.
* `RecordIsOwn`: single dashes in names do not confuse records.
* `NodePortsStayHome`: editing the cached slice in place does no harm to what is sent, since
  what replaces it in the cache is a new one.
* `PanicsAreCounted`: a Service without ports ends the process, and the process that comes next
  syncs the same ServiceRoute again. It is ended again only if the record, which is created
  before the ports are looked at, was deleted or not created: each further panic takes a rename,
  a deletion or a lost call of its own. While creations of records keep being refused the process
  is ended again and again; that no ServiceRoute ends it twice is *not* so (`panics_again` below).

### Fairness

A worker goroutine is scheduled and its calls return (`WF` on `Step`). The queue serves a
key that stays pending (`SF` on `StartSync`, and on `LookUp` in `RouteCache`; this is
`ImplementsKeyedWork`). Watch events arrive, broken watches are followed by a list, and the
resync ticks (`WF` on the informers' actions). Users, backends, the owner of the Gateway,
lost calls, broken watches, tombstones and crashes have no fairness. In `WorkQueue` workers
and timers are weakly fair until `ShutDown`, which is deferred by `Run` (`controller.go:190`): `main`
returns right after it (`main.go:105-108`), so that nothing a worker still does can be relied
on. Nobody has to add a key or to shut down. `ImplementsKeyedWork` therefore is fairness of
`KeyedWork` unless there is a shutdown, and `RouteSync`, where a process that goes on is fair and
one that ends is a crash, uses no more. In `Lifecycle` the
goroutines of `main`, of the signal handler and of the workers are weakly fair as long as
the process lives; signals, keys and panics need not come, and no cache needs to sync. In
`RoutePorts`, whose fairness only two of the further configurations below use, the StatefulSet
restarts the process.

### What the code does not keep

Each of these runs checks one sentence of the repository and finds it violated:

| run | sentence | what happens |
|---|---|---|
| `lost_call` | "If an error occurs during Get/Create, we'll requeue the item" (`controller.go:442`) | no error reaches the test below the comment; after one lost create the record exists and all later syncs take the update path |
| `restart` | "compares the actual state with the desired, and attempts to converge the two" (`controller.go:277`) | a ServiceRoute deleted just before a restart is never looked at again |
| `late_status` | "Upon completion, the controller will update the status with FQDN" (`README.md:13`) | an edit during the creating sync makes the status update a conflict; nobody repeats it |
| `two_owners` | "istio svc routename doesn't exist either, then ACTION:CREATE" (`controller.go:374`) | two workers find the route free and both record it |
| `unserved_name` | "Upon completion, ..." (`README.md:13`) | the conflict of the Gateway update is ignored and the name announced without a host |

Six further configurations do the same for the modules that share a run. They are run by
hand, `tlc -config X.cfg M`, and end with a counterexample:

| configuration, module | property and sentence | what happens |
|---|---|---|
| `cut_off`, `Lifecycle` | `WorkersFinish`: "wait for workers to finish processing their current work items" (`controller.go:186-187`) | `Run` returns at once and the process exits while workers are in the middle of syncs |
| `missing_services`, `Lifecycle` | `CachesComeFirst`: "Wait for the caches to be synced before starting workers" (`controller.go:195`) | `servicesSynced` is assigned and never asked |
| `tombstone`, `RouteCache` | `OnlyServiceRoutes`: "should *not* be passed resources of any type other than ServiceRoute" (`controller.go:485-486`) | a relist passes it a `DeletedFinalStateUnknown`, which it drops |
| `stale_port`, `MCRoutePorts` | `PortIsFollowed`: "compares the actual state with the desired, and attempts to converge the two" (`controller.go:277`) | the update path writes no VirtualService, which keeps the old port |
| `portless`, `MCRoutePorts` | `MissingRouteIsCreated`: "If the resource doesn't exist, we'll create it" (`controller.go:362`) | after the panic the record exists; when the Service has ports at last, the update path writes no VirtualService |
| `panics_again`, `MCRoutePorts` | `PanicsOnce`: a record keeps a ServiceRoute from ending the process twice (no comment says so) | a rename, or a deletion and a new creation, removes the record, and the sync that creates the next one panics as the first did |

## Proofs

Every theorem is for every value of the constants, from the assumption that its module
states about them.

| module | theorem | states | assumes |
|---|---|---|---|
| `RouteSyncProofs` | `TypeCorrect` | `TypeOK` | `RouteSyncAssumption` |
| | `TeardownIsOwn` | `TearsDownOwnRoute`, whatever calls fail | |
| | `WritesAreOwn` | `WritesOwnRoute`, while no call fails | |
| | `NothingIsOrphaned` | `NoOrphans`, while no call fails | |
| | `NamesAreEarned` | `NameIsEarned`, while no call fails | |
| | `QueueIsUsedByContract`, `CopiesFollowContract` | a step is one of `KeyedWork` or a crash; `UsesLaggedCopy` | |
| | `RoutesAreWhole`, `RoutesAreLeased` | `WholeRoutes`; `LeasesRoutes`: `RouteSync` implements `RouteLease` | also `Undisturbed` (no failed call, no crash) and always `NoNameRace` |
| | `HostsAreExact`, `SyncsServe` | `HostsAreRecorded`, `SyncServes` | also `OwnerRests` (the owner leaves the Gateway alone) and always `NoGatewayRace` |
| | `OwnNamesNeverRace` | `NoNameRace`, whatever fails and crashes | names divided among ServiceRoutes |
| | `RacesStayInCluster` | `RacesStayAtHome`: syncs that race over a name are of one cluster, whatever fails and crashes and with any number of workers | names divided among clusters |
| | `OwnNamesAreLeased` | `LeasesRoutes` and `WholeRoutes` | names divided among ServiceRoutes, and `Undisturbed` |
| `ProcessProofs` | `TypeCorrect`, `KeysAreNotShared`, `BacklogIsQueued`, `FailuresAreRetried` | `TypeOK`, `NeverSharedKey`, `QueueIsBacklog`, `FailedKeyIsKept` of `WorkQueue` | `WorkQueueAssumption` |
| | `QueueIsKeyedWork` | the safety part of `ImplementsKeyedWork` | |
| | `ProcessTypes`, `ProcessWaits`, `ProcessExits`, `ProcessShares`, `ProcessRunsOnce`, `ProcessStartsAll`, `ProcessWaitsForAll` | `TypesOK`, `NoEarlySync`, `ExitCodesAreEarned`, `InformersAreShared`, `RunsOnce`, `StartIsComplete`, `WaitIsComplete` of `MCProcess` | `ProcessAssumption` |
| `LifecycleProofs` | `TypeCorrect`, `NoSyncIsEarly`, `CodesAreEarned` | `TypeOK`, `NoEarlySync`, `ExitCodesAreEarned` of `Lifecycle` | `LifecycleAssumption`; the second none |
| `InformerFactoryProofs` | `TypeCorrect`, `OneInformerPerType`, `OneRunPerInformer`, `StartsAll`, `WaitsForAll`, `HolderIsNotHeldUp` | `TypeOK`, `InformersAreShared`, `RunsOnce`, `StartIsComplete`, `WaitIsComplete` of `InformerFactory`; `HolderMayGoOn` | `FactoryAssumption` |
| `DetailsProofs` | `TypeCorrect`, `CachedObjectsAreReadOnly` | `TypeOK`, `CacheIsHistory` of `RouteCache` | `RouteCacheAssumption` |
| | `VersionsAreFlags` | `ImplementsLaggedCopy` | |
| | `DetailsTypes`, `OwnerFindsItsHosts`, `NoHostIsDoubled`, `BothServersServe`, `WritesEditASet`, `RecordsStayApart`, `NoNodePortLeaves`, `CrashesAreCounted` | `TypesOK`, `OwnerIsObeyed`, `HostsAreListedOnce`, `ServersAgree`, `EditsAreSetEdits`, `RecordIsOwn`, `NodePortsStayHome`, `PanicsAreCounted` of `MCDetails` | `DetailsAssumption`; for `WritesEditASet` also that there is a route |
| `GatewayHostsProofs` | `TypeCorrect`, `OwnHostsStay`, `HostsAreUnique`, `ManagedServersAgree` | `TypeOK`, `OwnerIsObeyed`, `HostsAreListedOnce`, `ServersAgree` of `GatewayHosts` | `GatewayAssumption` |
| | `GatewayIsASet` | `EditsAreSetEdits` | also that there is a route |
| `RecordNamesProofs` | `TypeCorrect`, `RecordNamesDiffer`, `RecordsAreOwn` | `TypeOK`; `RecordName` is injective; `RecordIsOwn` | `RecordNamesAssumption` |
| `RoutePortsProofs` | `TypeCorrect`, `PanicsNeedLapses`, `OffersAreStripped` | `TypeOK`, `PanicsAreCounted`, `NodePortsStayHome` of `RoutePorts` | `PortsAssumption` |

The assumptions say that markers (`None`, `Taken`, the empty route name, exit code
"alive") are none of the values they stand beside and that bounds are numbers; only
`RecordNamesAssumption` restricts the deployment. In `RouteSync` it takes two of them:
`RouteSyncAssumption`, and `NoneAssumption` for the marker beside records and sets. The
further hypotheses of the theorems about undisturbed syncs are in the table, and none is
there for the sake of the proof: with one lost call, one crash, one race or, for `HostsAreExact`
and `SyncsServe`, one change by the owner at the wrong moment, TLC finds the property violated
(in the instance of `race` with the budget for it).

`RouteSyncProofs`. The argument has two layers. *Structure* (with `TypeOK`): a worker is
idle exactly when it holds no key, no key is in two hands, a sync past its cache reads has
a ServiceRoute with a route name, and a fresh copy of the Gateway is a copy of one that
exists. `TypeOK` alone is not inductive: that the route written by `CreateRecord` is a
route is known only from its third part (`HasRoute`). *Knowledge*: the inductive invariant `IInv` adds
what each sync knows at each step (`Knows`, `KnowsWhenCalm`): where its record stands, that
a fresh copy of its ServiceRoute is the ServiceRoute, and which kinds of objects its
teardown has already removed (`Gone`). The last is why `NoOrphans` survives the deletion of
the record, and why it has to be carried through seven steps. The proof of a step has two
halves: the worker's own action renews what it knows, and every other step leaves what it
knows alone (`WorkerLeavesOthers`, `OthersKeepKnowing`): others write other records and
other ServiceRoutes, since no key is in two hands, and objects only in the name of their own
ServiceRoute; a user's edit takes away the freshness of the copy, and with it the status
update.

`RouteSyncProofs`, the contracts. A crash is the only step that uses the queue otherwise than
`KeyedWork` says: the queue is lost with its process and the next one starts with every
ServiceRoute that exists. For the copies, `CopiesFollowContract` maps each step to one of
`LaggedCopy` or to a stutter. A sync has a copy from `LookUp` (`Take`) until it is done
(`HasCopy`); a status write is `PutStatus` when the copy is fresh and otherwise the end of the
copy, as are the other last steps; a user's edit is `Change`, an event `CatchUp`, a crash
`Restart`. That a fresh copy is the ServiceRoute as it stands comes from `IInv`; from it
follows that the write changes the status and nothing else.

`RouteSyncProofs`, undisturbed syncs. With a lost call, a crash or a race routes are neither
exclusive nor whole, so these theorems assume that the budgets for failed calls and crashes
are zero (`Undisturbed`) and that the behaviour never has the race (`[]NoNameRace`,
`[]NoGatewayRace`); the number of ServiceRoutes, routes, workers, controllers, edits and backend
changes is any. That routes are exclusive and whole *between* syncs says nothing about the middle
of one, so `LeaseInv` says what is there at every step: `Placed`, a recorded route has an object
of a kind exactly when no sync of its ServiceRoute stands between the call that deletes it and
the last of the teardown, or between the creation of the record and the call that makes it
(`MissingAt`); and `NameIsFree`, the name that a sync is about to record has no Service. It has
no record either, since by `Placed` a record without its Service would be the race
(`NameIsFreeThroughout`). That gives exclusiveness. With `NoOrphans`
the end of a sync then leaves four objects or none. `HostInv` does the same for the host
(`HostMissingAt`) and adds that a copy of the Gateway is fresh until it is written back, which
is where the owner has to rest and other syncs must not have a copy too. `ServeInv` adds what
a creation or an update has already brought in place (`Delivers`), object by object; the
exclusiveness of `LeaseInv` keeps other syncs from changing them.

When does nobody race? `StaysAtHome`: if the names that ServiceRoutes ask for are divided among
homes, then so are the names in caches, records and syncs, although these lag. The two syncs of
a race over a name are then of one home (`RacersShareAHome`). If each ServiceRoute is a home of
its own, they would be the same sync; if each cluster is one, controllers of different
clusters never race, and the two workers of one controller still can, as `two_owners` shows.
Neither theorem needs a budget to be zero. Nothing in the code keeps two syncs from the
Gateway at once, with two workers in a process (`main.go:105`), so for that there is no such
theorem.

`ProcessProofs`, the queue. The invariant is the conjunction of the four properties,
`HandsAreProcessing` (what workers hold is exactly the processing set) and
`RetryIsUnderWay` (a worker that is about to call Done after a failure has left its key
to the back-off). Everything rests on three lemmas about the slice: what `Append`, `Head`
and `Tail` do to its range and to its being without repetitions. The refinement then maps
each action to one of `KeyedWork` or to a stutter; marking a marked key and the steps of
`stop` and back-off are stutters.

`DetailsProofs`, the cache. `History`: whatever anybody holds, be it cache, watch or worker, is a
version that the server has had. `Versions`: a resource version names one object.
`Ordered`: after the current version the watch brings nothing older, so a cache that has
caught up does not fall back. From these, "the copy's version is the server's" and "the
copy is the object" are the same, which is all that `LaggedCopy` asks for.

`GatewayHostsProofs`. First the lists: `AddHost` and `RemoveHost` are union and difference
on lists without repetitions, and keep them so. Then the invariant: lists are without
repetitions, managed servers have the same routes, the others none, and a copy with the
current version *is* the current Gateway; so whatever is written back contains what the
owner wrote last.

`RecordNamesProofs`. Where the first `--` of a composed name is, the cluster ends: a part
without `--` inside and without a dash at its end cannot be shorter or longer than another
that fits there (`FirstPartIsNotShorter`, used both ways). The same for the namespace; what
is left is the name, whatever it contains.

`RoutePortsProofs`. First `SyncInv`: a key is with one worker, so that its record changes
only under the hands of the sync that has looked at it, which found none before it creates
one. Crashes: a ServiceRoute has credit for one panic per lapse and one for its record
(`Credit`), and a sync on its way to the ports still has some to spend (`CountInv`):
`CreateRecord` brings it, by the record or by the lapse, and `DeleteRecord` turns the one
into the other. Ports: each cell is, up to node ports already zeroed, one of the lists its
Service has had (`Offers`), and zero up to the loop's index.

`LifecycleProofs` and `InformerFactoryProofs` prove what the places of `main`, of the
handler and of the callers imply: past the wait the awaited caches have synced; inside the
lock there is one caller; the number of Run goroutines of an informer is 1 if its type is
marked and 0 if not. For what Start and WaitForCacheSync promise, `WaitInv` relates what a
caller remembers to the maps, which other callers change meanwhile: all it had at its last
Start is started and stays so (`FactoryGrows`), and what its wait still waits for is all of
it that has not synced. For Start itself it is enough that everything handed out is in
the map when the loop ends, since the lock is held until then.

The parts together. The runs check the parts inside `MCProcess` and `MCDetails`, where a
constant part of the behaviour moves. `LifeP`, `FactoryP`, `HostsP`, `NamingP` and `PortsP`
instantiate the modules with the proofs exactly as `Life`, `Factory`, `Hosts`, `Naming` and
`Ports` instantiate those without; that both say the same is shown once (`LifeIsLifecycle`,
`FactoryIsFactory`, `HostsAreHosts`, `NamesAreNames`, `PortsArePorts`). The lemmas `PartsAreAlone` and
`DetailsAreAlone` then show that a behaviour of the whole is one of each part, and each property
is the part's theorem. Records are the exception: while others move they have no
ServiceRoutes, which is not an initial state of `RecordNames` but keeps its invariant. The
labels of `RecordNames` and the lists of ports are fixed in `MCDetails`; the theorems of the
modules are for any.

What stays with TLC: liveness (`Converges`, `RequestIsServed`, `LastVersionIsSynced`,
`SignalEndsProcess`, `KeysAreTaken`, the fairness part of `ImplementsKeyedWork`) and
`HolderGoesOn`, which speaks of ENABLED, are beyond the prover. For the latter `HolderIsNotHeldUp`
proves the guards of the step that TLC finds enabled. Every other property of a passing run is
a theorem.

## Not modelled

* fake clients: generated test doubles, which neither the controller nor a test uses;
* calls of the typed clients that nobody makes (UpdateStatus, Patch, DeleteCollection), the
  building of REST requests, List of the listers;
* fields that the constructors always set to the same values (gateway names, TLS mode,
  namespaces, labels): nothing depends on them;
* event recording, logging, flags, client configurations, scheme registration, RBAC and
  deployment files;
* the VirtualService of a route that several ServiceRoutes race for (`RoutePorts` has each
  keep to its own route), and a repeated port name in a Gateway.

## Plan

Every safety property of the passing runs is proved. What would say more:

1. A repaired `syncHandler` that returns its errors: `WorkQueue` already has the retries, and
   `Converges` would be checked with lost calls.
2. A Gateway update that retries on a conflict: `NoGatewayRace` would no longer be needed.
3. The VirtualService of a route that several ServiceRoutes race for, by joining `RoutePorts` and
   `RouteSync`.
