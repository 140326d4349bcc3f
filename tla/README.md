# hp-core: a TLA+ model of its stateful parts

hp-core is a collection of Java libraries (Maven modules) on which other
applications build: a redis lock and redis wrappers, an in-process queue, an RPC
layer over netty, routing of SQL to master and slave databases, maintenance of
elasticsearch indexes, a task scheduler, interceptors, a zookeeper client, and an
administration back end with its own widgets for the pages. This directory holds TLA+ modules for the components that
keep state across threads, processes or calls, the TLC configurations that check
them on small instances, and proofs that TLAPS checks for all instances.

`PROJECT.json` lists components, runs, hazards, findings and theorems, and maps
every definition to the lines it models.

    tlc -workers 2 -config LockOneFault.cfg MCDistributedLock.tla
    tlc -workers 2 -config Components.cfg MCComponents.tla
    tlapm DistributedLock_proofs.tla

## 1. Inventory

### redis distributed lock (`redis/lock`, `HPValueOperations`, `HPRedisTemplate`)
- State: a key with a time to live in redis; a client keeps only its position.
- Operations: `getLock` polls `setIfAbsent` until it wins or `maxWaitTime` is over;
  `releaseLock` deletes the key. `setIfAbsent` deletes the key when its command
  throws, and `HPRedisTemplate.delete` tries a second time.
- Hard: commands whose reply is lost, the retry of a DEL that ran, leases that run
  out, clients that die, clients that poll at the same time.
- Correct means: one holder per key, a release frees nobody else's lock, no key is
  orphaned, `getLock` returns.

### queue (`queue`)
- State: the static map from topics to `ArrayBlockingQueue`s; per bean a pool of
  consumer tasks.
- Operations: `getQueue` (get, then put), `send` (blocking `put`), `init` of a
  consumer bean, and the tasks' loop `execute(queue.take())`.
- Hard: two first users of a topic, full queues, interrupts, tasks that die.
- Correct means: one FIFO buffer per topic; an accepted message is executed once,
  in order; `send` returns.

### netty client, server and serialization (`netty`)
- State: a pool of channels (`channelQueue`), a map of response queues
  (`responseMap`), the event loop of every channel, messages in transit.
- Operations: `send` (register a response queue, take a channel, write, take the
  response, clean up), the two channel handlers, `close`.
- Serialization: a frame is a length and a message; the decoder finds the frames in
  whatever pieces the bytes arrive.
- Hard: late answers, ids used twice, interrupts in the middle of a call, a server
  that throws, a connection that breaks, `close` with calls under way, incomplete
  frames, messages that cannot be deserialized.
- Correct means: channels are neither lost nor shared, an answer belongs to its
  request, calls and `close` return, frames become messages once and in order.

### database routing (`database`)
- State: the maps filled from `databases.yml`, the thread local of the DAO call, the
  inheritable thread local that forces the master, the connection Spring binds to a
  transaction, masters and lagging slaves.
- Operations: loading, the choice of a data source for a connection, the
  interceptors around services and around DAO methods.
- Hard: nested annotated calls, transactions over several DAOs, threads started
  inside a forced call, a configuration that fails half way, exceptions on the way
  out, reads after writes with lagging slaves.
- Correct means: a statement runs on a database of its DAO, forced reads see the
  thread's writes, no flag stays on a pooled thread.

### elasticsearch index (`elasticsearch/index`, `rest`, `factory/AutoRebuildIndexTask`)
- State: indexes, their documents, and the alias in elasticsearch; rows in the
  database; the locals of a rebuild.
- Operations: `reBuildIndex` with three implementations of `insertIntoES`, and
  `updateByIds`, `insertByIds`, `deleteByIds` on the alias.
- Hard: overlapping rebuilds, two rebuilds in one second, rows that change while
  they are read, pushes and deletes of one row by several threads, calls that throw
  after they took effect, int overflow of ids, an emptied table (`selectMinId` is null,
  its rebuild throws).
- Correct means: searches always find an index behind the alias and in it what was
  settled there; rebuilds end and leave nothing behind.

### redis operations and caches (`redis`, `redis/batch`)
- State: values and hashes with an expiry in redis, read through a second connection
  that may go to a replica.
- Operations: `put` (HSET, then EXPIRE), `get`, `delete` with its second try;
  `batchGetForMap` looks many ids up, reads those that miss from the database and puts
  them into redis one by one.
- Hard: commands that fail between two steps, a replica that lags, a row that changes
  between the read and the put.
- Correct means: no stale value stays, no id is left out, everything cached expires.

### interceptor plugins and limiter (`plugins/intercept`, `limiter`)
- State: the thread local key of the redis plugin; the semaphore of the limiter.
- Operations: `around` calls `onBefore`, `getReturnValue`, the method and `onAfter`;
  the limiter plugin holds a permit meanwhile. `buildKey` makes the field of a call of
  its method and arguments.
- Hard: intercepted methods that call intercepted methods, more threads than permits,
  exceptions, timeouts and interrupts in each step, calls that `buildKey` does not tell
  apart.
- Correct means: a result is cached under the field of its own call, permits balance,
  calls return.

### task scheduler (`task/taskjob`)
- State: the map of job beans, the future set in each bean, Spring's scheduler.
- Operations: `addOrUpdateJob`, `cancel`.
- Hard: overlapping calls for one name, beans that their owner changes while the map
  holds them, single runs that are over.
- Correct means: what runs is in the map and can be cancelled, under the latest plan.

### zookeeper (`zookeeper/discovery`)
- State: a map of started providers behind a double-checked lock, the list to close.
- Hard: the look without the lock, `start` that throws, `close` under another lock.
- Correct means: one provider per service, only started ones used, all of them closed.

### widgets of the pages (`admin` and `webjars`, static scripts)
- Data table and pager: posts whose answers come in any order, the pager beside them,
  check boxes of rows and header. Correct means: the table shows what was asked last,
  pager and boxes agree with it.
- Image upload: a form posted into an iframe under a modal dialog, chains of timers
  that draw images one by one. Correct means: the limit holds, every accepted image is
  drawn once, dialog and timers end.
- Form and drop-down box: an interval that waits for what the form depends on, options
  and values from two requests, a selection kept twice. Correct means: no value is
  lost, the box shows what was chosen, the form is filled in the end.

### Without modules (section 9)
webjars back end, common, mybatis, jdbc, mail, excel, freemarker, jsptags, the
elasticsearch registry and search, other widgets, vendored scripts.

### How components interact
`DistributedLock` uses the redis operations. The queue, netty and database components
stand alone and meet in an application's threads. A rebuild reads through mybatis and
the database routing, is started by `IndexRest` on its three threads or by the task
scheduler, and writes to elasticsearch. The interceptor plugins call the limiter and
the redis operations (`LimitedCalls` and `CachedCalls` model each pair as one). The back end of webjars calls DAOs through the database routing.

## 2. Plan

Done, in this order: the lock with its abstract service; the queue with its abstract
buffer; the netty client; the database routing; the index rebuild; the widgets; the task
jobs, service discovery, limited and cached calls; the batch cache and the frames; proofs
of every safety property that a passing run checks.

Next, in order:

1. Action properties that the invariants of section 8 already imply, such as that a
   channel changes hands only through the pool, and the lemmas on lists that the proofs of
   `LimitedCalls`, `CachedCalls` and `ImageUpload` share.
2. `IndexInfoFactory` together with `TaskJobs`, whose jobs the registered indexes become.
3. A second `init` of the netty client after `close`.

No module that is proved about declares or reaches a RECURSIVE operator.

## 3. Modules and how they correspond to the code

| module | models | how |
|---|---|---|
| `LockService` | what the lock promises | `holder` of a key and which keys a client relies on; nothing is promised once a redis command has failed |
| `DistributedLock` | `DistributedLockHelper`, `setIfAbsent`, `delete` | `pc[c]` is the next statement of a client, `ttl` and `setter` the key in redis; `SetIfAbsentFails`, `DeleteFails` are commands that throw, before or after redis ran them; `Tick` is the clock that lets keys expire |
| `TopicQueues` | one FIFO buffer per topic | bounded, `Take` in order |
| `HPQueue` | `HPQueueFactory`, `HPQueueProducer`, `AbstractHPQueueConsumer` | a queue is named after the thread that created it; `GetQueue` and `RegisterQueue` are the two halves of `getQueue`; `StartInit`, `StartWorkers` the halves of `init` |
| `NettyClient` | client, handlers, pool, network | `Send` to `GiveChannelBack` are the statements of `send`; `Lookup` to `Deliver` the event loops; `ServerRead` the server; the `Close` actions the statements of `close` |
| `DatabaseRouting` | `DynamicDatasource` and the interceptors | `LoadDatabase` is one turn of `afterPropertiesSet`, `CallService`/`Return` and `CallDao`/`Execute` the interceptors, `Connect` the choice of a data source; Spring's transactions and replication are external |
| `IndexRebuild` | the index service | `pc[r]` is the next call of a rebuild; `CallFails` throws from any of them; documents carry a version number; `pushed` is what updates and inserts have read and not yet written, by any number of threads, a row at a time, since a bulk is a write per document |
| `TaskJobs` | `TaskJob`, `TaskJobManager` | the steps of `addOrUpdateJob` between its looks at the map; `futures` and `alive` are the scheduler; a plan is mode and time together |
| `ServiceDiscovery` | `ServiceDiscoveryFactory` | `ReadMap` may miss an entry, as a `HashMap` read without its lock may; `CloseNext` is a turn of `close` |
| `LimitedCalls` | `around`, limiter plugin, semaphore | `frames[t]` is the stack of intercepted calls; `blocking` is the mode of the plugin; the semaphore is the one that its `init` makes, which nothing replaces |
| `CachedCalls` | `around`, redis plugin, hash operations | `stack[w]` is the stack of cached calls, `redisKey[w]` the thread local; `FieldOf` is what `buildKey` makes of a call, and need not tell calls apart; a result is named by its call |
| `BatchCache` | `BatchGetData`, `multiGet`, `delete` | a value is the number of the row's change; `replica` is redis as the read-only connection sees it; `began` and `trusted` are what a call could count on when it began |
| `Framing` | `ProtostuffEncoder`, `ProtostuffDecoder` | bytes are counted: a position in the stream tells which byte it is |
| `DataTable` | `bootstrap.table.js`, `bootstrap.pagination.js` | requests in flight carry what they asked; a page of rows is its number and filter |
| `ImageUpload` | `jquery.multiImageUpload.js` | a chain of timers is the start it belongs to and its next image |
| `FormCombo` | `bootstrap.form.js`, `bootstrap.combobox.js`, `bootstrap.combo.js` | the text and the highlights of the box are two sets of options; the values that server and page send may be those of no option (`Unknown`), and an option's may be 0 or `''` (`Falsy`) |
| `MCComponents` | | one instance of each of the nine modules above |
| other `MC...` | | symmetry sets and values of constants that a cfg cannot write |
| `DistributedLock_proofs`, `HPQueue_proofs`, `NettyClient_proofs`, `DatabaseRouting_proofs`, `IndexRebuild_proofs` | | theorems and proofs of the module they are named after |
| `Services_proofs` | | those of `ServiceDiscovery`, `TaskJobs`, `LimitedCalls`, `CachedCalls`, `BatchCache` and `Framing` |
| `Widgets_proofs` | | those of `DataTable`, `ImageUpload` and `FormCombo` |
| `Components_proofs` | | that these theorems hold of `MCComponents` |

The nine components of `MCComponents` share no state, so composing their steps would only
multiply their states: the variable `part` picks one of them for a behaviour, and
the others stay as they begin.

An operator whose comment calls it a mutant or a mutation is a plausible wrong version
of the definition next to it; replacing the definition by it makes the property named in
`PROJECT.json` fail, which shows that the property depends on the code.

History variables (`setter` and `held` of the lock, `taken` of the queue, `call` in
netty messages, `own`, `inherited` of the routing, `settled`, `together`, `lostDrop`
of the rebuild, and in the later modules those that a comment marks as history) record what happened and no action depends on them, except where
`held` bounds how long a caller keeps a lock.

## 4. Runs

| run | checks | shows |
|---|---|---|
| `lock_one_fault` | `ExclusiveUntilFault`, `OwnLease`, `NoOrphanLock`, `GetLockReturns`, refinement of `LockService` | two clients, two keys, any one command failing, one death: the lock is exclusive until a command fails, a key in redis has the rest of its holder's lease, one failure leaves no orphan, every `getLock` returns |
| `lock_fault_breaks_mutex` | `MutualExclusion` | violated: see findings |
| `queue_startup_first` | `FactoryHoldsAllQueues`, `NoMessageIsStranded`, `TakenInSendOrder`, `SendReturns`, `AcceptedIsTaken`, refinement of `TopicQueues` | when beans are initialised before anybody sends, the queue is one ordered buffer per topic, although one task dies and one producer is interrupted |
| `queue_first_use_race` | `FactoryHoldsAllQueues` | violated: see findings |
| `netty_one_channel` | `NothingIsLeftBehind`, `AnswerIsForRequest`, `ChannelIsExclusive`, `EverySendReturns`, `QuietCloseTerminates` | two callers compete for one channel with two calls each, and one call is interrupted, loses its connection or gets an answer that cannot be encoded |
| `netty_shared_ids` | `CloseWaitsForEveryChannel` | three callers, two channels, an id that several calls use, and `close` |
| `netty_close_hangs` | `CloseTerminates` | violated: see findings |
| `database_routing` | `StatementOnOwnDatabase`, `ReadYourWrites`, `FlagIsScoped` | two threads, two databases, calls two deep with one annotation |
| `database_nested_force` | `ReadYourWrites` | violated with nested annotations |
| `database_mixed_transaction` | `StatementOnOwnDatabase` | violated with transactions over DAOs of any database |
| `index_rebuild` | `TypeOK`, `SettledIsServed`, `AliasServes`, `SettlesOnOneIndex`, `RebuildEnds` | two rebuilds, overlapping or not, for the three ways to read the table, with a row change, two pushes and deletes of a row in any order, and one failing call |
| `components` | `TypeOK`, `JobsAreTracked`, `ProvidersAreKept`, `PermitsAreConserved`, `CacheIsSound`, `BatchIsSound`, `FramingIsSound`, `TableShowsAsked`, `PagerIsRight`, `BoxesAreRight`, `ImagesAreRight`, `FormShowsValues`, `LimitedCallsReturn`, `UploadEnds`, `FormIsFilled` | the nine small components, each on its own instance, keep what their state promises; limited calls, uploads and forms come to an end |

The runs of the lock, queue, netty and routing modules leave `TypeOK` out: for the first
two it is a theorem, and the inductive invariants of the other two state the shape of
every variable (section 8).

`CHECK_DEADLOCK FALSE` stands where behaviours end because the number of calls,
messages or rebuilds is bounded.

## 5. Bounds, and why they are enough

- Lock: a lease of three ticks with a hold of at most two is the smallest with a tick
  before, during and after a hold; two keys show that keys do not mix; exclusion can
  be broken by the failing client, the holder and one more, hence three clients in the
  violated run. Waiting times 0 and 1 cover "at once" and "after a sleep".
- Queue: with capacity two a queue holds two messages of one producer, whose order a
  consumer could confuse, and is full before the four messages of the run are in; two
  tasks per bean let one die.
- Netty: one channel makes callers wait for each other and a late answer meet the next
  call; two channels and three callers let two calls with one id run while a third
  waits.
- Routing: the two databases have different numbers of servers, one of them no slave; of the
  two DAOs one is listed by the second database and one by none; two threads,
  one started by the other, share the inherited flag; two writes distinguish a lagging
  slave from a current one.
- Rebuild: three rows with a page size of two make a full and a partial page; an
  emptied table is the second initial table; `MaxInt` = 4 lets `start + getSize()`
  overflow when row 3 is there and not when it was deleted; two seconds let names
  differ or collide; one row change suffices to shift a page, one failing call to
  reach every catch clause. One row is pushed, with two pushes in progress: the row
  before and after the change, which can be written in either order and around a delete.
- Components: two threads or clients and two names, services or hashes make them
  meet; nesting of two makes a call inside a call, and four cached calls let two threads nest.
  Of the four cached calls two share a field, two fields share a hash, and one has a
  hash of its own. Three threads with limited calls, two permits and nesting of three: a
  call waits for the permit of another thread, and all permits may be with threads that
  wait for a second one.
  Two readers, two ids, one change of a row and two failing commands: the second failure
  is the one that makes `delete` throw. Frames of length 0 and 2, three of them: an empty
  message, one cut in the middle, and a frame between two others. Pages of two
  rows, totals of 0, 3 and 9 and a window of three links: an empty table, fewer pages than
  links, and a window clipped at either end. Three images, uploads of two: the limit is hit in
  the middle of an answer. Three options: a selection that is neither empty,
  single nor full; one of them has the value 0 or `''`, and one value is that of no option.

## 6. Fairness

- Threads that can go on do (weak fairness of every client, caller, task, event loop,
  rebuild): the JVM's scheduler. Never assumed: that a caller makes a call, that a row
  changes, that a call fails.
- `DistributedLock`: callers release a lock they have (a `finally` in the
  application) and time passes.
- `HPQueue`: the container finishes its start; `execute` returns or throws.
- `NettyClient`: `process` of the server returns or throws; an event loop that was shut
  down ends; a caller waiting in `channelQueue` is served when a channel is there again
  and again (strong fairness of `TakeChannel`), since the waiters of the blocking queue
  are served in order of arrival.
- `LimitFairness`: a thread that waits for a permit gets one that stays free, timeouts of
  `tryAcquire` elapse, and intercepted methods return; nobody has to interrupt a thread.
- `UploadFairness`: the iframe's answer comes and timers fire (the browser's
  event loop); nobody has to choose files.
- `ComboFairness`: requests are answered or fail, and the interval of the form ticks.

## 7. Findings

1. `setIfAbsent` deletes the key whenever its command throws: a waiting client's failed
   command frees the holder's lock (`lock_fault_breaks_mutex`).
2. `getQueue` lets two first users of a topic get different queues, one of which is
   dropped from the map that should hold them all (`queue_first_use_race`).
3. `close` of the netty client takes back channels that calls under way can no longer
   give back, once the event loops are down (`netty_close_hangs`).
4. An annotated method that calls another annotated method goes on without the forced
   master (`database_nested_force`).
5. A transaction binds a connection of the first database before the DAO is known, and
   DAOs of other databases use it (`database_mixed_transaction`).

Conditions in passing properties stand for further limits of the code, each of which
is necessary (without it TLC finds a counterexample):

- `AliasServes`: two overlapping rebuilds can delete each other's old index between
  `exists` and `delete`, throw, and delete their own new index; a second rebuild in the
  same second deletes the first one's index; a deletion of the old index that throws
  after it took effect makes the catch clause delete the new one. Each time the alias
  stands for nothing.
- `SettledIsServed`: a change pushed while a rebuild runs may be lost when the alias
  moves; of two pushes of a row, or a push and a delete, the one that read an older row may
  write last, and its version stays until the next push or rebuild; with the page strategy rows are skipped when others come or go meanwhile.
- `RebuildEnds`: the min/max strategy never ends if the largest id plus the page size
  exceeds the largest int.
- `NothingIsLeftBehind`: an interrupt while a call waits for a channel leaves its entry in
  `responseMap` (`NettyClient.java:140`).
- `EverySendReturns`: a lost message blocks its caller for ever; `take` has no limit.
- `AcceptedIsTaken`: the first exception of `execute` ends a consumer task; with the
  default of one task the topic is no longer consumed.
- `FlagIsScoped`: a pooled thread born inside a forced call keeps the flag until its
  next annotated call.
- `JobsAreTracked`: overlapping calls for one name schedule it twice, and only one
  future can be cancelled; the map holds the caller's own bean, so a change of it
  goes unseen; a job that was cancelled or is over stays in the map, and adding it again
  with the same plan does nothing.
- `CloseIsComplete`: `close` misses a provider whose first use overlaps it.
- `LimitedCallsReturn`: a limited method that calls a limited method may wait for a
  permit for ever, in the blocking mode, while all permits are held by such callers.
- `CacheIsSound`: a cached method that calls a cached method finds the inner key in the
  thread local, or none: its result is stored under the wrong key, or `onAfter` throws in its
  place. Calls that differ in null arguments, or in where a `_` stands, share a field, and
  one gets the result of the other (`RedisInterceptPlugin.java:90`). A failure between HSET and EXPIRE leaves a hash that does not expire.
- `BatchIsSound`: a call that read a row before a change and puts it after the change has
  deleted the key leaves the old value until it expires; and a call returns an old row
  where the replica lagged, or the key of a changed row was not deleted yet, when it began.
- `FramingIsSound`: behind a message that cannot be deserialized complete frames wait
  until more bytes arrive.
- `TableShowsAsked`, `PagerIsRight`, `BoxesAreRight`: an answer may overtake a newer one;
  a page selected while a load is on its way moves the pager, which the load's answer
  moves back; a set header box stays set under new rows.
- `ImagesAreRight`, `UploadEnds`: the limit is checked against the images drawn so far,
  not those still to be drawn; an answer that is not JSON leaves the modal dialog open.
- `FormShowsValues`, `FormIsFilled`: `values([])`, `value(o)` of a single box and a reset
  leave text and highlights apart; a single box whose form loads 0 or `''` shows what it
  showed before, also when an option has that value (`bootstrap.combobox.js:293`), and
  values that are no option's are dropped; without `loadDepend` a value that comes before
  the options is lost; with it the interval runs for ever when the options never come.

## 8. Proofs

`DistributedLock_proofs`, for any clients, keys, lease, waiting times, numbers of faults
and deaths:

- `TypeCorrect`: `Spec => []TypeOK`.
- `LockIsExclusive`, `LeaseIsOwn`: `ExclusiveUntilFault` and `OwnLease`, assuming
  `HoldersAreQuick` (callers release within the lease they asked for). Exclusion is not
  inductive. The invariant is
  `LockInv == TypeOK /\ OwnLease /\ NoStrayDelete /\ HoldStartsAtZero`: the key of a
  holder is in redis, is its own, and its time to live plus the time held is the lease
  (so it cannot expire under a quick holder); before the first fault nobody stands
  before a delete other than the holder's; and a hold starts with the key's full life.
- `LockImplementsService`: the initial states and every step, under the same invariant
  and `KeyHasUser` (a key in redis is its setter's), are initial states and steps or
  stutters of `LockService` with `holder <- setter`. The fairness condition of
  `LockService` is not part of the theorem.
- `OneFaultLeavesNoOrphan`: while at most one command has failed and nobody has died,
  every key in redis has a client that will delete it. It needs no assumption on
  callers: the invariant says which of the two tries of a delete is still to come.

`IndexRebuild_proofs`, for any numbers of rebuilds, rows, seconds, changes and failing
calls, any page size and strategy:

- `AliasAlwaysServes`: `Spec => []AliasServes`. That the alias has an index is not
  inductive, since a rebuild deletes indexes. The invariant `AliasInv` adds: an index
  other than the first bears the name of a rebuild that has created it, and has the
  alias only if that rebuild has asked for it (`NamesTaken`); without overlap one
  rebuild runs at a time (`OneAtATime`); and, undisturbed, a rebuild that deletes old
  indexes has the alias itself and none of the old ones is its own, while a rebuild in
  a catch clause leaves another index in the alias (`Keeps`). Steps are grouped by
  `Transition`, what all calls of a rebuild have in common, so that each action needs
  three facts.
- `RebuildTypes`: `Spec => []TypeOK`. Apart from types it needs `AliasInv` (an index that
  exists has a name that was taken), and that a page, a limit or an id stays in `Ints`,
  since `start` wraps (`WrapIsInt`) and the largest id of a query is one of its rows
  (`LeastNumber` and `GreatestNumber`, from the well-foundedness of the natural numbers).
- `RebuildsLeaveOneIndex`: `SettlesOnOneIndex`. `CalmInv` follows, while no call has
  failed and none overlapped, which indexes there are at each call of the one rebuild
  that runs (`Leaves`): the old one alone, the old and the new one, both behind the alias,
  the new one and the old ones still to delete.
- `SettledAlwaysServed`: `SettledIsServed`, for any number of pushes and deletes that
  overlap. That no push of an older version of a settled row is left (`Outdated`) is part
  of the invariant: a write of one unsettles the row. The alias moves to an index that was filled
  while it was invisible, so `ServeInv` says of every rebuild what its index has of a
  settled document (`Filled`): nothing before the first read; then what its row is, for
  every row that the cursor of its strategy has passed (`Behind`), or a batch that
  will bring it; after the last read, all of them. `OldInv` says that an index which a
  rebuild deletes had the alias, so that it is not one that another rebuild fills.
  For the page strategy the rows before an id are counted (`BeforeIsNat`): a page
  reaches a row exactly if as many are before it as the page skips.

`HPQueue_proofs`, for any topics, producers, beans and capacities: `TypesAlways` with no
assumption; under `StartupFirst` (beans are initialised before anybody uses a topic) and
`EveryTopicHasBean` the invariant `QueueInv`, and from it that the factory's map holds
all queues, that no message is stranded, that messages are taken in the order of sending,
and that steps implement `TopicQueues`. The invariant says where each message between
`send` and `take` is, and that a producer that has looked its queue up has the one of the map.

`NettyClient_proofs`, for any callers, finite set of channels, ids, faults and interrupts:
`ClientInv` says that channels in the queue, held by calls and taken by `close` make up all
of them, which call each entry, message and waiting event loop belongs to, and that,
with no interrupt and no shared id, a channel not held by a waiting call is silent.
From it `NothingIsLeftBehind`, `AnswerIsForRequest`, `ChannelIsExclusive` and
`CloseWaitsForEveryChannel`.

`DatabaseRouting_proofs`, for any threads, databases, DAOs and servers: `FlagIsScoped`;
with `~Mixed` (no transaction over DAOs of several databases)
`StatementOnOwnDatabase`; with `~Nested` as well (no annotated call inside another)
`ReadYourWrites`. `RoutingInv` relates the thread local, the stack of calls, and
the connection of the transaction.

`Services_proofs`:

- `ServiceDiscovery`, for any clients and services: `ProvidersAreKept`. `DiscInv`
  says that started providers are those of the list and of the holder of the lock between
  `start` and `add`, and that without a holder each started one is in the map.
- `TaskJobs`, for any callers, beans, names and plans: `JobsAreTracked`. That
  what runs is in the map fails in the middle of every update. `TaskInv` says what a call
  has in its hands: futures are numbered in the order of schedule (`IdInv`), what a call has scheduled
  and not yet put is nobody else's (`HandInv`), a call on a name not in `race` is alone on it and
  the map is as it found it (`AloneInv`), what runs is in the map or in such hands (`AliveInv`), and
  what was scheduled runs under the plan of its bean (`PlanInv`).
- `LimitedCalls`, for any threads, permits and depth: `PermitsAreConserved`. The
  permits out are counted by the frames that run, over the stacks of all threads, so
  each step needs how it changes a cardinality.
- `CachedCalls`, for any workers, calls, hashes and any mapping of calls to fields:
  `CacheIsSound`. `KeyInv` says what the thread local holds for the call on top of each stack
  (`HasKey`), as long as no inner call has replaced or removed it, and for those
  under it (`Below`).
- `BatchCache`, for any readers and ids: `BatchIsSound`. `CurrentInv` adds to the property what
  readers hold and have not put yet; `CompleteInv` says where an id that had a row is in each of
  the steps of `batchGetForMap`; and `RecentInv`, for the ids that a call could trust when it began, that
  neither redis, its replica, nor what it holds or may still read is older than its row was then.
- `Framing`, for any lengths and pieces: `FramingIsSound`. Frames follow each other
  without a gap (`Chained`), hence the position after a frame is that of one frame at
  most (`NextFrame`), and the reader stands between two frames (`ReadUpTo`).

`Widgets_proofs`:

- `DataTable`, for any page size, filters, totals and numbers of links and requests:
  `TableShowsAsked`, `PagerIsRight`, `BoxesAreRight`. `TableInv` relates the newest request
  to what was asked, the pager to the request on its way, and the boxes to the rows. That
  the links are a window is arithmetic with two roundings (`LinksAreAWindow`).
- `ImageUpload`, for any limit and numbers of files: `ImagesAreRight`. `UploadInv`
  says what the chains of timers may still draw: no image of theirs is drawn or dropped
  yet, and there is room for all of them unless the history says otherwise.
- `FormCombo`, for any options: `FormShowsValues`, with `BoxInv`, which says that a box
  without options has nothing chosen and that a form that depends on the box asks only when
  it is ready.

`Components_proofs`: the run `components` checks one specification, in which one component
moves. `EachComponentAlone` shows that each of its behaviours is one of every
component's own specification, since no step touches what another component has
(`OthersStay`); hence all its invariants hold of it, among them `TypeOK`
(`ComponentTypes`, `ServicesKeepPromises`, `WidgetsKeepPromises`). The named assumption
`DailyAssumption` is that the plan jobs begin with is a plan.

All constants' assumptions are named in the modules and evaluated by the runs. The inductive
invariants of the rebuild and the limiter were checked by TLC before they were proved.
`FramesAreMessages` says that the decoded messages are the readable ones in order with
a set and an order, not with a filter on sequences, whose definition is recursive.

Only model-checked, because the prover has no rule for fairness and `ENABLED`: the
liveness properties `GetLockReturns`, `SendReturns`, `AcceptedIsTaken`,
`EverySendReturns`, `QuietCloseTerminates`, `RebuildEnds`, `LimitedCallsReturn`, `UploadEnds`
and `FormIsFilled`, and the fairness of the refinements `ImplementsLockService` and
`ImplementsTopicQueues`, whose initial states and steps are proved.

## 9. Not modelled, and why

- mybatis, jdbc: stateless generation of SQL text. What the range and page queries of a
  rebuild select is part of `IndexRebuild`.
- mail, excel, freemarker, jsptags, echarts: input and output, rendering, plain data.
- admin, springboot, test, api: configuration, pages and examples.
- elasticsearch search: stateless translation of requests.
- Redis cluster failover, JVM memory effects other than the listed races, and the
  wall clock running backwards are outside the modelled code.
- `RateLimiter` of guava, whose permits are a matter of time; `destroy` and a second `init`
  of a limiter, which nothing calls while its plugin is in use; the redis
  plugin with one value per key; the other redis operations, which are one command each;
  `BatchGetDataList`, which takes the steps of `BatchGetData` with lists as values.
- `ZKCuratorFrameworkFactory`: one guarded start. webjars back end: a few statements on one
  database. The elasticsearch registry is planned. common: helpers without shared state.
- echarts, moment, the date picker and EasyUI are third-party libraries kept in the
  repository; they are most of its script lines. Other widgets (`fileUpload`,
  `imageUpload`, panels, validation, menus) build markup, or are older or single-file
  variants of those modelled.
