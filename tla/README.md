# A verification development for iOS-Demo

The repository is a collection of about fifty small, independent iOS
applications. Most of them call one vendored library and keep no state. The
logic that is the author's own and has states worth exploring is concentrated in
a few of them, and this development is about those: two LRU caches and a linked
list (`SwiftAlgorithmClubTest`), the import of a configuration into SQLite
(`LBSpotStore`), an HTTP/0.9-over-QUIC client (`TQUICTest`), the two timers
called `LBNSTimer`, groups of tasks (`DispatchGroupTest`), tasks on the main
actor (`MainActorTest`) and the identifier of a JSON document (`JsonTest`). The
modules are model-checked with TLC. The safety properties of all of them but
the main actor and the identifier are also proved with TLAPS.

Paths below are relative to the root of the repository.

## 1. Inventory

| Part | State it keeps | Operations | Talks to | What is hard about it |
|---|---|---|---|---|
| `LRUCacheNew` over `DoublyLinkedList` (`SwiftAlgorithmClubTest/.../ViewController.swift`) | dictionary key -> node; a doubly linked list between two sentinels | `get`, `put`; `addToHead`, `removeNode`, `moveToHead`, `removeTail` | its caller | long mixes of calls splice pointers in pairs; strong `prev`; eviction goes by the key a node carries |
| `LRUCache` (`.../LRUCache.swift`) | dictionary key -> value; array of keys by recency; dictionary key -> node | `get`, `set`; `remove`, `insert` | its caller | three collections that must agree; a forced cast in the middle of `insert` |
| `LinkedList` (`.../LinkedList.swift`) | `head`; per node `next` (strong), `previous` (weak), `value` | append, insert, remove (by node, index, last), `removeAll`, `reverse`, `map`, `filter` | its caller, who may hold nodes | weak pointers that become nil, lists that share nodes, pointer swaps between a strong and a weak reference |
| Configuration import (`LBSpotStore/LBSpotStore/*.swift`, `LBGRDBStore.swift`) | two tables on disk; the process's database queue | launch, `createTable`, `insert...WithTransaction`, `delete...`, `fetch...` | SQLite through GRDB | the process dies at any step, a call fails at any step, the import is repeated at every launch |
| `simple_client.c` (`TQUICTest/TQUICTest`) | a socket, a QUIC endpoint, a timer, a libev loop | `main`, `read_callback`, `timeout_callback`, the endpoint's callbacks | libev, the TQUIC endpoint, the kernel, a server | datagrams lost, repeated, reordered; failing sends and acquisitions; callbacks inside callbacks; leaving the loop |
| `LBNSTimer`, start and stop (`LBAppBaseFramework`) | `isRunning`, `timer` | `start`, `stop`, the handler | any thread, a concurrent queue, an owner that drops it | an unsynchronised flag and a strong field assigned non-atomically; a source that only the field keeps |
| `LBNSTimer`, scheduled (pod `LBAppBaseFramework` of `LBSpotStore`) | `isRunning`, `timer`, `target`, `selector` | two initialisers, tick, block on the main queue, `cancel` | a queue of its own, the main queue, its target | blocks enqueued before a cancel; a tick before the source is in the field; a cycle with the target |
| `DispatchGroupTest` | two groups' counts | tasks, `enter`, `leave`, `wait`, `wait(timeout:)`, `notify` | private queues, the main queue | the timeout races the tasks; the tasks of one function run beside those of the next; `notify` needs the thread that waits |
| `MainActorTest` | `countNumber`, the label | `fetchData`, `updateUI`, the tasks of `viewDidLoad` | the main actor | a count made before a suspension and shown after it |
| `SwiftActorTest`, `SendableTest` | `balance` | `deposit`, `withdraw` | Swift tasks | order of two tasks |
| `JsonTest` | none | `generateJsonUniqueIdentifier` | - | whether different documents have different identifiers |
| `UserInterfaceStyleTest` | stored style, window style, label | `toggleUserInterfaceStyle` | user defaults, UIKit | three copies of one choice, across launches |
| `SwiftUIDataToUIKItTest` | SwiftUI state, controller copy | binding updates, `handleYearChangeEvent` | SwiftUI | one-way flow, two writers |
| `NotificationCenterTest`, `OCNotificationCenterTest` | registrations | `init`, `test`, `dealloc` | the notification centre | registrations accumulate |
| `GRDBTest` | one table | insert, delete, fetch | GRDB | as `LBSpotStore`, without conflicts |
| `DGChartsTest` formatters | none | day and large-number labels | vendored charts | calendar arithmetic |
| gzip and AES helpers, `MLeaksFinderTest`, some thirty library demos | none worth a model | - | vendored libraries | - |

What makes each of the modelled parts correct:

* a cache holds at most its capacity, drops the key used least recently, and
  answers every `get` with the value last put; its redundant structures agree;
  what it evicts is released;
* a linked list can be walked in both directions, behaves as a sequence of
  values, and an operation on one list leaves every other list alone (as long
  as the caller passes back detached nodes only);
* an import is all or nothing; which of two conflicting items survives does not
  depend on the history of failures; a launch without failures repairs what came
  before;
* the client is told of everything it received before the connection is given
  up as idle, cannot be stuck with the timer stopped, releases what it acquired,
  and ends;
* a timer that was stopped or cancelled no longer ticks, sends nothing to its
  target any more, uses no source that is gone, and lets go of what it retained;
* a group is not reported complete while one of its tasks is not, its tasks run
  in the order the function asks for, and its report always comes;
* overlapping taps lose no count, and no number on the label is followed by a
  smaller one;
* different documents have different identifiers (they have not).

The complete list of hazards, with the line each bites at and the properties
that cover it, is in `PROJECT.json`.

## 2. Modules

```
RecencyOrder ── RecencyCache                 what both caches promise
     ├── LRUCacheNew   (INSTANCE RecencyCache)     the doubly linked cache
     │       └── LRUCacheNewProofs
     └── LRUCache      (INSTANCE RecencyCache)     the array cache
             └── LRUCacheProofs
ValueLists                                   what LinkedList promises
     └── LinkedList    (INSTANCE ValueLists)
             ├── MCLinkedList                symmetry of addresses
             └── LinkedListProofs
SpotStore
     ├── MCSpotStore                         a configuration file
     └── SpotStoreProofs
SimpleClient ── SimpleClientProofs
LBNSTimer ── LBNSTimerProofs                 start and stop
ScheduledTimer ── ScheduledTimerProofs       the pod's timer
DispatchGroup ── DispatchGroupProofs
MainActorTaps
JsonIdentifier ── MCJsonIdentifier           short documents
```

Operators whose comment begins with "Fault:" are not part of any specification.
Each is a variant of the definition next to it with a plausible mistake, and
serves to check that a property notices it (`mutants` in `PROJECT.json`).

### RecencyOrder, RecencyCache
The abstract cache: `order`, the resident keys by recency; `store`, their
values; `result`, the last answer. One action for a `get`, three for a `put`
(resident key, new key with room, new key that evicts).

### LRUCacheNew
The heap is two functions `next` and `prev` over addresses; `SetNext`/`SetPrev`
are Swift's optional chaining (`node.prev?.next = ...`), so each helper of
`DoublyLinkedList` is translated statement by statement. `cache` is the
dictionary, `live` what reference counting has not released: the node that
`removeTail` returns goes when neither the dictionary nor a live node refers to
it, and `Scrub` clears its fields. `recency` is a history variable: it is
written as `RecencyCache` prescribes and no action reads it; the invariants say
the pointers agree with it. `get` and `put` are split by the branch of the code
(`GetHit`, `GetMiss`, `PutHit`, `PutMiss`). `put` evicts after it inserts, and
compares with the `Capacity` it was given, which may be negative.

### LRUCache
`cache`, `priority` and `key2node` are the three collections. Of the nodes in
`key2node` only their presence matters: their links are never used. `insert`
casts the value to the key type; where the cast fails the process dies
(`trapped`) with two of the three writes done, as the order of the lines has it.

### ValueLists, LinkedList
The heap is `next`, `previous`, `value` per node and `head` per list. Every
operation computes the heap its statements leave behind and then applies
`Collect`: what no strong chain from a head or from the caller's node reaches is
released, and weak references to it become nil. `reverse` collects between two
iterations of its loop, where the strong and the weak pointer of a node have been
swapped. A caller may hold one node (`node(at:)`), remove it, and put it back
with the node overloads of `append` and `insert` (`AppendHeld`, `InsertHeld`),
which the code and the model let it do with any node. There are two
specifications. In `Spec` the node put back is `Detached`, in no list and without
a `next`, and `insert(list, at:)` is not called; `SpecWithCopies` has every call.
The comments promise a copy of the node or list that is passed; the code uses it
itself (see the findings). So what a list should be holds for `Spec`, and
`SpecWithCopies` is there to refute the promise; its operations do not return
from a list that goes round, which such a call can make. The walks along `next` and the
loops of `append(list)`, `filter` and `reverse` are recursive functions with one
turn of the loop per index; that no list has more than `Cardinality(Nodes)` nodes
bounds the walks and the turns of `reverse`. What strong references reach is
stated as the least set that is closed under `next`. `ValueLists` says what
`filter` returns without a loop, by the positions of the values it keeps.

### SpotStore
One action per step of a launch: opening the queue, creating each table,
beginning a transaction, each insertion, the commit. `txn` is what the open
transaction sees; `Crash` discards it. A failure of any database call rolls the
transaction back and the launch goes on with the next table, as the `catch`
blocks do. What of that can be relied on is `SecondImportIndependent`: a launch
comes to its end without every row of `sc` only for a failure of that import
itself. `DeleteItems` and `FetchItems` stand for the methods of both stores:
`LBSpotSCStore` repeats those of `LBSpotACStore` word for word and works on the
same table `ac`. An item is the set of its values in unique columns and whether
it can be decoded. A batch is the set of the positions in the file of the items
the decoder accepts; `at` is how far the open transaction has come, and
`InsertItem` inserts at the least position left. What an import should amount to
is stated without any order of execution: `Imported` adds to the rows the items
that conflict neither with a row nor with an item let in before them.

### SimpleClient
One thread: `pc` says whether `main` is acquiring, the loop is polling or
dispatching, a callback is running, `process_connections` is calling back, or
EXIT is releasing. An iteration of the loop collects the ready events
(`pending`), dispatches all, and only then looks at `brk`; entering the loop
forgets an earlier `ev_break`. The endpoint is external and described by what
the client relies on: it reports the handshake, the readable pieces of a
stream in order, that a stream can be written, and the close; it keeps packets
whose sending would have blocked; its timeouts retransmit, drain and give up.
The server may open streams of its own (`ServerStreams`), because
`on_stream_readable` does not look at the stream it is called for: the end of any
of them closes the connection. The write of the request may fail, and its
result is ignored. `ev_default_loop` may return NULL, which is not checked: the
first use of the loop then ends the process (`crashed`). `client.sock` starts as garbage, because
`main` never initialises it, and EXIT's comparison with it is a free choice in
that case.

### LBNSTimer
Each caller is a thread that is at a line of `start` or `stop` (`at`). The guard
on `isRunning`, its assignment, `makeTimerSource` to `resume()`,
`timer?.cancel()` and the assignment to the field are separate steps, so that two
calls interleave at every line. The assignment of a strong field is itself two steps:
the old value is loaded, and released when the new one is stored. `refs` counts
the references to each source; releasing or using one that is gone is
`trapped`. `ticking` are the handlers inside `onTimer`, which hold the timer for
that long; when its last holder goes the timer is deallocated, and its field
released with it (`Retire`). `overlapped` is a history variable that no action
reads. Without it neither property holds: calls that overlap really can end the
process, lose a source, leave one ticking with `isRunning` false, or leave
`isRunning` true with nothing ticking.

### ScheduledTimer
The state is chosen at the start: made with a block or with a target, on the main
thread or on another, its target owning it or not. `Resume` and `Assign` are the
last two lines of the initialisers, between which the source already ticks. A
tick holds the timer until it has enqueued its block; a block of a target timer
is `asked` between the guard and the `perform`, which reads the selector again;
`cancel` is one step per field it clears. `Alive` says who refers to the timer,
its target included, which the timer itself refers to while `hasTarget`.

### DispatchGroup
`fun`, `pc` and `next` are where the main thread is; `count` is what each group
counts, `task` how far each task has come. `async(group:)` enters the group and
leaves it after the block; the second function enters and leaves once more by
itself. That the five seconds are over is a free choice of `WaitAtMost` while the
count is not zero. A leave that takes the count to zero finds the `notify` block
due, and `HandOver` hands it to the main queue in a step of its own, so that a
wait may succeed before it is there; nothing is therefore said of the order of
the two blocks. `mainQueue` holds the blocks of `notify`, which run only when
`viewDidLoad` has returned.

### MainActorTaps
The jobs of the main actor are a queue; a task runs from one suspension to the
next in one step (`FetchData`, `UpdateUI`), and sleepers wake in any order. The
`await MainActor.run` of `performTaskOnMainActor` may take its task off the main
thread (`away`) and back (`HopBack`), so that the text of `viewDidLoad` may
replace a number. `seen` and `shown` are history variables: the count each task
made before it slept, and the last number on the label.

### JsonIdentifier
`generateJsonUniqueIdentifier` as a recursive operator on documents whose texts
are sequences of characters: this is the one place where text matters letter by
letter. It is used by TLC only.

## 3. Runs

| Run | Shows | Bounds |
|---|---|---|
| `lru_new` | types; the list mirrors the order of use in both directions; dictionary and nodes name each other; evicted nodes are released; refines `RecencyCache` | capacity 3, 4 keys, 2 values, 4 addresses (15 649 states) |
| `lru_array` | types; the three collections agree; `get` never traps; refines `RecencyCache` | `maxSize` 2, 4 keys, 3 values of which one fails the cast (253 states); deadlock is allowed because a trap ends the process |
| `linked_list` | types; lists can be walked both ways; no leak; refines `ValueLists`, so that an operation changes its receiver only (`Spec`: detached nodes) | 2 lists, 4 nodes, 2 values, one held node (795 states up to the names of the nodes) |
| `linked_list_copies` | violated: no node is in two lists (`SpecWithCopies`: any node or list passed) | the same |
| `spot_store` | types; same winners; atomic import; a clean launch repairs; the second import fails only by itself; "no more" means all | 5 items for `ac`, 4 for `sc`, 2 crashes, 2 faults, 2 deletions, limits 0 to 3 (3 973 states) |
| `quic_client` | types; the idle timeout takes nothing the client was not told of; the timer runs; the loop is left when closed; leaks only an unnamed socket; ends | a response of 2 pieces, 1 stream of the server's, an idle timeout of 1 tick, 4 arrivals, 2 datagrams in the socket (1 298 480 states) |
| `quic_client_release_order` | violated: resources outlive the endpoint | the smallest instance |
| `timer_start_stop` | calls that do not overlap use no source that is gone and leave ticking exactly the one in the field; no source outlives its timer | 2 threads, 3 sources (197 038 states); deadlock is allowed because the sources run out and the owner may go |
| `timer_scheduled` | a cancelled timer stops, with the exception named there; a nil selector is sent only across threads; nothing is sent after `cancel`; a cancelled timer comes to rest | 3 blocks on the main queue (3 366 states); deadlock is allowed because a timer may end |
| `dispatch_group` | reports are true; the second function is serial; both blocks come | 3 tasks, as in the code (646 states); deadlock is allowed because the app has nothing more to do |
| `main_actor` | the numbers never go back; every tap is shown | 4 taps (3 271 states); deadlock is allowed because the taps run out |
| `json_identifier` | violated: identifiers are unique | keys of which one is a prefix of the other, texts of at most 2 letters, 2 documents |

Why the bounds are enough to be interesting. *Caches*: with more keys than the
capacity, every eviction happens from every order, including eviction right after
a refresh; three list positions are the first length at which a node has two
neighbours that are not sentinels. The theorems then cover every size. *Lists*:
four nodes allow an interior node, an insertion between two others, a reversal
with a weak link in the middle and two lists that could share. *Import*: the
file has an item that conflicts in one column, one that conflicts with an item
that was itself ignored, one that does not decode between others, and one that
conflicts with a row that survives. Two crashes and two faults let a failure
strike during the recovery from another. The limits lie below, at and above the
number of rows. *Client*: two pieces are the least that can arrive out of order,
and four arrivals leave room for a duplicate, a junk datagram, an error or the
server's own stream beside a complete exchange (a handshake and two pieces); with
fewer arrivals than a full exchange needs, the idle
timeout decides. *Timers*: two threads are the least that overlap, and three
sources let one be lost while another is in the field and a third is made. Three
blocks are more than one that runs, one that a cancel overtakes and one behind
it. *Groups*: `maxNum` is 3 in the code, so this instance is the program itself;
tasks of the first function may outlive both waits. *Taps*: four tasks sleep at
once and wake in every order. The proofs then cover any number of tasks, threads,
sources and blocks.

Symmetry is used only in the linked-list runs, over the node addresses, and only
with safety properties: which address an allocation returns is never
observed.

### Liveness and fairness
* `SpotStore`: weak fairness of the steps of a launch. A launch is a sequence of
  synchronous calls on the main thread, so it goes on unless the process dies;
  callers and crashes are not fair. Under it `RelaunchRepairs` holds.
* `SimpleClient`: weak fairness of the client's own thread, time included (a
  running timer fires). The network has no fairness at all: datagrams may never
  arrive, and the idle timeout set by `quic_config_set_max_idle_timeout`
  is what ends the wait. `EndsUnlessBreakForgotten` has one exception, which the
  code really has: a connection that closes inside the `process_connections`
  before `ev_loop` calls `ev_break` too early, `ev_loop` forgets it, and the
  program stays in the loop.
* `ScheduledTimer`: a tick that began enqueues its block, the main thread runs
  its queue and the user's calls on it return, and a `cancel` that began goes on
  to its end. Ticks, calls of `cancel` and owners that let go are not fair. Under it
  `SettlesAfterCancel` holds: no cycle keeps a cancelled timer.
* `DispatchGroup`: weak fairness of the main thread, of each task, and of the
  hand-over of a block by the thread that left last. Blocks are
  loops over three numbers, queues run what they hold, and the main thread blocks
  in `wait` only. `BothNotified` then says that no `wait` blocks for ever.
* `MainActorTaps`: weak fairness of the main thread, of each sleeper, since
  `Task.sleep` of a second ends, and of a task that comes back from off the main
  thread. Taps are not fair.
* `LBNSTimer`: only safety is stated, so no fairness.

### Findings
* `append(_ node:)`, `insert(_ newNode:at:)` and `insert(_ list:at:)`
  (`LinkedList.swift:99`, `135`, `155`) are documented to append or insert a copy
  (lines 96, 130, 150), and put the nodes they are given into the receiver: two
  lists then share nodes. TLC's trace has the one it meets first; the other two
  do the same.
* EXIT (`simple_client.c:305`) frees the TLS configuration and closes the socket
  before `quic_endpoint_free`, where `tquic.h:835` asks the caller to let the
  endpoint's resources outlive it.
* `generateJsonUniqueIdentifier` (`JsonTest/.../ViewController.swift:127`) puts
  keys, indices and values next to each other with nothing in between, where its
  comment (line 115) calls the identifier unique: `{"a": "b"}` and `{"ab": {}}`
  share one.

## 4. Proofs

Proved with tlapm, for every value of the constants that the named assumptions
allow: any integer capacity, any set of values, for `LRUCacheNew` any finite set
of keys and any finite supply of addresses larger than the capacity; any
configuration file for `SpotStore`; a response of any length for `SimpleClient`;
any lists and values and any finite set of nodes for `LinkedList`;
any threads and any number of sources, blocks and tasks for the rest.

| Module | Theorem | Statement |
|---|---|---|
| `LRUCacheNewProofs` | `Invariance`, `TypeCorrect`, `ListAlwaysMirrorsRecency`, `CacheAlwaysNamesItsNode`, `EvictedNodesAlwaysReleased` | `Spec => []...` of the four invariants, and of their conjunction |
| `LRUCacheNewProofs` | `Refinement` | `Spec => RefinesLRU` |
| `LRUCacheProofs` | `Invariance`, `TypeCorrect`, `BooksAlwaysAgree`, `OnlySetTraps` | `Spec => []...` |
| `LRUCacheProofs` | `Refinement` | `Spec => RefinesLRU` |
| `LinkedListProofs` | `Invariance`, `TypeCorrect`, `AlwaysWellLinked`, `NothingElseEverLives` | `Spec => []...` |
| `LinkedListProofs` | `Refinement` | `Spec => RefinesValueLists` |
| `SpotStoreProofs` | `Invariance`, `TypeCorrect`, `AlwaysSameWinners` | `Spec => []...` |
| `SpotStoreProofs` | `ImportAlwaysAtomic`, `SecondImportAlwaysIndependent`, `NoMoreAlwaysMeansAll` | the three action properties |
| `SimpleClientProofs` | `Invariance`, `TypeCorrect`, `TimerAlwaysRunsInLoop`, `AlwaysLeavesLoopWhenClosed`, `AlwaysLeaksOnlyUnnamedSocket` | `Spec => []...` |
| `SimpleClientProofs` | `IdleNeverLoses` | the action property |
| `LBNSTimerProofs` | `Invariance`, `SerializedUseAlwaysSound`, `TicksAlwaysEndWithOwner` | `Spec => []...` |
| `ScheduledTimerProofs` | `Invariance`, `TypeCorrect`, `CancelAlwaysStops`, `TrapsNeedAnotherThread` | `Spec => []...` |
| `ScheduledTimerProofs` | `NeverMessaged` | the action property |
| `DispatchGroupProofs` | `Invariance`, `TypeCorrect`, `ReportsAlwaysTrue`, `SerialAlwaysInOrder` | `Spec => []...` |

**The argument for `LRUCacheNew`.** No invariant is inductive alone. That the
list mirrors the order of use is preserved by an eviction only if the node that
leaves is the one whose entry the dictionary drops (`CacheNamesItsNode`), and by
an insertion only if the new address is not one that the list still uses
(`EvictedNodesReleased`); so `IInv` is their conjunction. Reasoning along
pointers would need induction over the list. It is avoided by stating the list
positionally: a heap is `Linked` along a function from positions to nodes (a
seating), `removeNode` takes it to a heap linked along the seating without one
position, `addToHead` to one with a position more. `Coherent` ties a linked heap
to the dictionary, the payloads and the live nodes; one lemma per kind of change
(`RefreshCoherent`, `EnlistCoherent`, `EvictCoherent`, `ScrubCoherent`) keeps
it, and the step proof composes them as the code composes its calls. That the
live nodes never exhaust the addresses, and that an eviction happens exactly when
the order would exceed the capacity, is an argument about cardinalities.

**The argument for `LRUCache`.** `IInv` is the conjunction of the three
invariants. The lemmas say what `remove` and `insert` do to books that are
sound; `set` and `get` compose them; the trap is the one way in which the books
stop being sound, and it stops the process.

Both modules begin with the lemmas on sequences that they use: what
`MoveToFront`, `Cons`, `Front` and `RemoveAt` do to the elements of a sequence
and to its having no repetition.

**The argument for `LinkedList`.** None of the three invariants is inductive. A
walk says nothing of the nodes it does not reach, yet the node the caller holds
is relinked by `append` and `insert`, and a removed node whose pointers were not
cleared would come back with them. `IInv` therefore places every node that is
alive: there are rows of nodes, one for each list and one more, `Outside`, for
what only the caller's reference keeps alive, no node on two places (`Apart`),
such that `next` leads along each row and ends there, `previous` leads back, each
list's head is the first of its row, and all other nodes are blank (`Tidy`). The
caller's node is on a row, and if `Outside` is not empty, at its start
(`Reaches`). A caller who holds a node of a list that is then emptied keeps its
whole tail: this is how a row becomes `Outside`, its first `previous` zeroed. The
proof of a step has three layers.
  * *Drawn.* What the statements of an operation write, before anything is
    released, is again drawn along rows: a position more for an insertion, one
    less for a removal, the row turned round for `reverse`. For the loops this is
    an invariant of the turns; the induction over them is by the least turn that
    breaks it, since the library's induction cannot be instantiated. In `reverse`
    every turn has two parts of the list, the turned one behind the head and the
    rest, which only the local variable holds.
  * *Collected.* Given the drawn heap and the references that remain, what is
    reachable is found (the rows of the lists and the row the caller's node is on, from
    that node on) and the released nodes are seen to be blank.
  * *Leads.* The walks of `Chain` follow the rows (`RowsAreLists`), so that each
    operation takes the contents of its list to what the abstract operation makes
    of them and leaves the other lists alone. The refinement follows from this
    and the invariant.

**The argument for `SpotStore`.** `Midway` strengthens the invariants: an open
transaction sees exactly what the items before `at` make of the rows on disk, so
that a commit, where none is left, stores a whole import. For that, a set of
items let in must exist, for a file of any length. It is shown on
positions in the file rather than by recursion over it: a set of naturals that is
not empty has a least element, and the least length of the file for which there
were no such set contradicts itself. That the winners are the same after any history
rests on `WinnersKept`: an import over rows of a first import adds only such rows. The
first item in the file to break this would conflict with one that the first
import let in and this one does not; but what keeps that one out is itself a row
of the first import, and conflicts with it. From the same lemma, importing a
whole import again changes nothing (`ImportedTwice`), so that table `sc`, from
which nobody deletes, is empty or whole (`ScWhole`): with this a commit that
succeeds leaves every row of it, which is `SecondImportIndependent`.

**The argument for `SimpleClient`.** Each invariant needs only a little more than
itself: that the timer is armed from before the loop on (`Timer`), that
only the report of the close marks the loop (`Leaving`), and that EXIT has been
at every resource before its place in the order (`Releasing`). Without a connection
(`Unconnected`) none of the callbacks can run. `IdleNeverLoses` rests on `Fresh`:
what the client was not told of, outside `process_connections`, came after the
last timeout, because every timeout is followed by `process_connections`; and the
timeout next after a packet does not give up.

**The argument for `LBNSTimer`.** `IInv` is an implication: until two calls
overlap. `Counted` says whose reference each source has, the field's or the local
variable's of a start, and one each; `InOrder` says what each line of a call finds,
given the lines before it; `AtRest` says what is left between calls.

**The argument for `ScheduledTimer`.** `OneCancel`: `isRunning` lets one `cancel`
through. `SourceInField`: such a call finds the source in the field unless it was made
by the first tick inside the initialiser. `SelectorGone`: the selector is missing
where a block had found it only by a `cancel` on another thread.

**The argument for `DispatchGroup`.** The count of the first group is the number
of its active tasks (a cardinality, so that zero means that all have ended); that
of the second is what the one task in progress has still to leave (`Serial`).
`Reports` says what has been asked for and answered at each point, `Queue`
which blocks the main queue can hold.

**Only model-checked.** Liveness, which is outside the prover's reach:
`RelaunchRepairs`, `EndsUnlessBreakForgotten`,
`SettlesAfterCancel`, `BothNotified`, `EveryTapShown`. And
`NumbersNeverGoBack` of `MainActorTaps`, for which no proof has been written: it
would need `shown` and the counts in `seen` to be bounded by `countNumber`.

## 5. Not modelled

* Everything vendored. It is by far the largest part of the repository (SQLite,
  BoringSSL, curl, image codecs, chart and layout libraries: about 1.7 million
  lines of C and C++ alone); its authors are others and the apps use it through a
  few calls, which the modules describe as external where they matter.
  `simple_client.c` is the one C program of the repository itself; all other code
  that is modelled is Swift.
* What happens to a cache's nodes when the cache itself is dropped: they retain
  each other, and nothing breaks the cycle.
* Of `LinkedList`: an index out of range, which an assertion forbids; removal of
  a node that is not in the list, which the code does not refuse and which moves
  the head; and a list appended to itself, whose loop has no end. Nodes that are
  still in a list, or still have a `next`, may be passed to `append` and `insert`
  by their comments; the model has these calls, in `SpecWithCopies`, but
  everything that is proved or checked to hold of the lists is about histories
  without them.
* What the two stores of the import were meant to do with the table `sc`: the
  methods that delete and fetch work on table `ac` in both, and the model has them so.
* Decoding of JSON items, columns without a constraint, the wording of messages.
* QUIC itself: packet formats, loss detection, cryptography.
* Timers: the length of an interval (`Int(ti)` turns less than a second into
  none), `repeats`, which is never read, `userInfo`, which is passed on, and calls
  of `cancel` that overlap each other.
* Numbers in JSON that are not integers, whose decimal text the system makes, and
  the SHA-256 of the identifier.
* `SwiftActorTest`, `UserInterfaceStyleTest`, the notification demos, `GRDBTest`:
  a handful of states each, or code a model here already covers; when SwiftUI
  updates a controller (`SwiftUIDataToUIKItTest`) is not documented. The reasons
  are in `PROJECT.json`, component by component.
* The library demos and layout code.

## 6. What could follow

1. `cancel` of the scheduled timer from several threads at once, with the
   non-atomic assignments of its fields as in `LBNSTimer`.
2. A proof of `NumbersNeverGoBack`: `shown` and `seen` bounded by `countNumber`, in
   the invariant.

Checking everything: `tlc -config <run>.cfg <module>` for each run of
`PROJECT.json`, and `tlapm <module>` for the eight `*Proofs` modules.
