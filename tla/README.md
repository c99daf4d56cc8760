# Verification of teapot

TLA+ models, TLC runs and TLAPS proofs for [teapot](../src/README.md), a set of
Go daemons that run a small Kubernetes cluster: networking between nodes
(`netd`, `ccmd`, `loadbalancerd`), an LDAP directory (`bottind`) with its web
front ends (`kontakted`, `filesd`, `calendard`), log collection (`logd`), DNS
and alert webhooks (`desecd`, `alertd`) and the libraries they share.

Every module is translated from the code; `PROJECT.json` maps each definition
to the lines it stands for. The properties aim at what the repository's tests
(which only cover the ASN.1 encoder in `lib/ldapsrv/goldap`) do not reach:
interleavings of goroutines, processes and messages, failures in the middle of
an operation, shutdown, and values read in one step and used in a later one.

## Inventory

| part | state | operations | who it talks to | what is hard | what makes it correct |
|---|---|---|---|---|---|
| `lib/pgcache` | a full copy of one PostgreSQL table per process, the notification connections, open transactions | `Run`, `Begin`, `Store`, `Delete`, `Commit`, `handleEvents` | PostgreSQL (rows, LISTEN/NOTIFY, a pool of connections); used by `service/bottin/store` and `service/calendar/store` | commit and notification are separate, the copy-on-write map has two writers, failures leak transactions | only committed data is visible; copies become equal to the table |
| `service/bottin` | the directory: entries with attributes, member and memberOf lists | `Add`, `Del`, `Modify`, `Extended`, `Bind`, `Search`, `Compare` | its store (memory or pgcache), `lib/ldapsrv` | check-then-act without a lock, assignment in shared maps before the commit | member and memberOf mirror each other, the tree is closed |
| `lib/ldap` | two channels of slots and connections, filler goroutines | `fill`, `get`, `NewClient`, `Close`, `Factory.Run` | an LDAP server; used by kontakte, files, calendar through `lib/httpauth` | slots and connections in flight, dead connections, shutdown | a bounded number of pooled connections, no send ever blocks, waiting callers are served |
| `lib/broker` | subscribers with buffers of five messages | `Run`, `Publish`, `Subscribe`, `Unsubscribe`, `Iter` | used by `service/net` and `service/ccm` | drops when a buffer is full, shutdown while others publish or unsubscribe | a subscriber that keeps up sees every message in order, nobody blocks for ever |
| `lib/run` | services in start order, one error channel | `Run`, `startup`, `watch`, `CombinedRun` | every daemon | start timeouts against late notifications, errors before and after the start | an error of a service ends the process, the order of starts is kept |
| `lib/kubecontroller` | work queue, informer store, retry counters | `processNextItem`, `handleErr`, `Run` | the Kubernetes API; used by net, ccm, loadbalancer | same key updated while processed, retries | the last version of every object is handled or reported |
| `service/net` | local node, cluster view, WireGuard peers, CNI and routes | `handle`, `Local.Run`, `Cluster.Run`, `WireGuard.Run`, `CNI.Run`, `Router.Run` | kubecontroller, broker, netlink | brokers in series, dropped events, shutdown order, one service deleting the device another one routes through | peers and routes converge to the cluster, a published key is not lost |
| `service/ccm` | addresses of the node | `handle`, `SetInternalIP`, `SetExternalIP`, the two reconcilers | kubecontroller, broker, Kubernetes API | fields written outside the lock | the node gets its addresses |
| `service/loadbalancer` | none | reconciler of Services and their ingress addresses | Kubernetes API | order of a map in a comparison | status equals the addresses of the nodes |
| `service/log` | one worker per source with file, buffer and rotation | `handler`, `manager`, `worker` | HTTP, files | wait groups, rotation, stop, compressed streams sharing a file | every line accepted is written once and can be read back |
| `lib/s3cache` | a metadata file, cached files, S3 | `Get`, `Put`, `Remove`, reclaim of space | S3, the disk; used by files | concurrent stores of one object, crash between file and metadata | no entry points nowhere, the size limit holds |
| `lib/ldapsrv` | a server with one goroutine per connection and one per request | accept, read, dispatch, abandon, shutdown | bottin | closing channels while others send, deadlines | each request gets its answers, shutdown ends |
| `lib/ldapsrv/goldap` | none | BER reading and writing of LDAP messages | ldapsrv | lengths | reading what was written gives it back |
| `lib/webdav`, `service/files`, `service/calendar` | locks, mounts, sessions, calendar objects | WebDAV and CalDAV methods | pgcache, s3cache, ldap | lock tokens, conditional requests, session expiry | DAV semantics |
| `lib/httpauth`, `lib/webauth`, `lib/webhandler`, `lib/httphandler`, `lib/httpsrv`, `lib/ui` | tokens, page state | HTTP middleware and pages | browsers | expiry | only authenticated requests pass |
| `service/kontakte` | none | pages on users | `lib/ldap` | none of its own | forms map to LDAP operations |
| `service/desec`, `service/alert` | rate limits, issues | webhooks for external-dns and Alertmanager | deSEC, GitHub | retries | records and issues follow the requests |
| `lib/observability`, `lib/log`, `lib/cmd`, `lib/kube*`, `lib/tmplstring`, `lib/pagetitle`, `cmd` | flags, metrics, checks | start-up and glue | everything | none | – |


## Modules

| module | stands for | checked by | proved in |
|---|---|---|---|
| `PgCache` | `lib/pgcache` in several processes over one PostgreSQL | `MCPgCache` with `PgCacheRaces`, `PgCacheLoop` | `PgCacheProofs` |
| `Bottin` | the writing handlers of `service/bottin` on one store | `MCBottin` with `Bottin` | `BottinProofs` |
| `LdapPool` | `lib/ldap`: pool, factory, clients, health checks | `MCLdapPool` with `LdapPool`, `LdapPoolLive` | `LdapPoolProofs` |
| `Router` | `service/net/cluster.go`, `service/net/router` and one channel of `lib/broker` | `MCRouter` with `Router` | `RouterProofs` |
| `Asn1`, `Goldap` | `lib/ldapsrv/goldap`: BER, and the LDAP messages on it | `MCGoldap` with `Goldap` | `Asn1` in `LdapServerProofs` |
| `BottinRead` | Bind, Compare and Search of `service/bottin`, on the bytes of `Goldap` | the same | – |
| `LdapServer` | `lib/ldapsrv`: the accept loop and the goroutines of a connection | `MCLdapServer` with `LdapServer` | `LdapServerProofs` |
| `S3Cache` | `lib/s3cache`, with the bucket, the disk and crashes | `MCS3Cache` with `S3Cache` | `S3CacheProofs` |
| `ObjectStore` | what `S3Cache` implements: a store of versioned objects | as a property of `S3Cache` | `S3CacheProofs` |
| `LogService` | `service/log`: handler, manager, worker, files | `MCLogService` with `LogService` | `LogServiceProofs` |
| `Netd` | `netd`: controller, brokers, `Local`, `Cluster`, WireGuard or CNI | `MCNetd` with `Netd` | `NetdProofs` |
| `Ccmd` | `ccmd`: `lib/run`, the controller and three services on a broker | `MCCcmd` with `Ccmd` | – |

What composes what: `BottinRead` extends `Goldap`, which extends `Asn1`, so that
a search is followed from bytes to answer. `Netd` has the brokers of `lib/broker`
in series with all that listens to them but the router, which `Router` has with
its kernel. `Ccmd` has `lib/run` around services on a broker. `S3Cache`
instantiates `ObjectStore`. `Bottin` has its handlers on the store in memory, and
`PgCache` the other store without the handlers;
`LdapServer` abstracts handlers to how many entries they find, which `Bottin` and
`BottinRead` have in full.

### PgCache

`db` is the committed table; `cache[i]` the `SortedMap` process `i` has
published; `queue[i]` what PostgreSQL holds for its listener; `loop[i]` the
notification loop of `Table.Run` with the keys it is refreshing, its tries and
the copy it is about to publish; `tx[t]` a `TableTx` with the PostgreSQL
transaction under it. An object is abstracted to the transaction that wrote it.

Each await of the code is a boundary between actions: `Store` and `Delete` are
`Issue` and `Execute` (which waits for the row lock), `Commit` is `CommitBegin`,
the notification, the database commit, and per key a copy and a publication of
the map, because `sorted_map.go` copies and publishes without a lock and the
notification loop does the same at the same time. Statements, notifications and
commits fail, a commit can report an error although it happened, and processes
crash and start over with `List` and `Listen`. PostgreSQL and pgx are external.

`window` is a history variable. It records the first entry into one of the race
windows (a refresh between notification and commit, a commit between `List` and
`LISTEN`, two map copies at once, and so on), and `AgreeUnlessRaced` says that
these are the only ways to diverge. Without it no statement on agreement holds:
`Commit` notifies before it commits, so a fast listener fetches the old row and
is not told again.

### Bottin

`view` are the entries of the store in memory, which handlers read, `req[c]` the
request client `c` has under way with the membership updates (`jobs`) left to do.
A commit changes the store at once, behind its lock; a crash empties it. Reads
return the stored attribute map itself, so `membershipAdd` and `membershipRemove`
change `view` before the commit, and also if there is none. Attribute
keys are `objectclass`, `userpassword`, `member` and `memberof`; values are sets of
names. `Starts` is the string order behind prefix lists, given separately from
`Parent`, so that a sibling whose name continues another one's can be
expressed. `causes` records what may have put `member` and `memberOf` out of step:
`membershipRemove` compares the number of members with the length of the name
and may return early, and `Modify` stores only the attributes it was given.
Requests the ACL refuses change nothing and are left out. Under the pgcache store a
commit is not one step: the table changes first and the cache is then patched key
by key, against the notification loop. `PgCache` has that gap; the two modules are
not composed.

### LdapPool

`demand` and `source` are the two channels, `filler` and `caller` the places of
the goroutines, `state` of each connection says if it is open, broken or closed,
`wg` is the counter of the `WaitGroup`. Health checks are callers that close
right away. The server goes down and up again at any moment; going down breaks
every open connection, which a caller notices only when it checks.
`Factory.Run` starts the fillers, notifies and returns; the extra `wg.Done` is
there as in the code, and the process stops at a panic.

### Router

`state` is the map of `Cluster.Run`, which publishes the map itself. So a
message carries no data: `pending` counts messages, and the router reads the
map as it is when it gets to it. `Overlap` is the unsynchronised access: a
write during the router's iteration ends the process or leaves the iteration
with the old or the new value of that node. `want`, `routes` and `kernel` are the
derived routes, `Router.routes` and the kernel's table; each netlink call is a
step. The kernel is external: it wants a reachable gateway and has one route
per target. `device` is the WireGuard device. `WireGuard.Run` deletes it when it ends
(`DeleteDevice`), upon the same cancellation or an error of its own, while the
router is still at work: the kernel drops every route through it, further adds
fail, and the removals of `cleanupRoutes` fail too. `Exit` is the end of `main`, which does not wait for the services'
deferred cleanup; `Restart` recreates the device, and with it an empty table.
`shadowed` and `silent` are history: adds that met another route, and nodes
deleted without a message since the last iteration.

### Asn1 and Goldap

`Asn1` has the primitives of `asn1.go` over sequences of bytes: tags, lengths,
booleans, 32-bit integers and octet strings, each with its reader, its writer and
the size the code computes apart from the writer. A loop that shifts bytes in or out
is a recursive function of the number of rounds (`LengthAfter`, `Int32After`,
`Shifted`, `Rounds`). In `goldap` every ASN.1 type
has a file whose three functions walk the same components; `Goldap` has one
description per type, and `Read`, `Write` and `Size` interpret descriptions. What
files do differently is in the description: components that are looked for by
tag or by remaining data, a boolean that only exists as true, lists with a
minimum, alternatives that may occur once. The state is one message on its
way. It is composed, written, possibly cut or changed in one byte, and read.
Left out are the accessors, error texts, `decompileFilter` (for the log), and the
parts of `asn1.go` and `struct.go` that nothing in the repository calls.

### BottinRead

A message that was read, as it was sent or as it was changed, and that is a
Bind, Compare or Search, is answered from a directory that does not change. Names
are parsed from the bytes with the code's splitting, trimming and case folding
(a byte that is not ASCII becomes the replacement character). The rules are
parsed from their textual form; patterns are those with `*` only. `SELF` replaces
the name as it was given when the connection was bound. `applyFilter` has three
results, since a condition the server does not implement is an error, if
the evaluation reaches it. Hash functions are external: different passwords have
different digests. A SASL bind that gets as far as the password ends the process,
as the type assertion in `AuthenticationSimple` does.

`AnswersSearch` bounds an answer from below and above. What the code does beyond its
texts is left as a liberty, not required. `List` promises "all entries under the
provided prefix DN" (`store/store.go:27`), and a prefix is one "if all the parts
match" (`store/types.go:117`). The stores list by strings that begin alike, so a
search below `ou=a` also shows what is below `ou=ab`. The run does not decide
whether that is meant; it shows that nothing else is shown.

### LdapServer

One process per goroutine: `Serve` reads and handles, `Writer` empties the
unbuffered `chanOut`, `Notifier` waits for the server's cancellation. `cwg` and
`srvwg` are the wait groups of the connection and of the server; sending on a closed
channel is a panic, which stops everything. A packet may
arrive in two parts, the read deadline may pass in between; the client may hang up.
The write deadline is set once per request, before the read, so it may have passed
when the answer is written, although the client was only idle and still listens
(`late`). The write then fails, and the buffered writer keeps its error: every later
write fails as well (`broken`). `uncounted` is history: a connection that had not
counted itself when the server found its wait group empty.

### S3Cache and ObjectStore

`remote` is the bucket, `files` the data directory, `meta` the metadata in memory
and `persisted` the one on disk, `pc` and `job` what each caller is doing. A content and its
ETag are a version. Every file operation, every S3 call and every locked section
of the metadata is a step, evictions exclude each other, misses of one key share
one flight, and a crash keeps the files and the saved metadata. `ObjectStore` has
a bucket and calls: a Get is answered with the version it asked for, or one that
was in the bucket during the call or a call it shares a flight with. `torn`
collects the keys on which calls raced (two stores of a new key under two
identifiers, a removal against a store, a read after its file was replaced) or
that a crash caught between file and metadata; the refinement excuses those
and no other.

`crowded` is set by the three ways past the capacity, and by nothing else:
- two stores measure the room at once, each without the other;
- `resolveUID` reads the size of the old entry under one lock (`Store`) and `cap()` the
  size of all entries under another (`MeasureRoom`); if the old entry is removed,
  evicted or replaced in between, its size counts as room twice. A single store and
  a `Remove` of its key are enough, and TLC finds it in the run once the excuse is taken
  out;
- `put` changes an entry that `persistLocked` has collected and not yet written. The
  entries are shared by pointer and marshalled after the unlock, so the file then
  has the new size of one entry beside keys that were evicted to make room for it,
  and a restart that reads it is over the capacity. It takes three keys to see
  this: the two of the run do not reach it, the attempt to prove `WithinCapacity`
  without it did, and TLC then found the behaviour on three keys and a capacity of 6.

### LogService

One source. An event goes through the manager's lookup and its flight into
the worker's channel; a line is then in the compressor, in the buffer, and in a
file. `Flush`, `Rotate` and each step of the rotation can fail once. Positions are
unsigned modulo `Wrap`, which stands for 2^64. Each worker compresses into a gzip
stream of its own and never ends one, so `stream` keeps for each line whose stream it
belongs to and whether the stream begins with it. A file can be read up to the
point where another stream begins or goes on, and not at all behind what an earlier
process left in it (`left`, `Unreadable`). `NothingLost` says that this happens only to
files that two workers of the source wrote to (`Shared`) or that were left over. `stop` waits for a signal no worker
sends, and a wait group that is counted twice per event never lets a request
with events return; both are as in the code.

### Netd

`api` is what Kubernetes has, `inbox` the channels of the first broker, `nodes`
the map of `Cluster`, `localInbox` and `clusterInbox` what the agent has not taken
yet, `device`, `iptables` and `file` what the agent has configured. Others change
nodes; netd itself annotates its node with its key, which comes back as an
update. `lost` records what a full channel dropped and `silent` a deletion, which
is not published. A CIDR has an address and a mask: `configureWireguard` compares
peers without the masks (`Same`, as `compareNetIP` does), so a peer of which only a
prefix length changes is left as it is, and the property compares up to masks.
Calls fail, the process is cancelled or crashes and starts again with the key file
that is there. `NewLocal` makes a new key and overwrites the file whenever it cannot
read or parse it, not only when there is none; `givenUp` records the keys that were
lost so.

### Ccmd

`lib/run` starts the services one after the other with a timeout each, then
waits for an error or a signal; errors go through an unbuffered channel that
nobody reads during the start. Events hold the node as the controller saw it.
`field` are the addresses in the ccm service, written outside the lock; a call to
the Kubernetes API may fail or meet a conflict.

## Runs

All bounds are constants named in the module that declares them.

| run | instance | shows |
|---|---|---|
| `pgcache_races` | 2 processes, 2 transactions on 1 key, pool of 2, 1 fault, 1 crash | `TypeOK`; `AgreeUnlessRaced`; `CommittedOnly`: no reader ever sees uncommitted data |
| `pgcache_loop` | pool of 1 connection, fair | `EventsHandled`: a notification taken is finished, or the process ends, unless transactions without a rollback ate up the pool |
| `bottin` | 2 clients whose handlers interleave, 2 requests of every kind, a failed commit, a crash | member and memberOf mirror each other and the tree is closed, but for the recorded causes |
| `ldappool` | 2 fillers, 2 callers, capacity 2, an outage, a failed bind, shutdown | `SendsNeverBlock`, `OneOwner`, `PanicOnlyAtTheEnd` |
| `ldappool_live` | 1 filler, 2 callers, capacity 1, an outage, fair | `CallersServed`, `FillersStop` |
| `router` | 3 nodes, 2 addresses, 1 CIDR, buffer of 1, 3 updates, a failing call, 2 starts, fair | `KernelTracked`, `ErrorsExplained`, `CaughtUp`, `CleanExit`, `EventuallyFollows` |
| `goldap` | about 100 messages of every kind, each whole, cut anywhere, or with any one byte changed to one of 8; a directory of 4 entries under the default rules | `RoundTrip`, `SizeIsWritten`, `CutIsRefused`, `AcceptedIsStable`; `AnswersSearch` |
| `ldapsrv` | 1 connection, 2 requests, 1 entry, a write timeout, stop at any moment, fair | `AnsweredInOrder`, `GracefulUnlessUncounted`, `ConnectionsEnd` |
| `s3cache` | 2 keys, 3 versions, 2 callers, 3 calls, 4 identifiers (as many as the calls and the warm key need), room for 5 units, 1 failure or crash | `EntriesAreFiles`, `WithinCapacity`, and `ImplementsObjectStore`: the refinement |
| `log` | 1 request of 2 events, a channel of 1, flush after 1 line, rotation at 2, 1 fault, 1 second, fair | `NothingLost`, `LinesReachDisk`, `ProcessReturns` |
| `netd` | the node and a peer, 3 CIDRs of which two differ only in their masks, buffer of 1, 1 change, 1 fault, 2 starts | `AgentsFollow`, `KeyDurable`, `RulesRemoved` |
| `ccmd` | a node that loses or has wrong addresses, buffer of 1, 1 fault, fair | `ProcessEnds`, `AddressesSettle` |

Why the bounds are enough. Every race of `PgCache` is between two writers of one
key or between one writer and one listener; the second key and third
transaction only multiply the states. Each membership defect needs one group
and two members, an orphan a tree of depth three. Two fillers and two callers
contend for both channels, and a capacity of two lets a channel be neither
empty nor full. A buffer of one message is full at once, which the code's five
only reach later; two addresses and a CIDR are what a moved route needs, and
three updates let a third one run into the consequences of the second.

The messages lie on both sides of every boundary of the encoding (lengths 127 and
128, integers 127, 128, 255, 32768 and the largest); the changed bytes include
the ends of the byte's range, a constructed tag and long lengths. The directory
has a pair of entries of which one's name begins with the other's, an entry below
the second, a user without and one with the group of the administrators. Two
calls are all that a race of the S3 cache takes, the third one sees what it left;
the second key is what an eviction chooses from. Two events make the log worker's
channel full and its file old enough for two rotations within a second. One
connection is enough for the LDAP server, as connections share only the wait
group and the cancellation; its second request meets the answers of the first.
For `netd` and `ccmd` one change or fault meets every stage of a start, and a
second start meets what the first left. The theorems remove the bounds where they
are proved.

`CHECK_DEADLOCK FALSE` is set in all runs but `goldap`: the bounds on requests run
out, and the services do come to rest when nobody asks anything of them.

### Fairness

- `PgCache`: weak fairness of each handler that began a transaction, of
  start-up, and of the notification loop. These are goroutines that are
  runnable or wait for PostgreSQL. Clients need not begin anything, and nothing
  has to crash or start.
- `LdapPool`: weak fairness of goroutines. Strong fairness for a caller waiting on
  `source`, because Go serves waiting receivers in order, and for the cancellation
  branch of a `select`, because a `select` chooses among ready branches at random.
  Callers that hold a connection close it.
- `Router`: weak fairness of the router's goroutine and of `Publish`. No fairness of
  updates, signals, exits or restarts.
- `LdapServer`: weak fairness of the three goroutines of a connection while the
  process is alive, the client's reading included in the writer's; no fairness
  of clients, of the accept loop or of the cancellation.
- `LogService`: weak fairness of the goroutine of each event and of each worker, and
  of the worker's ticker. Nothing has to be stopped or to fail.
- `Ccmd`: weak fairness of `main`, of every service's goroutines, of the controller
  and of the ticker of externalip. Nothing has to fail, and nobody else has to
  change the node.

## What the models show about the code

The repository's texts claim little that could be contradicted, so the properties
hold with the exceptions the code makes, and each exception is named in its
property. A hazard that is excused so is not caught by the run, it is in the model:
what the run shows is that nothing else makes the property fail:

- a cache may stay different from its table after one of the race windows
  (`AgreeUnlessRaced`), and a transaction without a rollback keeps its connection
  (`EventsHandled`);
- a deleted entry may stay in a group, `Modify` drops what it was not asked about
  (`MirrorUnlessCaused`), and concurrent Add and Del may leave an orphan
  (`TreeClosedUnlessRaced`);
- a search of a base object may show nothing, and one below an entry what is below
  entries whose names begin with its name, against the comments on `List` and
  `IsPrefixOf` (`AnswersSearch`);
- a matching rule assertion without `dnAttributes` is written in a way that is
  not read (`RoundTrip`);
- an integer without any byte is accepted, as 0, and takes one byte when it is
  written again (`AcceptedIsStable`);
- a client that is idle for longer than the write timeout loses the next answer and
  all that follow (`AnsweredInOrder`), and a connection that is about to start is
  not waited for (`GracefulUnlessUncounted`);
- racing calls and crashes leave a key of the S3 cache torn
  (`ImplementsObjectStore`), and an eviction frees more than it has to
  (`WithinCapacity` holds all the same, but for overlapping stores, a store whose entry
  goes while it measures the room, and a store that changes an entry while it is
  persisted);
- two workers of one source, or a worker after a restart, write gzip streams into
  one file that cannot be read back from there on (`NothingLost`);
- a log worker that cannot close a file, or is stopped, answers nobody
  (`ProcessReturns`);
- a deleted node keeps its peers and routes until another node is updated
  (`CaughtUp`, `AgentsFollow`), a renumbered node leaves its old rules
  (`RulesRemoved`), a changed prefix length does not reach WireGuard (`AgentsFollow`),
  and a dropped event may leave an agent behind;
- a key file that cannot be read once is overwritten (`KeyDurable`);
- the WireGuard service deletes the device, and its routes, before the router has
  cleaned up, whose removals then fail (`KernelTracked`, `ErrorsExplained`);
- `Factory.Run` makes its `WaitGroup` negative, but only when the last filler is
  gone (`PanicOnlyAtTheEnd`).

## Proofs

For every value of the constants, from the assumptions named in the modules:

- `PgCacheProofs`: `TypeCorrect`, `OnlyCommittedIsVisible` and `OnlyRacesDiverge`. `CommittedOnly` speaks
  of the caches only and is not inductive, since an object travels from a
  fetch or a transaction through an unpublished copy into a cache.
  `CommittedInv` says the same of the table and of every stage on the way, and
  that a transaction writes no version but its own.
  `AgreeUnlessRaced` speaks of settled processes only. `AgreeInv` says what holds in
  between: at any time a row on which the map a process publishes last differs from
  the table is one it will still write (`Pending`: a message in its queue, an event or
  a fetched object in its loop, or an update its own transaction has yet to apply);
  the other processes have not acted on what an open transaction has announced
  (`HeardOf`); and no two copies of the map are under way (`OneCopy`). It rests on facts
  that hold in every race: row locks exclude each other (`RowsExclusive`), the last
  update of a row in a transaction's list tells what the transaction leaves in it
  (`UpdatesTell`, which makes the message and the patch of the own copy agree with the
  commit), only a committed transaction copies, and a process that does not run has
  nothing under way. So the six windows are the only ways for a copy to go wrong.
- `BottinProofs`: `MembershipsMirror`, `TreeStaysClosed` and `BottinTypes`.
  For the tree, `TreeInv` says that requests that do not overlap have
  nothing in common (`Apart`) and that what a handler checked still holds when it
  commits (`Promises`). For member and memberOf, `MirrorInv` says for each request
  under way by how much it has put them out of step: the list of another entry is
  the one the stored entry calls for once the call on it is made, and the one the
  entry before it calls for until then (`Follows`); lists of entries that no request
  is about agree (`Settled`). What a Modify computes is a recursive
  function of its changes; `ModifiedIn` proves by a smallest counterexample that it
  has every property its steps preserve. The assumption that counts is
  `DirectoriesAssumption`: the server starts with a directory that is closed and
  mirrored and in which no group is its own member. The last part is needed: to
  delete a group that is its own member stores it again, after all, with its members.
- `LdapPoolProofs`: `PoolTypeCorrect`, `PoolNeverBlocks` and `PoolPanicsLast`. The
  sends find room because slots are conserved (`SlotsConserved`: channels, fillers
  and callers together hold at most `Size`), which is shown with the cardinality
  lemmas of the library. `Counted` gives the exact value of the `WaitGroup`
  counter in terms of the fillers at work.
- `RouterProofs`: `RouterTypeCorrect`, `KernelIsTracked`, `ErrorsAreExplained`,
  `RouterCleansUp` and `RouterCatchesUp`. `Tables` adds to the stated properties that
  direct routes never clash and that wanted routes contain their gateways; the
  device may go at any step after a cancellation or an error of WireGuard.
  `Fresh` carries the map to the routes: while nothing is published, buffered or
  silently deleted, first the iteration and then the wanted routes are those
  of the map.

- `LdapPoolProofs` also has `PoolOneOwner`. That two callers never share a
  connection needs `Owned`: nothing that is held is closed, no two places hold the
  same connection, and who takes one has none yet, so that none is overwritten.
  That the ones nobody owns are bounded by the failed binds needs `Conns` to be
  finite.
- `LdapServerProofs`: `GracefulEnd` and `AnswersKeepOrder`. The order of
  the answers holds in every state as an equation between what was sent, what the
  writer holds, what the handler has left, and what is expected (`Ordered`); after
  the notifier has sent, the notice is at one place of it; after a write has failed,
  what was sent is a beginning of an answer (`Begun`) and no longer changes. The graceful end follows
  from `Counting`: the wait group of the server is the number of connections that
  are being served. The module also proves what the server reads and writes with,
  the primitives of `Asn1`. `HeadersReadBack` and `IntegersReadBack` have sizes,
  writers and readers agree for every length below 2^31 and every int32, and a cut
  header refused; `AcceptedIsWritable` is about arbitrary bytes: what is accepted is in range
  and takes no more bytes when written again. The argument is that one round of a
  loop takes off the digit that the other loop puts on (`OneRound`), so that a writer's
  bytes lead a reader back through the same values (`LengthLoop`, `Int32Loop`), and a
  reader's through those of a writer (`ShiftedBack`); a loop has at most five rounds,
  which makes this a chain of steps instead of an induction. The empty integer
  in `AcceptedIsStable` was found by attempting this proof: TLC had not changed the
  byte that it takes.
- `NetdProofs`: `NetdFollows`, `KeySurvives` and `CNICleansUp`. `AgentsFollow` speaks of
  moments in which nothing is left to do; `NetdInv` says at any time what is still on
  its way: for each listener and each node, the last event in its channel is what
  Kubernetes has, or there is none and the listener knows it already, unless the
  channel dropped one (`MapFollows`, `KeyFollows`, `PortFollows`, `AgentKnows`); and
  the device and the rules are those of the map unless a message waits for the
  agent (`DeviceFollows`, `RulesFollow`). A step that
  leaves the device alone because the peers look the same keeps the second only
  because the peers that `Run` compares with are those of the device (`PeersKnown`).
  `KeyStored` has the key of a process in the file from the moment it is up; a file
  it replaces held no key, or one that is given up. The assumption that counts is
  `Foreign`: nobody else annotates a node with a key that this node generates.
- `S3CacheProofs`: `EntriesNameFiles`, `CacheImplements`, the refinement, and
  `CacheFits`. The mapping
  takes the variables of `ObjectStore` to those of the same name; each step of the
  cache is the step of the store that answers a call or changes the bucket, or
  leaves the store alone. What makes an answer one that the store may give is
  `VersionInv` (what a caller fetched was in the bucket during its call or during the
  calls that share its flight) and `FileInv` (the file an entry names has the
  content of its hash, unless the key is torn). The second is not inductive
  without `UidInv`, by which an identifier belongs to one key wherever it is
  remembered: in memory, in the metadata file, in a copy of it that is about to be
  written, or with a caller; and without `DoomInv` and `SnapInv`, by which no caller
  is on its way to remove a file that an entry still names, and a copy that is
  being written misses nothing but what is recorded as stale. `MaxUids` bounds the
  identifiers; the theorem holds for every bound.
  `CacheFits` is about sums over all entries. `SumFunction` is a choice of a function
  on the subsets; `SumExists` shows by a smallest counterexample that there is
  one, and `SumGrows` and `SumChanges` how a sum moves with its terms, which is all
  that the rest uses. `WithinCapacity` is not inductive: `CapInv` adds that the order
  of eviction lists every entry once (`OrderInv`), so that an eviction that reaches
  the end of it leaves nothing; that what a caller takes for the growth of its
  entry is the growth of the entry as it is, until it has measured the room
  (`NeedInv`); that a caller between the check and `put` has room for the difference
  (`RoomInv`); and that the metadata on disk, and each copy on
  its way there, fits as well (`CopyInv`), as a restart may read it.
- `LogServiceProofs`: `LinesAreKept`. The places of a line are seen as shelves, one
  for each file and one for each worker. `LinesInv` says that no line is on two
  shelves or twice on one, and that a line is on one exactly if it was reported; a
  step leaves the shelves alone, moves all of a worker's shelf to the end of a
  file's, or moves the head of a queue to the end of the worker's shelf. This needs
  `QueueInv` (an event is queued once, and not yet answered), `FreshInv`, and
  `WorkerInv` (a worker that is opening a file has nothing in hand, and one that is
  not created has nothing at all, so that a second worker of a source takes
  nothing away). That files can be read back is `StreamInv`: what a worker has in
  hand begins with the head of its stream exactly if its file has none of the
  stream, and the file it opens next has none (`StreamAt`); of each worker's lines in
  a file, the first is a head and no other (`FileAt`).

All inductive invariants were checked with TLC on the instances of the runs before
they were proved.

Only model-checked: everything temporal under fairness (`EventsHandled`,
`CallersServed`, `FillersStop`, `EventuallyFollows`, `ConnectionsEnd`,
`LinesReachDisk`, `ProcessReturns`, `ProcessEnds`, `AddressesSettle`), since liveness
is out of the prover's reach; all of `Goldap` and `BottinRead`, where messages and
filters nest and the definitions are recursive operators.

## Not modelled

`PROJECT.json` lists every part with its status.

- `lib/webdav` with `caldav` is adapted protocol code: XML elements, property lists
  and request parsing, without state of its own between requests.
- `service/calendar` keeps its objects in a second table of `pgcache`, which `PgCache`
  covers; the rest is iCalendar data. `service/files` maps mounts and sessions to
  the file system and to `s3cache`.
- `service/kontakte`, `lib/ui` and the HTTP libraries render pages and wrap handlers.
- `service/loadbalancer` is one reconcile function without state; `desec` and `alert`
  translate webhook bodies into API calls.
- `run.Combine`, the retries and the rate limiter of `lib/kubecontroller` and the
  informer under it: in `Netd` and `Ccmd` the controller hands over each object's
  latest version.
- XML and HTML, metrics, tracing, flags and log texts; the Python service `embed`;
  the contents of password hashes and tokens.
