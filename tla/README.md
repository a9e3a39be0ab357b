# Zabbix 1.6.7: a TLA+ model of its data path

Zabbix collects values of *items* from monitored hosts, stores them, evaluates
*triggers* over them and alerts people.  This directory models the processes of
server, proxy and agent where they meet on shared memory, on one database and
over the network, states what has to hold there, checks it with TLC on small
instances and proves part of it with TLAPS.

Paths below are relative to the repository; the C code is in `src/`.

## 1. The system

### Processes

`zabbix_server` forks a fixed set of children: pollers, trappers, pingers, an
HTTP poller, a discoverer, a timer, db syncers, escalators, alerters, a
housekeeper, a node watcher, a watchdog.  Each has its own connection to the
database.  They share one block of System V shared memory (the database cache)
and a set of semaphores.  `zabbix_proxy` has the same structure with fewer
processes; it stores values in `proxy_history` and a data sender forwards them.
`zabbix_agentd` answers requests, and pushes the values of its active checks.
There is no thread inside a process: all concurrency is between processes,
through the shared memory, the database and the network, plus signal handlers.

### Components, their state, their operations

| Component (source) | State | Operations | What is hard | What makes it correct |
|---|---|---|---|---|
| History write cache (`libs/zbxdbcache/dbcache.c`) | ring of values, text buffer, semaphore | `DCadd_history*`, `DCsync_history` | values taken from the middle of the ring, wrapping indices, text compaction, full buffers, several syncers | each value stored once, texts intact, per-item order, nobody stuck |
| Db syncer (`zabbix_server/dbsyncer`) | none of its own | loop around `DCsync_history` | commits of two syncers in any order; it is also a producer through `zabbix_syslog` | every value eventually stored |
| Trend cache (`dbcache.c`) | array sorted by item, in shared memory | `DCget_trend`, `DCadd_trend`, `DCflush_trend`, `DCsync_trends` | no lock, array full, hours out of order, restart within an hour | cache and rows account for each value once |
| Id cache (`dbcache.c`) | last id of up to 6 tables | `DCget_nextid` | exit with the semaphore held | unique ids |
| Id counters (`libs/zbxdbhigh/db.c`) | table `ids` | `DBget_maxid_num` | optimistic, no lock, counter absent or exhausted | unique ids |
| Semaphores (`libs/zbxsys/mutexs.c`) | System V semaphore set | lock, unlock, create, destroy | holder exits, interrupted `semop` | mutual exclusion, no orphaned lock |
| Start and stop (`zabbix_server/server.c`, `libs/zbxnix/daemon.c`) | children, signal handlers | `zbx_on_exit`, handlers | signals at any instruction | cache written, server stops |
| Item and trigger update of a batch (`dbcache.c`, `libs/zbxserver`) | rows of `items`, `functions`, `triggers`, `events` | `DCmass_update_item`, `DCmass_function_update`, `DCmass_update_triggers` | deltas of counters, stale reads | the trigger's value is that of its last event |
| Trigger expressions (`libs/zbxserver/expression.c`) | none | `evaluate`, `evaluate_simple`, `compress_signs` | text replaced by text, signs | the value of the formula |
| Events, actions (`libs/zbxdbhigh/db.c`, `events.c`, `actions.c`) | `events`, `escalations` | `DBupdate_trigger_value`, `process_event`, `process_actions` | check then act by several processes | value and last event agree, or come to |
| Escalator (`zabbix_server/escalator`), alerter (`zabbix_server/alerter`) | `escalations`, `alerts` | `process_escalations`, `execute_operations`, `process_recovery_msg`, `execute_action` | stale write back against recovery, restarts, failing media | a step told once but for restarts, recovery to those who were told, every alert settled |
| IT services (`libs/zbxdbhigh/host.c`) | `services`, `services_links`, `service_alarms` | `DBupdate_services`, `DBdelete_services_by_triggerid` | several levels, shared children | a status is what the statuses below make it |
| Templates and hosts (`libs/zbxdbhigh/host.c`, `operations.c`) | `hosts_templates`, elements of hosts | `op_host_add`, `op_host_del`, `op_template_add`, `op_template_del` | elements shared by templates and users, orders of linking | linked hosts complete, keys unique, unlinked hosts cleared |
| Next checks (`libs/zbxdbcache/nextchecks.c`) | process-local sorted array | `DCadd_nextcheck`, `DCflush_nextchecks` | duplicates | one row update per item |
| Pollers (`zabbix_server/poller`) | availability in `hosts`, status of items | `get_values`, `enable_host`, `disable_host` | decisions on rows read before the check | availability settles on what the host is |
| Discoverer (`zabbix_server/discoverer`, `trapper/proxydiscovery.c`) | `dhosts`, `dservices`, `proxy_dhistory` | `process_rule`, `update_service`, `update_host`, `dhistory_sender` | stopped passes, repeated rows, statements without a transaction | discovered and lost in turn, statuses settle |
| Proxy data sender and housekeeper | `proxy_history`, `ids.history_lastid` | `history_sender`, `delete_history` | lost answers, out-of-order commits | at least once, nothing deleted unsent within the buffer time |
| Agent active checks (`zabbix_agent/active.c`, `logfiles.c`, `trapper/active.c`) | list of checks, buffer of values, `items.lastlogsize` | `refresh_active_checks`, `process_active_checks`, `process_value`, `send_buffer` | full buffer, failed sends, restarts | no line passed over unless the buffer loses it |
| Configuration of nodes (`nodewatcher`, `trapper/nodesync.c`) | `node_cksum`, all configuration tables | `process_nodes`, `node_sync`, `update_checksums` | edits on both sides, broken exchanges, no transaction | edits kept, nodes converge |
| History of nodes (`nodewatcher/history.c`, `trapper/nodehistory.c`) | `history_sync` and the other `*_sync` tables, `history_text` and the like | `process_history_table_data`, `node_history`, `send_history_last_id` | transactions that overlap, stopped senders and trappers, masters of masters | each value at each master, once unless an answer is lost |
| Events and commands of nodes; id cache; housekeeper, watchdog, timer, pinger, HTTP poller, proxy configuration, node conversion, frontend, libraries | - | - | mostly I/O or single statements | not modelled |

### How they interact

A producer (poller, trapper, pinger, ...) ends every check with
`process_new_value`, which calls `DCadd_history*`: take `cache_lock`, reserve a
slot, fill it, release.  If the ring or the text buffer is full it releases the
semaphore, sleeps one second and retries.  A db syncer scans the ring under the
semaphore and moves up to `ZBX_SYNC_MAX` values into process memory; on a
server it takes one value per item and skips the others, closing the gap it
leaves.  Outside the semaphore it writes the batch in one transaction, updates
items, functions, triggers and trends, and commits.  Ids of new rows come from
`DBget_maxid_num` or `DCget_nextid`.  When the server stops, the parent kills
the children, waits two seconds and runs a full sync itself.

A committed value may change the value of a trigger (`DBupdate_trigger_value`);
the event starts, or stops, escalations in the same transaction, and updates
the services of the trigger.  The escalator works on the rows of `escalations`
that are due and writes `alerts`, which the alerter sends.  Everything behind
the cache is coupled by tables only: the processes read rows, work on them and
write them back without locking them.

Over the network a client always repeats what was not acknowledged: the proxy
its rows, the agent its buffer, a node its changes.  The server may have
processed a request whose sender has given up.

## 2. Modules

| Module | Models | Kind |
|---|---|---|
| `HistoryCache` | ring, text buffer, semaphore, producers, db syncers | component |
| `HistoryQueue` | what the cache promises: a queue with per-item order | abstract specification |
| `ServerShutdown` | extends `HistoryCache` with signals and the last sync | composition |
| `TrendCache` | trend array, flush, rows of `trends` and `trends_uint` | component |
| `MaxId` | `DBget_maxid_num` run by several processes | component |
| `DataSender` | proxy: db syncers, data sender, housekeeper; server: trappers | component |
| `TriggerEvents` | from the value of a trigger to events and escalations | component |
| `Escalations` | extends `TriggerEvents` with escalator and alerter | composition |
| `ActiveChecks` | agent, its log files, trappers with its requests | component |
| `Pollers` | availability of one host, decided by several pollers | component |
| `Discovery` | discoverer, or discoverer, data sender and trapper | component |
| `NodeConfig` | one record of the configuration at a chain of nodes | component |
| `NodeHistory` | the history of one node on its way to its masters | component |
| `Templates` | hosts and templates in discovery actions | component |
| `TemplateData` | two templates for the instances | data |
| `Services` | tree of IT services under changing triggers | component |
| `Expression` | evaluation of trigger expressions | algorithm against a reference |
| `HistoryCache_proofs` | theorems about `HistoryCache` and `ServerShutdown`, and that the cache implements `HistoryQueue` | proofs |
| `Tables_proofs` | theorems about `MaxId`, `Templates` and `Services` | proofs |
| `Senders_proofs` | theorems about `DataSender` with one db syncer, and about `NodeHistory` | proofs |
| `Escalations_proofs` | theorems about `TriggerEvents` and `Escalations` | proofs |
| `ActiveChecks_proofs` | theorems about `ActiveChecks` | proofs |
| `Discovery_proofs` | theorem about `Discovery` | proofs |
| `TrendCache_proofs` | theorems about `TrendCache` | proofs |
| `NodeConfig_proofs` | theorem about `NodeConfig` | proofs |
| `MC*` | constants for TLC; `MCTables`, `MCNetwork` and `MCSenders` hold several components | instances |

### HistoryCache

State: `history`, `history_first`, `history_num` are the fields of
`ZBX_DC_CACHE`; `text` and `last_text` the text buffer, one array cell standing
for a run of bytes; `cache_lock` the holder of the semaphore.  `pc` is the step
of each process, `pend` the value it is adding, and `batch`, `n`, `f`,
`skipped`, `syncs` the local variables of `DCsync_history`.  `added`, `stored`
and `lastvalue` say what entered the cache, which history rows are committed,
and which value the item's row shows.

A value is identified by the order in which it entered the cache, and carries
its item and the lengths of its text and of its log source.  The content of a
text is a run of cells with the value's id, that of a source a run with its
negation, so any mix-up of texts can be seen.

Steps of the code between two points where another process can interfere are
one action: everything under the semaphore except that `DCget_history_ptr`, the
filling of the slot and each iteration of the scan are actions of their own.
That is finer than necessary for mutual exclusion and lets `ServerShutdown`
stop a process in the middle.  The transaction of a batch is one action,
`Commit`: no other process sees its effects before it, and it is rolled back
when the process exits.  Before it the syncer may report any number of messages
through `zabbix_syslog` (`Syslog`), which go through the same steps as those of
a producer.  Whether a skipped value is overdue (`skipped_clock < max_delay`)
is a free choice.  `exit(-1)` of `DCget_history_ptr` is unreachable because the
callers truncate (`ValueAssumption`).

### HistoryQueue and the refinement

The abstract queue has `Add` (append), `Take` (move a value to a batch: the
first of the queue on a proxy; on a server any value that is the first of its
item, unless the batch has one of that item) and `Store`.  `HistoryCache`
implements it: `queue` is the ring read from `history_first`, without the slot
that is reserved and not yet filled.

### ServerShutdown

`Stop` is the arrival of a signal at the parent, `Terminate(p)` the exit of a
child in its signal handler.  A process in `dead` takes no more steps; what it
held, the semaphore too, stays as it was.  The parent starts its full sync when
the children are gone; the model does not let them outlive `zbx_sleep(2)`.
`Lost` are the values of transactions that were rolled back.

### TrendCache

`trends` is the sorted array, `rows` the two tables, `sql` the updates that
`DCmass_update_trends` collects and executes at the end.  Getting the pointer
(`DCget_trend`) and changing the structure (`DCadd_trend`) are two actions,
because nothing excludes another db syncer in between.  A float average is kept
as an exact total, so that sums can be compared; an unsigned one is kept as the
code keeps it, modulo `2^UINT_BITS` and truncated.  A syncer that dereferences
the null pointer is `crashed`.  `TrendsComplete` says of each item, type and
hour that there is at most one structure and one row, and that together they
account for the values that were added: their number, least and greatest, and
for floats the total.

`KillSyncers` is what `zbx_on_exit` does to the syncers before `DCsync_trends`:
each is killed between two of its steps and its transaction is rolled back,
while the array stays as it is.  A structure that was flushed before is empty
then and its row is not in the database: `lost` are these trends, and
`TrendsComplete` is about all others.  The parent, or the next server, goes on
with the same array and rows.  A syncer killed within a step, with a structure
half written, is not modelled.  The binary search of `DCget_trend_nearestindex` is a
recursive function of the two bounds of the range it halves.

### MaxId

One action per SQL statement; `InsertRows` is the caller, which inserts rows
with its ids.  A counter that has left the range of the node is deleted
(`deleted`) and rebuilt from the largest id in the table.  Every statement sees
what the others have executed.  Callers inside a transaction interleave less:
from their update on, the row of `ids` is theirs until they commit.

### DataSender

`rows` is the auto_increment of `proxy_history`: an id is given out when a db
syncer inserts (`DCmass_proxy_add_history`) and the row is visible after
`DBcommit`.  The sender selects (`get_history_data`), connects, waits for the
answer and stores the last id (`set_lastid`).  `conn` is the trapper at the
other end of its connection, `todo` what each trapper still has to process:
when the sender gives up, the trapper goes on.  `received` lists the rows in
the order in which the server first processed them; it says nothing of the
duplicates, which the protocol allows.  A value that a trapper rejects (unknown
key, wrong type) counts as processed, as the answer is success all the same.
The housekeeper reads (`HousekeeperRead`) and then deletes (`delete_history`).
Hours are the unit of time.  A failed connection attempt changes nothing: the
sender tries again with the request it has.

### TriggerEvents and Escalations

`upd` is what a process that evaluates a trigger has read: the trigger's old
value, later the status of its last event.  `DBupdate_trigger_value` is the
transaction that writes the trigger, the event and, by `process_actions`, the
escalations.  Several processes may have read the last event of a trigger before
one of them writes: `overtaken` are those whose last event is not the last any
more, and `raced` the triggers that were last written by one of these, until
they are written again.  `TriggerMatchesEvents` is about the others.  Conditions of an action are the event values that satisfy it.  A
row of `escalations` is `due` when its first step or its recovery has never
been worked on; when the time of a later step comes is left open.

The escalator selects rows (`todo`) and works on them one at a time
(`ExecuteActive`, `ExecuteRecovery`).  The operations of a step give a set of
messages to users (`UserMsgs`), as `add_user_msg` keeps one of those that agree
in user, subject and text: a user may get several messages in one step.  `WriteBack` stores what it has computed
from the row it read, whatever the row is now.  The alerter tries one alert
(`execute_action`) and then writes the result (`UpdateAlert`); a restart in
between leaves a message that is sent again.  `delivered` has each message that
went out with the start of the server it belongs to, and `StepsOnce` says that
between two starts no message goes out twice.

### ActiveChecks

Lines of a log are numbered and `Matches` says which ones the pattern takes.
`metrics` are the positions of the agent, `pending` is the value that
`process_value` was called with while `send_buffer`, which it calls first, is
waiting for an answer.  `dropped` and `refused` record the two ways in which
the code itself loses lines: overwriting the oldest value of a full buffer, and
freeing the buffer although the server closed the connection unanswered.
`RefreshChecks` gives an item that the agent does not know the position of any
value the server has stored so far, as later ones may wait in its cache.

### Pollers

The errors of a host have the age `none`, `recent` or `old` (more than
`CONFIG_UNREACHABLE_PERIOD`).  `Select` reads the host and the items of a pass,
`Check` is one check, `UpdateAnswered` and `UpdateFailed` decide with the row
that was read, and `DCflush_nextchecks` ends the pass.  `Sync` is the db syncer
that makes an item active again.

### Discovery

One address with several services.  On a server `process_check` updates the
service in a transaction; on a proxy it adds a row to `unsent`, and
`dhistory_sender`, `ProcessRow` and `Acknowledge` carry the rows to the server,
again when the request failed.  The discoverer has a transaction for each
service (`discoverer.c:775`); the trapper has none (`trapper.c:635`), so
`ProcessRow` is a step for each statement that changes something
(`RegisterHost`, `RegisterService`, `UpdateRow`, `AddEvent`) and `RequestFails`
may come between any two.  What a trapper leaves half written (`HalfWritten`) is
noted in `torn` with the number of events the service has at that time, and
`DiscoveredAndLost` allows the next of its events, and only this one, to be out
of turn.  `NewHostRow` has the status UP because the row
is inserted without its status.

### NodeConfig

A value stands for its check sum.  `old` and `new` are the two rows of
`node_cksum`: what was exchanged last, with the characters of `sync`, and what
the record is now.  An exchange runs from `calculate_checksums` of the slave
over `node_sync` of the master and its answer to `EndAnswer`; each side holds
its `node_sync_lock`, a slave that waits for it is in `waiting`.  Users edit
between any two steps.  `writers` and `last` say which nodes have edited a
field and what the last value was, `gap` what happened between a value and its
check sum.

### NodeHistory

The node `N` is the one whose values are followed; a value stands for the id it
was given there.  `table` says which kind of table a behaviour is about: the
two kinds are sent by the same code, one after the other, and share no rows.
`hist` is what is committed at each node, a bag, `sync` the table beside it from
which a node watcher sends, `watcher` its transaction and `trapper` the trappers
that have read `History`.  `DCmass_add_history` and `Inserts` give out ids, and
`HistoryCommit` and `Commits` make the rows visible; between them other transactions
select, insert and delete.  `late` are the values that became visible behind a
larger id that had been read.  When a node watcher is stopped its trapper goes
on, so that a master may have two with the same rows.  Rows of `events` are
inserted by `process_event` and start escalations at the master; they are left
out, as are the last values and trends that `process_items` writes.

### Templates

`op_template_add` is the whole of `DBsync_host_with_template`: first the
elements of the same template are deleted, then applications, items and
triggers are copied.  Triggers are copied in the order in which a select
returns them, which is free.  Users add items and triggers of their own.

`DBdelete_triggers_by_itemid` selects a row for each function, so a trigger with
two functions of one item comes twice, its second deletion fails
(`host.c:693-697`), and `DBdelete_item` keeps the item (`host.c:1662`).  The
callers ignore that and go on with the next item.  Which triggers are gone by
then depends on the order of the rows, so the deleting operators give the set of
all outcomes.  `op_host_del` therefore may leave items, and triggers without a
host, although `DBdelete_host` is to "delete host from databases with all
elements".

A templateid of 0 is that of an element that is no copy, and an address of
`Deleted` stands for a deleted host, whose hostid is never used again.  A new
row gets any id that no row of its table has (`Fresh`; `MaxId` is how the code
finds one).  The tables of elements and `hosts` have counters of their own, but
in the model ids of elements are no hostids: where they are,
`DBdelete_template_items` (`host.c:1974`), which looks for the hostid of the
template among the itemids, may find one and delete items of other templates.

### Services

Every operation is one transaction and a function of the tables.
`DBupdate_services_rec` follows the links upwards and is a recursive function of
a service and the statuses of all; `crashed` is the end of a
process that reads the triggerid of a service that has none.

`ServicesAssumption` asks of the tree that its links form no circle, without which the
recursion of the code would not end, and that a service with others below has no
trigger.  `DBclear_parents_from_trigger` establishes the latter whenever all statuses are found
anew, and the frontend does both after every edit of a service
(`services.inc.php:208`, `805`).

### Expression

An expression is a sequence of tokens and a value is a fraction.  `evaluate`
and `evaluate_simple` do what the code does with the text; `Meaning` says what
the expression means and knows neither signs that are compressed nor
parentheses that are replaced.

`Kilo` is 1024 as in `str2double`, `Rounded` are the six digits of `%lf`
(`expression.c:869`) and `Close` is `cmp_double`.  The formula that `Meaning`
reads rounds a value where it stands in parentheses, so `(1/2K)*2K` is
0.999424 and not 1: what `EvaluatesFormula` shows is that the code loses nothing
else.

## 3. Runs

| Run | What it shows |
|---|---|
| `server` | two syncers, numbers, texts and log sources, messages of syncers: `TypeOK`, `LockHeld`, `EachValueOnce`, `OneValuePerItem`, `TextIntact`, refinement of `HistoryQueue` |
| `live` | one syncer, fair processes: `EventuallyStored`, `AddersProceed`, `LastvalueAdvances` |
| `sender` | one db syncer, two trappers, lost and late answers, restarts, housekeeper: `SentReceived`, `FirstReceiptsInOrder`, `UnsentKept`, `EventuallyReceived`; `NodeHistory` with two db syncers, stopped node watchers and trappers: `HistoryAccounted`, `HistoryArrives` |
| `tables` | `MaxId`: `UniqueIds`; `TrendCache` with one syncer that may be killed: `TrendsSorted`, `TrendsComplete`, `AverageBetween`; `Templates`: `KeysUnique`, `TriggersInOneHost`, `LinkedComplete`; `Services`: `StatusFromBelow`; `Expression`: `EvaluatesFormula`; `ServerShutdown` of a server and of a proxy: `DrainedWhenStopped` |
| `escalations` | one action with steps, several messages to a user and recovery messages, two users of whom one has no medium, a failing medium, a restart; two updaters of one trigger: `TriggerMatchesEvents`, `StepsOnce`, `RecoveryToTheTold`, `DueIsWorkedOn`, `AlertsSettled` |
| `network` | `ActiveChecks`: `LinesAccounted`, `OnceInOrder`, `LinesSettled`; `Pollers`: `HostComesBack`, `DownIsDetected`; `Discovery`: `DiscoveredAndLost`, `StatusSettles`; `NodeConfig`: `EditsKept`, `Converges` |
| `syslog`, `hang`, `trends_full`, `trends_race`, `sender_writers`, `templates_clear` | expected to fail, see section 6 |

`MCTables`, `MCNetwork` and `MCSenders` hold instances of components that share
no state, and `MCEscalations` three instances of one.
Their variable `part`, chosen in the initial state, says which component moves;
the others stay in one initial state, so the state space is the sum, not the
product, of theirs.  `MCTables` extends `MaxId`, `TrendCache`, `Templates`,
`Services` and `ServerShutdown`, `MCNetwork`
`ActiveChecks` and `Discovery`, so that the theorems name the very definitions
that these runs check; the other components are instances.  `MCTables` holds those of which only safety is checked,
the others those with liveness, where the fairness of each component is stated
for the behaviours of its part.  A property of a component holds in the
behaviours of the other parts because they leave its state as it began.

### Bounds

`HISTORY_SIZE` is 2 to 4: a ring of 4 with 5 values wraps, holds two values
that are skipped, and is full.  `SYNC_MAX` is smaller than the ring so that a
sync needs several batches.  `TEXTBUFFER_SIZE` holds a few of the text lengths
used, so vacuuming happens with and without texts left: `server` has numbers and
log lines with their sources, `live` texts of two lengths as well.  `MaxValues` bounds the
values of a behaviour.  Two syncers suffice for every race between syncers
because each only meets the ring under the semaphore.  In `TrendCache` the
array is smaller than the number of items only in `trends_full`.  `tables` has
two items, and that the search in the array is right for more is proved.  In `MaxId`
the range of ids is small enough to run out; two processes are enough for two
that read the same counter while the other is between any two statements.  In
`DataSender` three rows in requests of two need two requests, one failure lets
an old request meet the second sending of its rows, and three hours are enough
for a row to pass both buffers.

* `Escalations` has three parts.  In `events` three events are a problem, its
  recovery and a second problem, so one escalation can end while the next
  begins.  In `restart` there are two events, one restart and four operations:
  two with the same message to one user, which are merged, and a second message
  to him.  Two attempts cover one that is lost before it is written.  In
  `updaters` two processes write one trigger, four events with a restart, and
  there are no actions: they read neither escalations nor alerts.  The one
  trigger is of the normal type and depends on no other.
* `ActiveChecks`: a buffer of two and three lines, two of which match, so that
  with the value of a file that cannot be read the buffer overflows.  Two
  faults are enough for a lost answer or a late request and a restart after it;
  three were tried and show nothing else, and the proofs are for any number.
* `Pollers`: two normal pollers, each with one item, and one for unreachable
  hosts; the host goes away or comes back, or the agent changes what it
  supports, once.  A host that is away at first has any agent, one that can be
  reached supports all items.
* `Discovery`: one service with three changes of the network and a request that
  takes the rows of more than one pass, and two services with two changes and a
  request that takes two rows of a pass of three; one stop, between any two
  statements.
* `NodeConfig`: a pair of nodes with two edits and one broken connection or
  stopped process, and a chain of three with one edit and none of these.  Two
  fields tell a field that is sent from one that is not.
* `NodeHistory`: a pair of nodes with three values in requests of two, and a
  chain of three with two values in requests of one; two db syncers, one stop.
  With one stop a master has two trappers for the same rows, which is how values
  are passed over in the middle of a chain; two stops, tried
  with requests of two on both, show nothing else.
* `Templates`: one address, two templates with a common key, application name
  and expression, a dependency and a trigger with two functions of one item; two
  hosts one after the other with one edit of a user, and one host with two edits.
* `Services`: eight services on four levels with shared children, both kinds of
  status calculation and one without.
* `Expression`: all expressions of at most seven tokens over 1 and 2K, with at
  most two suffixes.  The quotients and products of these are rounded when they
  stand in parentheses.

Deadlock is not checked where behaviours end: in `tables` processes exit when
ids run out or the server has stopped, in `escalations`, `network` and `sender` the
events, edits and faults are bounded and afterwards nothing is left to do; and
not in `hang`, whose counterexample is one.

### What holds only for one process

`LastvalueAdvances`, `StatusFromBelow`, the properties of `TrendCache` and
`UnsentKept` are checked with one process (one syncer, transactions one after
the other).  Two of those of `TrendCache`,
`TrendsSorted` and `AverageBetween`, are proved for any number of syncers; what
needs a single one are `TrendsComplete` and `OwnTrend`.  For the trends and `UnsentKept` runs
show what several processes do to them; for the others the hazards in `PROJECT.json` say so.  No
document or comment of the repository promises them for several processes.

### Fairness

`FairSpec` of `HistoryCache` assumes that each process keeps running (weak
fairness of its steps) and that a process waiting in `semop` eventually gets the
semaphore although others take it again and again (strong fairness of the two
lock actions): the kernel queues the waiters of a semaphore.  Producers are not
assumed to report values.  `ShutdownSpec` assumes only that signalled children
exit and that the parent runs.  `FairSpec` of `DataSender` assumes that sender
and trappers keep running and that failures are finitely many, that of
`NodeHistory` the same of node watchers, which start again every ten seconds,
and of trappers that have a request.

The other modules assume weak fairness of the loops of their processes: the
main loops of escalator and alerter (`MCSpec` of `MCEscalations`), the agent's thread and the trapper that
has its request, each poller, the discoverer and its delivery, and, in
`Pollers`, time.  Users, networks and failures are never assumed to act, and
failures are finitely many.  A late request need not be processed.  In
`NodeConfig` the node watcher and the trappers of one node wait for
`node_sync_lock`, a semaphore; at node 2 of a chain both kinds of process
compete for it, and there strong fairness is assumed for each, as the kernel
queues them.

## 4. Proofs

`HistoryCache_proofs` proves, for every set of producers, syncers and items,
every size of the ring, the text buffer and the batches, and every set of
values that satisfies the assumptions of the module:

* `TypeCorrect`: `Spec => []TypeOK`;
* `MutualExclusion`: `Spec => []LockHeld`;
* `TextsKept`: `Spec => []TextIntact`;
* `BatchItemsDiffer`: `Spec => []OneValuePerItem`.

None of `TypeOK` and `TextIntact` is inductive.  `Inv` adds what a process that
is adding a value has (`PendOK`), that a reserved slot exists and its text fits
(`FillOK`), that the scan of a syncer is `n[s]` slots before the end of the
ring (`ScanOK`), that the strings of each cached value lie in the used part of
the buffer, source behind text (`TextsOK`), and that they lie there in the
order of the ring (`TextsOrdered`).  The last is what makes a vacuum safe: it
moves everything by the offset of the *first* text of the ring, so no other
text may lie before it.  Two lemmas carry the ring: `ShiftCloses` (after
`ShiftUp` at position `k`, in a ring that starts one slot later, position `i`
holds what position `i` held below the gap and `i + 1` above it) and
`SlotInjective`.  `Alone` and `NoFill` reduce the interleavings: a process that
changes the ring is alone in the critical section.  There is one lemma per
action; `VacuumFacts` and `VacuumKeeps` treat the vacuum, and need that a set
of positions has a least element (well-founded induction of the library).

From `Inv`, under the same assumptions, follow:

* `RingIsQueue`: `Spec => ImplementsQueue`, the refinement;
* `NothingLost`: `Spec => []EachValueOnce`.

It needs one more invariant, `Scanned`: what a scan of a server has passed over
has its item in the batch (so the value it takes next is the oldest of its item
in the whole ring), a scan of a proxy passes over nothing, and a syncer comes to
the lock with an empty batch (so that emptying it again is a stutter).  The
steps are sorted by what they do to the values in the ring: most leave them
(`Quiet`; a vacuum too, which moves texts only), `Fill` appends one
(`FillAppends`), `Take` removes one and the others close up (`TakeRemoves`, from
`ShiftCloses`).  `StepQueue` maps them to stutters and to `Add`, `Take` and
`Store` of `HistoryQueue`; `StepOnce` follows one id on the same way.

The same module proves of `ServerShutdown`, under the same assumptions and
`ShutdownAssumption`, that the main process is the one that syncs fully:

* `DrainedAtEnd`: `ShutdownSpec => []DrainedWhenStopped`.

As the memory of an exited process stays as it was, every step of a process is
one of `HistoryCache`, and the invariants of the cache hold on whatever the
children leave behind, in the middle of a shift as well.  `StopInv` adds that the
parent is alone (`ParentAlone`) and that a scan which ends with an empty batch
has found an empty ring (`ScansAll`), so that "done" means empty
(`RingEmptied`).  It does not show that the server stops: the run `hang` is one
where it never does.

`Tables_proofs` proves of `MaxId`, for every set of processes, request sizes and range of
ids that satisfy `MaxIdAssumption`:

* `TypeCorrect`: `MaxIdSpec => []IdsTypeOK`;
* `Uniqueness`: `MaxIdSpec => []UniqueIds`.

`UniqueIds` is not inductive: whether the block `(nextid - num + 1) .. nextid`
is free depends on what every other process believes it has read.  The
invariant `Inv` adds that every id given out or in the table is at most
`nextid`, that what a process read is at most `nextid`, and that a process
between its update and its second read that will find the counter where it
expects it is the only one: the counter had its value when it read it, and the
ids above that are nobody's.  The proof has one lemma for the initial states,
one for types and one with a case per action.  The invariant says nothing after
the counter has been deleted, as the code promises nothing then.

Of `Templates` it proves, for every set of templates with any elements, devices
and item keys, every number of operations, and every order in which triggers
are copied:

* `TemplatesInvariance`: `TemplatesSpec => []TemplatesInv`;
* `KeyOnce`: `TemplatesSpec => []KeysUnique`;
* `OneHostEach`: `TemplatesSpec => []TriggersInOneHost`;
* `StaysComplete`: `TemplatesSpec => []LinkedComplete`.

`TemplatesAssumption` says that elements of templates are finitely many, have
the types of their rows, that a template has no key twice and no trigger with
items of two templates or of none, and that ids of elements are no hostids.
`TemplatesInv` says that the tables are whole (`Whole`): the items and triggers
of templates are those of the beginning (`TemplatesKept`), so that a copy can be
compared with its original at any later time; keys are unique; each item is of a template or of a host that was added;
and a trigger has functions, all of items of one host (`OneHost`).  And each
link is complete (`Linked`).  `ItemsDeleted` follows `DBdelete_item` over any
list of items, whichever of them fail and whichever triggers are gone then: only
items of the list and triggers that use them may have gone (`Left`), and no
trigger is left without its items.  That another link stays complete
is the hard part.  Linking deletes the copies of the template that is linked
before it copies them again, and the copies of another template on the same host, or
of the same template on another host, are others (`OtherCopies`): a trigger has one
templateid and one host.  `DBupdate_item` takes an item away from another
template, but the key stays, and `DBcopy_trigger_to_host` takes no trigger that is a
copy already, so what was complete stays so (`Grows`, `LinkKept`).

The copies of applications, items and triggers are folds over what the template
has.  `FoldExists` shows that the function exists by which a fold is defined,
`FoldInduction` that a relation from the empty set to a set that is kept by
each element holds of the whole; both by a smallest counterexample among the
subsets of a finite set, as the induction theorems of the library cannot be
cited.  A step of a fold (`ApplicationAdded`, `ItemAdded`, `TriggerCopied`)
keeps the tables whole and deletes nothing.

Of `Services` it proves, for every set of services, triggers with any priorities, status
calculations and links that satisfy `ServicesAssumption`:

* `ServicesKeepStatuses`: `ServicesSpec => []StatusFromBelow`.

The invariant `SoundServices` adds to `StatusFromBelow` that the rows have their types, that links
are between services that exist, and that a service with others below has no trigger.  What is hard is inside a
step: while an update climbs, the statuses above it are those of the past.
`Repairs` says what a part of an update has done: only services of a given set
have changed, and one that agreed with those below it before, or is among
those to be repaired, agrees with them now.  `UpsUpdated` says this of one
level; `RecUpdated`, by induction from the top of the tree, of everything above a
service, whichever of several paths to it is followed first.
`DBupdate_services_status_all` begins with the services at the bottom and
climbs from one child of each of their parents; `ParentsAbove`, by induction from the bottom,
says that this reaches every parent (`AllFound`).  `RecursionExists` shows that
the recursive function exists, as links form no circle; the two inductions are
those of `NoCircle`, that any services have one of which none is above.
`FoldOfIs` and `FoldOfInduction` are for folds what `FoldExists` and
`FoldInduction` are for those of templates.

`Senders_proofs` proves of `DataSender`, for every set of trappers and items, size of a
request, setting of the housekeeper, and number of rows and failures:

* `NeverPassedOver`: `Spec => []SentReceived`;
* `KeptForOfflineBuffer`: `Spec => []UnsentKept`;
* `OrderKept`: `Spec => []FirstReceiptsInOrder`.

All assume `OneWriter`, that the transactions of the proxy that insert rows do
not overlap; run `sender_writers` shows what happens without it.  None is
inductive.  `SentReceived` needs that an answer is only on the way when every
row of the request that the sender *now* holds was processed, by whichever
trapper (`AnswerTrue`), that this request holds every row between the last id
and its own greatest one (`RequestComplete`), and that no row with a smaller id
can still be committed (`IdsGrow`): this is the part that fails with two
writers.  `UnsentKept` follows from `SentReceived` once what the housekeeper
read is known not to be ahead of the table (`ReadBefore`).  The proof has one
lemma per action; a broken connection, a lost answer and a restart share one
(`ForgetInv`).  That the first rows of a batch contain all rows up to each of
them (`FirstRows`), and that the last id is that of one of them
(`LastIdOfRow`), rest on the well-foundedness of the naturals and the
cardinality of finite sets.

`OrderKept` has an invariant of its own beside that, `OrderInv`.  What makes the
order survive a request that is still being processed while its rows are sent
again is that each request was complete when it was sent, so a trapper has, or
had, every row before those it still has to process (`TodoComplete`); and as it
takes the values of an item in their order, a row of an item that is still in
`proxy_history` cannot be missing behind a received one (`ReceivedComplete`).
Only a row that the housekeeper has deleted can be.  That two rows have two ids
and that uncommitted rows come last (`RowsApart`) is needed for both.

It proves of `NodeHistory`, for any number of nodes, set of db syncers, size of
a request and number of values and stops:

* `HistoryInvariance`: `HistorySpec => []HistoryInv`;
* `HistoryReachesMasters`: `HistorySpec => []HistoryAccounted`.

It assumes `NodeHistoryAssumption`: there is a node, a request has room for a
row, and `Nobody` is no number and no state of a node watcher.  `HistoryInv` is
about each node and each link between a slave and its master, never about the
whole chain.  Of a link it says that the master has only values of the slave
(`Nested`) and that at most one request is from the connection the node watcher
still has (`OneConnection`).  The rest depends on the kind of table.

A table such as `history_text` has a primary key, so a row is at a master once.
What is missing at the master, and is not in `late`, is above everything it has
(`MissingAbove`).  A request holds, with each row, all before it that the master
does not have (`RequestsWhole`), because everything up to the last id which its
sender was told is at the master (`LastIdTrue`).  Thus also a request that was given up, and
is inserted after a later one, leaves no gap.

A table with a `*_sync` table beside it has no key.  What is missing at the
master is a row of the slave's `*_sync` table (`MissingInTable`); a delete is
only to come for rows that the master has committed (`DeletesSent`); and until
something is stopped, a row of that table whose value the master has already is
one of those it was just sent, is no longer in a request still to be inserted,
and waits for the answer or the delete (`SentOnce`).  For this the ids of the
`*_sync` table and of the open transactions of trappers have to differ
(`IdsApart`).

`HistoryAccounted` is about every master of the chain.  `NestedUp` carries
`Nested` from a link to any two nodes.  A value that a node lacks is then at
some node below it; the nearest one, a least counterexample, is the slave of a
master that lacks it, where `MissingAbove` or `MissingInTable` says that it will
still be sent.  TLC checked `HistoryInv` on seven instances of up to four nodes
before it was proved.

`Escalations_proofs` proves, for any updaters, triggers, actions, operations,
messages, users, media and attempts that satisfy `EscalationsAssumption` and any
number of events and restarts:

* `ValueIsLastEvent`: `Spec => []TriggerMatchesEvents`;
* `NoStepTwice`: `Spec => []StepsOnce`;
* `ToldBefore`: `Spec => []RecoveryToTheTold`.

None limits the number of updaters.  The invariant of the first, `EventInv`, adds
that what an updater has read is still so unless it was overtaken
(`ReadsCurrent`).  The other two assume `ProblemActions`, that the actions have
the condition "Trigger value = PROBLEM": only then an event that is no problem
stops an escalation instead of starting one, which is the use that escalations
are made for.  `EscalationInv` follows a row of `escalations` through its life,
also the copies that the escalator has read and not yet written back: it is of
the events that started and stopped it (`OfItsEvents`), there is one row for an
event and an action (`OneRow`), each alert is of an event and a step that is not
ahead of the row (`AlertsOfEvents`, `StepsBehind`), and no message of a step has
two alerts (`RowsOnce`).  A row that is written back over the recovery that came
meanwhile is the hard case; the row it restores has the steps of the alerts that
were written from it.  `AlerterInv` follows an alert from the table to the
alerter's list and back: one that went out since the server was started is
stored as sent or is the one tried last, so it is not in the list, and not
selected again.  Over a start this ends, as it does in the code: what went out
and was not stored is selected again.

`ActiveChecks_proofs` proves, for any set of items, any patterns, any size of the
buffer and any number of lines and faults:

* `NoLinePassedOver`: `Spec => []LinesAccounted`;
* `InOrderWithoutFaults`: `Spec => []OnceInOrder`.

Both assume `Distinct`: `None` is no number and no record, and the buffer has
room for a value.  `AccountInv` is the invariant of the first.  Its heart is
`CoveredWith`: a list of values, wherever it is (in the buffer, in a request
that the agent waits for, in one that it gave up, at the server), has for each
of its values all matching lines before it either in the list or settled.  So
whichever part of which requests a trapper has processed when the agent
restarts, the position it hands out has nothing missing before it
(`PositionCovered`).  `FilesWhole`, `PendingNext` and `BufferBehind` tie
positions to the file: no value is from beyond its end, a pending value is that
of the next line, the buffer is behind the position.  `OrderInv` adds that
without faults the lists ascend, and that what is received is before what is in
the buffer unless the buffer is what was just received.  There is one lemma per
action for either invariant.

`Discovery_proofs` proves, for any set of services, size of a request and number
of changes and stops, on a server and on a proxy:

* `DiscoveredInTurn`: `DiscoverySpec => []DiscoveredAndLost`.

It assumes `Distinct`: `Absent` is no row, pass or request, `Host` is no
service, and a request has room for a row.  Of a service the invariant says that
its row tells what its last event was, unless it was torn since (`Follows`), and
for one the trapper is at, what it has read and what it has written so far
(`Services`).  A torn row follows its events again with the next event, whatever
this is.  The host is harder: its row is
inserted, as up, without an event, by the first service that is found, and the
event only comes when the pass ends.  So as long as no pass was stopped the
invariant has `NewUntilHost`: a host without an event is one whose pass, or
whose row at the end of that pass, is still to come and will say UP.  On a proxy
that row waits behind those of the services, perhaps in a later request
(`HostUpAfter`, `ServicesThenHost`).  A pass that is stopped leaves a host
without the event, which is why `DiscoveredAndLost` excepts it.

`TrendCache_proofs` proves, for any items, hours, numbers, sizes of the array and
width of an unsigned number that satisfy `TrendCacheAssumption`:

* `StaysSorted`: `TrendSpec => []TrendsSorted`, with any number of db syncers;
* `StaysBetween`: `TrendSpec => [](Fits(Largest) => AverageBetween)`, with any
  number of db syncers and numbers from `0` to `Largest`;
* `AccountedFor`: `TrendSpec => []TrendsComplete`, with `OneSyncer`, which may be
  killed at any step;
* `PointerKept`: `TrendSpec => []OwnTrend`, with `OneSyncer`.

`StaysSorted` rests on the binary search: in a sorted array it returns the place
of the item, or the one where it belongs.  `InPlace` adds that an index a syncer
holds is one of the array.  The library's induction theorems take an
operator as a parameter, so the existence of the recursive function, its
uniqueness and what it returns are proved by a minimal counterexample
(`WFMin`).  The same argument gives the total of a sequence of values.

`AverageBetween` is true only while the sum of an unsigned trend does not wrap:
`DCadd_trend` multiplies average and count before it divides.  `Fits(Largest)`,
that the number of values seen times the largest fits in the width, is what
excludes that; it is false once `2^64 / Largest` values were seen, and the
theorem says nothing after.  `Counted` shows that no structure, row or pending
update counts more values than were seen, which is what links `Fits` to each
product.  All steps are sorted by what they do to the kept structures and
pending updates (`KeepsRows`, `Adds`, `Writes`, `WritesAll`), so that the proof
for several syncers does not follow their interleavings.

`AccountedFor` needs what one syncer guarantees and two do not (run
`trends_race`): a batch has one value per item (`ItemsApart`), the updates it
has collected are one for a trend and of none still in the array (`FlushedOnce`), and the pointer
it holds is that of its item (`OwnTrend`).  A killed syncer takes its strings with it; a trend that had
no update in them is in the array and the rows as before (`CompleteKill`).
`Accounts` says when parts make up given values; `AccountsNew`, `AccountsMore` and `AccountsMerged` are the three
ways in which the code changes them.

`NodeConfig_proofs` proves, for any number of nodes, set of fields and bounds on
edits and broken exchanges:

* `EditsNotUndone`: `NodesSpec => []EditsKept`.

It assumes `Distinct`: there are at least two nodes, and `Nil` is no record, row
of check sums or process.  `EditsInv` says, of each field that at most one node
`e` edits, how every two neighbours stand to each other (`Link`).  The neighbour
that is farther from `e` has the field from the nearer one, and its row of check
sums says so (`Known`), so what it sends back has the field not in it
(`Harmless`).  What is sent away from `e` has the field in it for a receiver
that may lack the record (`Brings`).  The receiver would insert it with default values
otherwise, and its own check sums would then spread these.  The hard case is the
sender's mark that the other side has the field: it must not be set for a
receiver without the record, whichever of the two was stopped and whatever
requests of broken exchanges are still in the queue.  `Exchanges` is what that
needs of the protocol: of the requests of a slave at most one is still alive,
and only while its node watcher waits for the answer.  `FromMaster` and
`FromSlave` are separate, as the slave begins an exchange and marks before the
master does.  `Fresh` is what the check sums of now say while users go on
editing.  The row of a field is followed through `update_checksums` by
`StaysKnown`, `BecomesKnown` and `StaysUnmarked`; then there is one lemma per
action for `Exchanges` and one for `Undisturbed`, with `LinkBelow` and
`LinkAbove` for the neighbour that is not in the exchange.  A stop between a
value and its check sum leaves a value that nothing is known of, and ends what
the invariant says, as it does in `EditsKept`.

Safety that is only model-checked: `EvaluatesFormula` of `Expression`.  It is
about `RECURSIVE` operators over tokens, and what such an operator computes for
every input is out of the provers' reach.  Liveness needs fairness
and `ENABLED` and is checked by TLC only.

## 5. Not modelled

The SQL of the batch functions (`DCmass_update_item`, `DCmass_add_history`,
`DCmass_function_update` and their proxy versions) is abstracted to which values
a committed batch stores, to the last value and status of an item and to the
value of a trigger.  The mode without db syncers (`StartDBSyncers=0`, the
default) bypasses the cache and is not modelled.  Interrupted `semop` calls,
failing database statements and reconnects, and the creation of the shared
memory are not modelled.

Of the components with a module these parts are left out: remote commands and
conditions of operations (`escalator.c`), all but one kind of condition of
actions (`actions.c`), `eventlog[]` and items without a log (`active.c`), the
item for the status of a host and the unknown triggers of unreachable hosts
(`poller.c`), address ranges and the network (`discoverer.c`), graphs, maps,
groups and templates of templates (`host.c`), the functions of triggers and
macros (`evalfunc.c`, `expression.c`), events and commands of nodes.

The largest part of the repository is not modelled at all because it has no
state that several actors share: collection of metrics for a dozen operating
systems (`libs/zbxsysinfo`), libraries for regular expressions, MD5, base64,
e-mail, Jabber, SMS and IPMI, the generated schema (`dbschema.c`), the drivers
of databases, configuration files and logs.  They are listed in `PROJECT.json`.

## 6. Findings

* `syslog`: a db syncer reports a message through the cache that it is
  responsible for emptying.  With the ring full and all db syncers in this
  place, everything waits for ever (`dbcache.c:1902-1911`, called from
  `dbcache.c:532` and `754` through `zlog.c:92`).
* `hang`: a child that is stopped inside the critical section keeps the
  semaphore, as `semop` is used without `SEM_UNDO`; the parent then hangs in
  `DCsync_all` and cached values are not written (`daemon.c:47`,
  `mutexs.c:214`).
* `trends_full`: `DCadd_trend` passes the null pointer instead of
  `&trend_static` when the array is full (`dbcache.c:342`).
* `trends_race`: the trend array is shared by all db syncers and changed
  without a lock (`dbcache.c:129`, `1777-1790`).
* `sender_writers`: with two db syncers on a proxy, a row whose transaction
  commits after one with a larger id was sent is never sent, and is deleted as
  if it had been (`datasender.c:205`, `housekeeper.c:74`).
* `templates_clear`: `DBdelete_template_items` looks the template of an item up
  among the hosts instead of the items, so the items of a template stay when a
  host is unlinked from it (`host.c:1974`), although `op_template_del` is to
  "unlink and clear host from template" (`operations.c:829`).

Two more were met while modelling and have no run of their own.
`HistoryAccounted` leaves out the values in `late`, which a node loses for the
same reason as the proxy in `sender_writers`: they become visible between the
select and the delete of `process_history_table_data` (`history.c:158`, `197`),
or behind the last id of the master (`nodehistory.c:98`).  And `process_items`
passes `value_double`, which nothing has set, instead of `value_uint64` to
`DBadd_trend_uint` (`nodehistory.c:443`), so the trends of unsigned items at a
master are not those of their values; the model leaves trends at masters out.

## 7. Plan

1. Done: `HistoryCache`, `HistoryQueue`, `ServerShutdown`, `TrendCache`,
   `MaxId` and `DataSender` and their proofs;
   `TriggerEvents`, `Escalations`, `ActiveChecks`, `Discovery`, `NodeConfig`,
   `NodeHistory`, `Templates` and `Services` and their proofs; `Pollers`,
   `Expression`.
2. Extend the model: the deltas of counters, `DCget_nextid`, graphs and maps of
   templates, the events of nodes, the configuration of proxies.
