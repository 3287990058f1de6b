# A TLA+ model of opcua-edge

opcua-edge is a single-process gateway. It polls Modbus TCP devices, offers their registers as OPC UA
variables, carries client writes back to the PLC, raises threshold events, and keeps configuration,
latest values and event history in SQLite. This directory holds TLA+ modules translated from its C
sources, TLC configurations that check them on small instances, and theorems that TLAPS proves for
every value of the constants. `PROJECT.json` maps each definition to the lines it models.

## 1. The system

| Component | State it keeps | Operations | Hard behaviour |
| --- | --- | --- | --- |
| value conversions (`edge_value.h`, codec in `edge_modbus.c`) | none | pack, apply, as_double, set_from_double | sign, word order, rounding, narrowing, NaN and infinity, undefined conversions |
| `edge_modbus.c` | context, connected, backoff, next attempt | init, connect, disconnect, poll, write_node, clear | link loss between any two requests, lost answers, unit cache, backoff, a register that is not served |
| `edge_store.c`, running | open transaction, `latest_values`, `event_history` | persist_latest_values, insert_event_history, load_latest_values | locks of other processes, refused COMMIT, NaN rows, crash in a transaction |
| `edge_store.c`, starting | schema, `user_version`, configuration tables | init_schema, persist_model, load_latest_values | scripts that commit statement by statement, crash and restart, edited templates, older and newer databases, a version or a row that cannot be read under a lock |
| `edge_events.c` | one latch per event | evaluate (history row, notification) | an error between latch, row and notification |
| `edge_runtime.c` | pending writes, tick count | tick: drain, poll, evaluate, persist | order of the four parts, errors that are ignored |
| `edge_address_space.c` | OPC UA node tree | load, read and write callbacks | NodeIds made from ids, parents that must exist; writes acknowledged before they are carried out |
| `edge_server.c`, `main.c` | `g_running` | start, run, signal, shutdown | signal at any point, a server that does not start, exit status and restart policy, single attempt to persist |
| `edge_config.c` | asset, node and event tables | load, validate, wire | numbers beyond their fields, references by id, parents that come late, duplicates, an asset with the plant's id |
| `edge_time.c` | none | now_ms | a clock that begins again at every boot, in tables that outlive boots |
| `benchmarks/`, `tools/modbus_sim`, `packaging/` | - | - | not part of the control logic |

Everything the gateway does runs on one thread: the OPC UA server calls the tick (every 100 ms) and the
client callbacks one after the other. What interleaves with that thread is the world outside: the
plant that moves registers, the network, the clock, signals, crashes, and other processes with locks
on the database file. A tick blocks on the network and on SQLite many times, so each C loop is a
label of `pc` with a `cursor`, and the world may act between any two iterations.

What makes each component correct, in short:

- conversions: what was written is what is read back, as closely as the encoding allows;
- Modbus: a node gets only its own registers and its commands change no others; reconnects are spaced and bounded; no served node starves;
- commands: an acknowledged command reaches the PLC at most once and unaltered;
- events: one row and at most one notification per activation, a notification never without its row;
- store: snapshots and configurations are all or nothing, restarts restore a committed snapshot;
- start: no interruption leads to a gateway running on an incomplete schema or an unrecorded template, or
  to a stored value replaced by one the process neither restored nor measured; a newer database is left alone. Two reads of a
  start take a lock for "nothing there" and are the exceptions, see section 3;
- template: exactly the well-formed templates are accepted, and what is accepted is served as written;
- process: a signal ends it, wherever it is; a process that failed is followed by one that runs.

## 2. The modules

| Module | Models | Extends |
| --- | --- | --- |
| `EdgeValue` | register codec and double conversions | |
| `EdgeCodec`, `MCEdgeCodec` | one value through pack, poll, write-back and restore | `EdgeValue` |
| `EdgeModel` | node table, thread control | `EdgeValue` |
| `EdgeModbus` | `edge_modbus.c` and its PLC | `EdgeModel` |
| `EdgeStore` | `edge_store.c` of a running gateway, SQLite locks | `EdgeModel` |
| `EdgeEvents` | `edge_events.c` | `EdgeStore` |
| `EdgeRuntime`, `MCEdgeRuntime` | `edge_runtime.c`, client writes, signals, shutdown, crash, restart; composes all of the above | `EdgeModbus`, `EdgeEvents` |
| `CommandMailbox` | abstract: what a client may rely on when its write is answered Good | |
| `EdgeSchema` | the database of a start: `edge_store_init_schema`, `edge_store_persist_model` | |
| `EdgeLifecycle`, `MCEdgeLifecycle` | `main()` from start to start: restore, server, signals, last persist, exit status, clock, crash, reboot, supervisor | `EdgeSchema`, `EdgeValue` |
| `EdgeConfig`, `MCEdgeConfig` | `edge_config.c` and `edge_address_space_load`: from the sections of a template to the address space | |
| `EdgeValueProofs`, `EdgeCodecProofs`, `EdgeConfigProofs` | theorems | the module they are about |
| `EdgeRuntimeProofs`, `EdgeHistoryProofs`, `EdgeMailboxProofs` | theorems about `EdgeRuntime`: types, unit cache and backoff; events and snapshots; commands | `EdgeRuntime`; the last two extend the first |
| `EdgeLifecycleProofs`, `EdgeRestoreProofs` | theorems about `EdgeLifecycle`: schema and configuration; restored values | `EdgeLifecycle` |

Definitions carry the names of the C functions where one definition stands for one function
(`edge_modbus_poll`, `edge_events_evaluate`, ...); the disjuncts of such a definition are the cases the
function distinguishes (its early returns, loop iterations and error paths). Definitions marked
`Mutant` are plausible wrong versions of the definition after them; no specification uses them. They
show that each property can fail.

How state corresponds to the code:

- `value`, `pending`: the `value` and `pending_write` of the nodes. `active`, `checked`: the latches and
  `last_event_stats.checked_count`. `tick` is `tick_count` modulo `persist_every_n_ticks`, which is
  all the code uses of it. `retryIn` is `next_connect_attempt_us` relative to the clock.
- `slave` is the unit inside the libmodbus context and `currentUnit` the local cache of the poll
  (`NoUnit` when `unit_set` is 0).
- `dbLatest`, `dbRows` are the committed tables, `txLatest`, `txRows` what the gateway's own connection
  sees; they differ only while `txOpen`. Event rows and notifications are counted per activation
  (`notes`, `dbRows`, `txRows`) up to `RowCap`.
- `plant`, `assets`, `nodes`, `events` of `EdgeConfig` are the tables of `EdgeModel`, the functions
  `parent_index`, `asset_index`, ... their resolved fields, counted from 1 with 0 for `edge_invalid_index`;
  `space` is the server's node tree. A section is read in one step: nothing else runs while `main()` loads,
  and nobody sees the tables between two lines. A line is its key, its text and the number a numeral
  stands for; whether a key admits it is a predicate named after the C function that parses it, and the
  last line of a key counts. An id is the sequence of its parts between dots.
- `dbLock` is the lock another process holds: `shared` (a backup or a query), `reserved` (a writer) or, in
  `EdgeLifecycle`, `exclusive` (a writer that commits, which also keeps readers out).
- In `EdgeLifecycle` `value` and `latest` are keyed by node id, as the rows are, because the template may have changed
  since the last start. The ticks of a gateway that is up are taken as a whole there (`Sampled`, `EventRecorded`,
  `Persists`); `EdgeRuntime` has their steps. `running` is `g_running`, `clean` the exit status 0, `uptime` the
  monotonic clock and `newest` the time of the newest history row. `known` and `refused` are history variables: the nodes
  whose value was restored or sampled, and those whose SELECT met a lock. So is `misread` of `EdgeSchema`: the versions that a
  start could not read and took for 0. No action depends on them.
- A restart of `EdgeRuntime` (`Starts`) is one step; the SELECT of a node may be refused in it when other processes write
  (`SelectMayFail`). `EdgeLifecycle` has the start statement by statement.

External, modelled from how the code uses it: libmodbus requests and the PLC (`Address`, `Serves`,
`ReadRegisters`, `Written`, `PlantChange`, `LinkChange`), SQLite transactions and file locks (`Commit`,
`Rollback`, `OtherProcess`), crashes. A PLC answers a request if it serves all its registers; when the
link is down a write may still have been carried out, with only its answer lost. SQLite runs with a
rollback journal and no busy timeout, as the code opens it. After COMMIT was refused the
connection keeps its pending lock, so no new reader gets in.

Abstractions of data: a register has `2 * HalfWord` values, a double is a whole number of quanta (1.0 is
`One` quanta) or NaN or an infinity; rounding within the double format, scales that are NaN or infinite,
message texts and the statistics counters of `EdgeModbus` are left out. A C conversion of a
double to an integer that is out of range is undefined; the model allows every outcome the builds
produce.

## 3. The runs

| Run | Instance | Shows |
| --- | --- | --- |
| `codec` | two-bit registers, every integer value, a range of doubles beyond the register range, scales of both signs and zero | read-back, nearest value, no drift on write-back, exact restore |
| `modbus` | four nodes on units 1, 2, a unit libmodbus refuses and 1 again, the last beyond the address space so that its offset names the register of the first; two-register commands; backoff 1, 2, 3 | cache, own registers for polls and commands, backoff, implementation of `CommandMailbox`; every served node is read again and again |
| `store` | two nodes, two events, readers and writers of the file, NaN and infinity, signals, crashes | rows, notifications, latches, atomic snapshot; a restore is exact or absent, a shutdown stores what all nodes have; only a refused COMMIT leaves a transaction open, and without one notifications are durable and snapshots resume after locks and NaN |
| `gateway` | a node with two events, a node without register, readers and writers of the file, link loss, signals | the mailbox when all parts interact; no event starves; a signal ends the process |
| `config` | all templates of up to 3 assets, 2 nodes and 2 events from small sets of sections: incomplete and colliding ones, a key given twice, lines that are refused, numbers at 0, at the end of their field, beyond it, and the negative one `strtoul` turns into 1 | the loader accepts exactly the well-formed templates; events watch their own asset; what is accepted is served, as written, unless dots make two NodeIds equal |
| `lifecycle` | 3 tables and 2 columns; new, version 1 and newer databases; three templates, which rename the plant, change the data type of a node, add a node, or have a NaN; three kinds of locks, crashes, reboots, signals, failing calls | schema complete unless version 1 could not be read, newer databases left alone unless their version could not be read, atomic configuration, restored values exact or absent and never forgotten, interrupted starts recover, a signal during a start is honoured |

The bounds are small because the loops treat each node, event or row alike: two or more nodes on two
units produce every order of unit changes, two events let an error in one meet the other, `PersistEvery`
2 lets a tick with and one without a snapshot follow each other, and `RowCap` 2 tells one row from
too many. A template never has a unit that libmodbus refuses (`LoaderIsExact`); the node with
such a unit in `modbus` is there for the error path of the code. Three assets give a chain of parents, two nodes and two events every kind of duplicate. Three tables
have a first, a middle and a last (the one with the added columns); the real 7 and 9 are used in `migration_cut` and
`reboot`. `ClockCap` 1 tells the moment of a boot from a later one. No state constraint is used; the state spaces are finite by themselves.

Six runs state what the repository says of itself and are violated by what the code does:

| Run | Statement | What happens |
| --- | --- | --- |
| `register_hole` | README:72 "polls all Modbus-backed nodes" | one register the PLC refuses ends each poll at the same node, the nodes behind it are never read |
| `lost_command` | edge_runtime.c:16 "committed on the next tick" | the status of the write is ignored and the pending flag cleared |
| `reader_blocks` | README:72 "persists latest values every 50 ticks" | a reader at the moment of COMMIT leaves the transaction open for ever |
| `missed_notification` | edge_events.c:3 "one notification per active transition" | an event whose insert failed stays latched and is not reported |
| `reboot` | edge_time.c:3 "Unix epoch milliseconds for persisted timestamps" | the clock is monotonic and begins again at boot, so a newer row has an earlier time |
| `migration_cut` | README:225 "migrates version 1 benchmark columns automatically" | cut off after the first ALTER TABLE, no later start succeeds |

The properties that hold have exceptions, each for something the code really does and written out where it applies. Some of
them go against the repository's own words:

- `misread` in `SchemaComplete` and `NewerUntouched`: when `PRAGMA user_version` cannot be read because another process
  commits, `current_version` stays 0 (edge_store.c:155) and the start goes on to stamp version 2. A database of version 1 then lacks
  its columns for good, and a newer one is downgraded, written to and served, although README:225 says that the binary
  migrates the one and refuses the other. What is shown is that nothing else leads there.
- `refused` in `NoForgetting` and `SelectMayFail` in `RestoresSnapshot`: a SELECT refused for the same reason counts as a
  missing row (edge_store.c:399), the node stays 0 although README:68 says that latest values are restored, and the next
  snapshot stores the 0.
- locks, NaN and an open transaction in `LastValuesStored`: the persist at shutdown (README:73) is tried once and its
  status ignored.
- `edge_store_persist_model` never deletes the rows of entities that left the template, though README:217-220 calls these
  tables the current identity and snapshots: `ServedIsRecorded` and `ConfigurationAtomic` speak of the rows of the loaded template.

Three have no statement of the repository against them: a server that cannot bind its port exits with status 0, which
`Restart=on-failure` does not restart (`~clean` in `StartsEventually`); a node whose register is more than 65535 above the base
meets another node's register (`Addressable`); and two nodes whose ids with their dots give the same NodeId are accepted but
not served (`AcceptedIsServed`).

### Fairness

`FairSpec` of `EdgeRuntime` assumes that the timed callback fires (`TickBegins`) and runs on
(`ServerStep`): open62541 runs repeated callbacks, and every blocking call in the tick ends, Modbus
requests by libmodbus' response timeout and SQLite calls at once because there is no busy timeout. The
clock advances. `ServerStops` is strongly fair, since `edge_server_run` looks at `g_running` after every
iteration. Clients, signals, the plant, the network, other processes and restarts are not assumed to
do anything. `FairSpec` of `EdgeLifecycle` assumes that the supervisor starts a process again that did not return 0
(`Restart=on-failure` in the systemd unit, `--restart unless-stopped` for Docker) and that `main()` runs on. Its variable
`calm` marks the moment after which nothing disturbs starts any more; what happened before stays in the file.

## 4. The theorems

Proved by TLAPS for every node table, every number of nodes, events, tables, columns and templates,
every register width and every backoff, under the named assumptions of the modules (types of the
constants; `HalfWord <= LongMax`; `BackoffInitial <= BackoffMax`; distinct row keys and node ids in a template; sampled values of the node's data type; sections that are
sequences of lines).

- `EdgeValueProofs`: what the operators compute. Two's complement is inverted by the signed reading
  (`IntegerRoundTrip`), the rounded quotient errs by at most half a scale (`RoundingError`) and is exact
  on multiples (`ExactQuotient`), `edge_node_set_from_double` inverts `edge_node_as_double` (`RestoreInverse`).
- `EdgeCodecProofs`: the properties of the codec follow from one invariant, which says what the
  registers hold in terms of the value they were packed from.
- `EdgeRuntimeProofs`: `TypeCorrect` (the loops stay in their bounds and nodes keep values of their
  type), `CacheAlwaysCoherent` (the unit cache is empty when the scan begins, and inside a
  scan the context is only touched together with it), `PollReadsOwnRegisters` from it, and
  `RetryAlwaysInWindow` (the delay is 0 or between its bounds, the time left never exceeds it, and a
  connected gateway has none).
- `EdgeLifecycleProofs`: one invariant with three parts. Tables are created in order; except at version 1 a
  `benchmark_runs` table has all columns, because it was created with them or migrated before the
  version was stamped, or else a start could not read version 1; a newer version is stamped over only where it could not be
  read; inside the transaction the rows before the cursor are the template's, and keys
  are distinct, so later rows do not overwrite them. The invariant speaks of the variables of `EdgeSchema` only and is
  carried through every step of `EdgeLifecycle`, reboots and signals included. From it `SchemaAlwaysComplete`,
  `ConfigurationAlwaysAtomic`, `ServedAlwaysRecorded` and `NewerNeverTouched`.
- `EdgeRestoreProofs`: what one process leaves to the next. Until the restore begins a process has zeroed nodes and no
  history (`Fresh`), and no node is restored ahead of its turn (`InTurn`). Of the nodes the restore has passed, one that
  was neither restored nor sampled and met no lock has no row, or the row this process wrote (`Remembered`); one that was
  restored has the value of its row (`Faithful`, by `RestoreInverse`). Node ids are distinct, so a row reaches one
  node. From it `LifeAlwaysTyped`, `RestoredAlwaysStored` and `NeverForgotten`: the zeros of a fresh
  process never reach the database over a stored value unless a SELECT was refused.

- `EdgeHistoryProofs`: events and snapshots of the running gateway. Committed and own tables agree unless a transaction
  is open (`TablesAgree`); while the row loop runs, the rows before the cursor are the present values of their nodes
  (`RowsSoFar`), and nothing changes a value there, so a COMMIT publishes one snapshot, also the last one of a
  process (`LastValuesAlwaysStored`). Rows and notifications are
  counted against the latch: none before the activation, one at most while it lasts, a notification only after its
  row (`Activation`, `Once`). The latches behind the cursor of an evaluation agree with conditions whose
  inputs stay fixed until the tick ends (`EvaluatedSoFar`), and every stored row is the double of some value of its
  node's type (`StoredAreImages`), so that `RestoreInverse` applies to every node whose SELECT was not refused. Each action is first put into one of
  a few classes by what it does to the store (`Elsewhere`, `StoreCases`, `PersistCases`).
- `EdgeMailboxProofs`: `Spec => MailboxSpec`. The slot of a node is its value while its `pending_write` is set. The
  refinement needs that values change by a poll or a restore only while nothing is pending (`Drained`: behind the
  cursor of the drain, and from its end to the end of the tick, no command waits). Then a client's write is
  `Acknowledge`, an iteration of the drain `Take`, the end of the process `Lose`, the plant `PlantMoves`, and every
  other step a stutter. `CommandsAlwaysStay` uses that only the drain writes registers and that the offset of an
  addressable node is not truncated.
- `EdgeConfigProofs`: loading and serving for templates of any size. Tables hold only what sections with
  admitted lines give (`Tables`). The loader's checks, which search tables by index, are equivalent to `WellFormed`, which
  quantifies over them (`ValidIsWellFormed`, `WellFormedIsValid`). The harder direction is that the walk up a parent
  chain ends: the recursive function `Climb` exists (`WalkExists`) and each hop goes to a smaller index
  (`WalkDescends`). Indexes point to what the texts name (`Resolved`), and the address space holds the plant, the assets and
  the variables before the cursor, each below its parent, and as many nodes as that (`Placed`). A refused
  `UA_Server_addNode` then means that two variables have one NodeId.

`PollReadsOwnRegisters` and `CommandsAlwaysStay` speak of the registers the template gives a node, with offsets that are
not truncated; the proofs use that a number below `OffsetSpace` is its own remainder.

Where an argument goes by induction over numbers (the first match of a search, the walk up a parent chain), it is made
by least counterexample: `LeastNatural` in `EdgeConfigProofs` follows from `WFMin`, the library's fact that a
non-empty set has a minimal element under a well-founded relation.

Every safety property of a passing run is proved. Only model-checked are the liveness properties (`AllNodesPolled`,
`NoEventStarves`, `PersistenceResumes`, `StopsEventually`, `StartsEventually`, `StopHonoured`), because
fairness and ENABLED are out of reach of the prover, and the six statements that the code violates.

## 5. What is not modelled, and the plan

Not modelled: how the text of a template line is cut at the equals sign, the environment variables of `main()`
(they choose paths and ports), the read callback of a variable (it copies the value and changes nothing), texts of
events, benchmarks, simulator, packaging. Nothing else of the gateway's control is left out.

What is left:

1. The assumptions of one module as theorems about another: that an accepted template (`EdgeConfig`) meets what
   `EdgeModel`, `EdgeEvents` and `EdgeSchema` assume of their tables.
2. The safety cores of the liveness arguments, as far as the prover reaches: that a tick cannot get stuck between two
   labels, and that each loop strictly advances.
