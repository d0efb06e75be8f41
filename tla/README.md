# A TLA+ model of nu_plugin_nvim

`nu_plugin_nvim` is a Nushell plugin that drives running Neovim editors over
MessagePack-RPC. This directory holds TLA+ models of its concurrent parts, the
TLC configurations that check them on small instances, and TLAPS proofs of
what they promise for instances of every size. Every definition is a
translation of code under `crates/`; `PROJECT.json` ("map") names the lines.

## The system

| component | state it keeps | operations | talks to |
|---|---|---|---|
| RPC transport, `nuvim-protocol/src/rpc.rs` | socket, next request id, queue of notifications | connect, `call`, `pop_notification`, `next_notification`, `prepare_notifications` | one editor, by request, response and notification |
| Event streams, `commands/watch.rs` | bounded channel of 64 results, worker thread, `Events` iterator, descriptors on the socket | install, worker loop, `next`, `drop` | RPC transport; the pipeline that pulls and drops; the engine's interrupt signal |
| Autocmd watches, `commands/watch.lua` | augroup, timer, `closed` flag in the editor | notify, cleanup, timer tick, wipeout | the channel of the client |
| Guarded transforms, `commands/transform*.{rs,lua}` | captured snapshot with `changedtick` | capture, closure, signal check, apply | two calls to the editor, the user's closure between them |
| Snapshot and mutation commands, `commands.rs` | none beyond one command | context, buffers, text, edit, replace, open, scratch, cursor set, ... | several calls each, the user in between |
| Server discovery, `server.rs`, `commands.rs` | none | parse, candidates, probe, pick | file system, every live editor |
| Quickfix, `quickfix.{rs,lua}` | the editor's list stack | get, set, history, open | one Lua chunk per command |
| Structured queries, `query.{rs,lua}` | none | node, symbols, references, definition | language servers, inside one Lua chunk |
| Value conversion, `value.rs`, `handle.rs` | none | MessagePack to Nushell and back | every command |
| Generated client, `generated.rs`, and `nuvim-codegen` | the checked-in table and methods | generate, `--check`; look up a function, call it | the nvim on the PATH when generating, any editor when calling |
| Plugin entry, recipes | none | - | - |

What is hard about it: a watch has three concurrent actors (editor, worker
thread, pipeline), a bounded queue, an interruptible blocking read, and a
destructor that joins a thread which may itself be blocked; a transform runs
user code between two calls while the user, or other transforms, edit the same
buffer; commands read and act in separate calls; a call that timed out may
still be executed, and its answer met by the next; values and list identities
that a command returns are held in variables and given to later commands, when
the editor, or which editor it is, has changed. `PROJECT.json` ("hazards")
lists these at their lines with the properties that cover them.

## Modules

| module | models | state and actions |
|---|---|---|
| `EventFeed` | what a watch promises to its pipeline, whatever its threads do | what the editor emitted, what the pipeline has seen, whether the stream is open, ended or closed, whether the editor is still connected |
| `WatchStream` | `watch.rs` over `rpc.rs`, from the installing call to the end of `Drop` | see below |
| `MCWatchStream` | instances for TLC | - |
| `WatchStreamProofs` | proofs of the safety properties of `WatchStream`, and that it implements `EventFeed` | - |
| `GuardedTransform` | `transform.rs`, `transform-capture.lua`, `transform-apply.lua`, several commands at once | see below |
| `MCGuardedTransform` | instances for TLC | - |
| `GuardedTransformProofs` | proofs of the safety properties of `GuardedTransform` | - |
| `EditorCommands` | the commands of `commands.rs` that make several calls, and the queries of `query.lua`, several at once, against a user | see below |
| `MCEditorCommands` | instances for TLC | - |
| `EditorCommandsProofs` | proofs of the safety properties of `EditorCommands` | - |
| `WatchAutocmd` | `watch.lua`, what save and diagnostic watches leave in the editor, for several watches | see below |
| `MCWatchAutocmd` | the instance for TLC | - |
| `WatchAutocmdProofs` | proofs of the safety properties of `WatchAutocmd` | - |
| `Discovery` | how a command finds its editor: `server.rs`, and `connect`, `root` and `servers` of `commands.rs` | see below |
| `Ordering` | ranks and sorting in finite sets, for `Discovery` and `ApiCodegen` | none |
| `MCDiscovery`, `DiscoveryProofs` | the instances for TLC; proofs of the safety properties | - |
| `RpcClient` | `rpc.rs`: connecting, and calls and notifications on one connection | see below |
| `MCRpcClient`, `RpcClientProofs` | the instance for TLC; proofs of its safety properties | - |
| `ValueConversion` | `value.rs`, `handle.rs`: values both ways, as operators | none |
| `ApiCodegen` | `nuvim-codegen`, and the search in the table it generates | see below |
| `ApiCatalogue` | the table itself: every function with its number of parameters | none |
| `RawCall` | `nuvim call`, `nuvim lua` and the methods of the client, to several editors: the composition of `ApiCodegen` and `ValueConversion` | see below |
| `MCRawCall` | the instance for TLC, with three groups of `ApiCatalogue` as metadata | - |
| `RawCallProofs` | proofs of the properties of `RawCall` and of the modules it composes | - |
| `Quickfix` | `quickfix.rs`, `quickfix.lua` and the quickfix commands of `commands.rs`, against a user | see below |
| `MCQuickfix`, `QuickfixProofs` | the instance for TLC; proofs of its properties | - |

### WatchStream

`wire`, `sock` and `fds` are the socket: bytes not yet read (one element per
message), whether an end has been closed or shut down, and the descriptors this
process holds (the client's own and the two that `prepare_notifications`
clones). `backlog` is `RpcClient.notifications`. `worker` and `held` are the
program counter and the local value of the thread spawned at `watch.rs:103`,
`chan` and `rx` the `sync_channel`, `pc`, `ready`, `items` and `ended` the
command's thread and the fields of `Events`, `signal` the engine's interrupt.

The actions follow the code statement by statement where another actor can
come between: `CallStashes`, `CallReturns`, `CallFails` are the three ways a
turn of the loop in `RpcClient::call` ends; `Prepare` is the configuration of
the socket and the spawn; `WorkerPops`, `WorkerReads`, `WorkerMeetsEof` are
`next_notification`; `WorkerSends`, `WorkerMeetsDrop`, `WorkerMeetsFull` the
outcomes of `try_send`; `WorkerShutsSocket`, `WorkerDropsClient`,
`WorkerSendsOverflow`, `WorkerGivesUp` the overflow branch in its order;
`Next...` the loop of `Events::next`; `Drop...` the three statements of
`Events::drop`. A message is its kind and a number; payloads are left out.

A shutdown or a reset may discard what was received and not read, so
`WorkerMeetsEof` does not require an empty `wire`. The overflow error replaces
the item that did not fit.

### GuardedTransform

Buffers have a text, a `changedtick`, a loaded and a modifiable flag. The text
of a row is the set of edits it has been built from (user edits and commands),
which is all a lost update needs to be seen. Each command holds its arguments,
control state, pending request, reply, snapshot, closure result, interrupt
signal and outcome. Sending a request, the editor running it, and reading the
response are separate actions; the editor runs one Lua chunk at a time, so each
chunk is one action. The user edits, unloads, reloads, switches buffers, locks
buffers and interrupts at any time. `GivesUp` is the read timeout: the request
may still be run, or be discarded with the channel.

External to the code, and modelled from how it is used: Neovim increases
`changedtick` at every change of a text and when an unloaded buffer is loaded.

### EditorCommands

The editor is its buffers (`life`, `tick`, `unsaved`) and its focus (`windows`,
`shown`, `curwin`). A command is its arguments, the call it makes next (`pc`),
its local handles (`buf`, `win`, `rest`, `paths`), the fields it has read for
the record it is building (`seen`) and what it will return (`report`). Each
call is one action, in the order the code makes them, and ends in the next call
or in the error that ends the command; the user edits, saves, shows and wipes
buffers and enters and closes windows between any two of them. `ReadField` is
`buffer_record`, three of its five calls (name, `changedtick`, `modified`; the
other two are read next to these and no property tells them apart), `Written`
the target of an edit, which for `replace --selection` is the buffer current
when the chunk runs and not the one the command asked for. `command`, `lua` and
`call` can do anything; of that the model has an edit and a change of buffer.
`acted` and `moved` are history: the place a command changed, and whether
someone else has moved the focus since it began. They guard nothing.

A query is one call, but `vim.lsp.buf_request_sync` runs the editor's event
loop while it waits. `Ask` is what `query.lua` does before the wait, `Answer` a
language server's answer, which may be about the version that was asked for or
about any later one, and `Return` what the chunk does after the wait; the user
and the other commands act between them. `Node` does not wait.

External to the code: the loading of a buffer on the first edit or when it is
shown, `changedtick` growing with every edit, load and reset of `modified`, and
`nvim_list_bufs` returning unlisted buffers too. The user does not unload
buffers here (`GuardedTransform` has that).

### WatchAutocmd

`group`, `timer` and `closed` are the locals of the chunk that `watch.rs:87`
sends, one of each per watch; `chan` and `client` are the two ends of the
watch's connection, `request` the call that carries the chunk, `due` the
timer's callbacks that `vim.schedule_wrap` has put off. `Installs` is the chunk
itself, `Happens`, `Wipes` and `RunsDue` its callbacks, each with the calls of
`notify` and `cleanup` it makes; the editor runs one at a time. `Leaves` is any
way the client is dropped in `watch.rs`, during the call too. `TimerFires` may
come faster than callbacks run (up to `MaxDue`) and before the closing of a
timer whose callback is still due. `raised` and `sent` are history.

External: `vim.rpcnotify` raises an error on a channel that is closed and
returns no value otherwise, so that `not ok or not sent` in `watch.lua:15` is
true of every notification, and `Notifies` cleans up after each (see Findings);
a channel is closed when its socket ends, and a buffer's own autocmds go when
it is wiped.

`WatchStream` and `WatchAutocmd` are the two ends of one connection and are
checked apart: the first takes any sequence of messages and a hangup at any
time from the editor, the second a client that goes away at any time.

### Discovery

The editors are their sockets (`file`, `born`) and whether they answer in time
(`editor`); they start, slow down, recover, crash and exit between any two
steps. A command is what it can go by (`flag`, `engineVar`, `processVar`,
`layout`) and its locals: the directories and entries left to read (`roots`,
`todo`), what it has read (`found`), the editors left to ask (`rest`), those
that answered (`live`) and their records (`rows`). `Consulted` is the order in
which each kind of command looks for an address; `OpensRoot` and `Visits` are
`socket_candidates`, an entry at a time; `Candidates` the sort and
`dedup_by`; `Probes`, `Records` and `Contacts` the connections, with the time
limit of each. `Settles`, `Shows` and `Picks` are the choices.
`steady` and `contacted` are history. A socket's name holds a process
identifier, so no two editors use one. Nothing happens to the editors after
the command has ended.

### RpcClient

`elapsed`, `deadline`, `worker` and `slot` are `connect_with_timeout` and its
`run_io_with_timeout`: the worker thread, the channel of one result, and the
wait for it, which may end before, between or after any two steps of the
worker. `socket` says who holds the descriptor. After that the client is
`nextId`, `stash` (`RpcClient.notifications`) and the request `current`ly
waited for; the editor is the requests it has and has not answered (`asked`),
the messages on their way (`incoming`), and may answer in any order, notify,
send requests of its own and hang up. `CallStashes`, `CallReturns` and the
reading of anything else are the turns of the loop of `call`; `TimesOut` may
leave the rest of a message behind, which the next read takes for a malformed
one. A client that has failed can be used again; the plugin's commands drop
theirs at the first error, but `RpcClient` does not rely on it. `last`,
`popped` and `lost` are history.

### RawCall, ApiCodegen and ValueConversion

A developer installs a version of Neovim, generates the file, possibly cut
short, checks it and builds the plugin (`ApiCodegen`). Then a user gives words,
the result of the command before (`held`), or both, as arguments or through the
pipeline, to `nuvim call`, `nuvim lua` or a command that uses a method of the
client, each with one of several editors of several versions. `Calls` makes the
checks that come before the connection, `Sends` the conversion of the
arguments, the editor accepts or rejects by its own metadata, `Errors` is a
call that ends in an error of its own or without a response, and `Returns`
converts the answer. An editor is identified by its address, as in the code: a
second editor started at the address of the first is not told apart. `ToNu` and `FromNu` follow `msgpack_to_nu` and
`nu_to_msgpack`, each a function on the values that come up (`Packed`, `Values`),
which have any depth and contain their parts; `Depth` is what the recursion goes
down by. Integers have their ranges, scaled down for TLC, and a text, some
bytes or a float is a value that nothing looks into. The table is the sorted
set of functions (`Ordering`), the search in it a recursive function, as in the
standard library's `binary_search_by_key`.

The reference for the conversion is the value itself: `GivenBackUnchanged` says
that what was answered is what the editor gets back. Two things are left out of
it because they do change, by design of the code: a float of 32 bits comes back
as one of 64 (`Widened`), and a map of strings whose `type` is one of the tags
of `record_to_msgpack` is read as a tagged record (`Ambiguous`). For the same
reason `HandlesStayHome` rests on `NoLookAlikes`: what an editor answers holds
no map that spells out the record of a handle or of an extension, and the user
writes none; `value.rs:166` cannot tell such a record from that of a handle.

### Quickfix

`stacks` are the histories of the quickfix lists and of each window's location
lists, each with the place of its current list, `lastId` the identities given
out, `open` and `focus` the windows. A command is one Lua chunk and hence one
step; `reply` is what it returned, so that properties can speak of it. `SetsNew`
and `SetsOld` are the two things `setqflist` does, `SetFails`, `GetFails` and
`Refuses` the refusals of `quickfix.lua` and of the conversion before it. The
user moves in a history, extends it with `:grep`, clears it, and enters and
closes windows. External: how Neovim numbers lists, drops those behind the
current one or the oldest when a new one comes, takes identity 0 for the
current list, and keeps a line number in fewer bits than the plugin (`Held`).

## Runs

| run | instance | shows |
|---|---|---|
| `watch` | channel of 2, up to 4 messages, fair threads | refinement of `EventFeed`: order without gap or repetition, an end always has a reason, nothing follows a terminal record; an overflow only after a full queue; a dropped stream leaves no thread and no descriptor; dropping completes even against a blocked overflow send; an interruption ends a waiting pull; if the pipeline keeps pulling, an overflow is reported and a hangup ends the stream |
| `transform_pair` | 2 commands, 2 buffers, whole buffers | one writer per captured version |
| `transform_rows` | 1 fair command, 2 buffers, 2 rows, every argument, an edit, reloads | output only on target, only from good closures, reports are true, no user edit is lost; outside its closure a command always ends; an early interrupt prevents the edit for good |
| `transform_interrupt` | 1 command | a violation: the documentation's wording about interruption is stronger than the code (see Findings) |
| `editor_one` | 1 fair command with each of its arguments up to a renaming of the buffers, 3 buffers (two of them listed at the start), 2 windows, 2 user actions | the answers a query returns are of the version it names; a record's `modified` is right for its `changedtick`; what `edit`, `scratch` and `replace` report is of the buffer they changed and no older, wherever the user goes; the focus is where the command puts it, also after `open` has failed at a later path; every command ends, its loops over buffers and paths included |
| `watch_autocmd` | 2 watches of one buffer, 2 events, 2 callbacks due, fair editor | no closed timer is touched; a watch that has sent nothing stays while its channel is open, and ends with a detach and a closed channel when its buffer is wiped; a hangup is preceded by a detach and nothing follows one; nothing stays behind a client that has gone |
| `watch_kept` | 1 watch, 1 event | a violation: after its first event a watch is gone, and its channel is open (see Findings) |
| `discovery` | 2 sockets, in directories that overlap, are apart or leave one out, 2 modification times, every argument | each live editor is listed once and newest first; none that answers all along is overlooked; an explicit address is never given up for another |
| `discovery_env` | the same | a violation: the plugin's own `NVIM` is preferred to discovery (see Findings) |
| `rpc` | a timeout of 2 units, identifiers up to 3, 4 calls, 3 messages of the editor's own, fair client | connecting keeps to its one timeout; a call returns its own answer; no two requests share an identifier; notifications come once and in order; with an editor that stops talking each call returns; a connection made too late is closed |
| `call` | 4 versions of metadata, 2 editors, answers of every kind, nested | `--check` passes for files with the same functions, numbers of parameters and release (which stands for the rest of the text) only; a checked table refuses what the editor would; no editor gets another one's handle; what an editor has answered can be given back to it |
| `quickfix` | 2 windows, histories of 2 lists, 3 identities | an update changes the list it names and nothing else; `set` and `history` describe the lists truly; positions come back, 0, the last line and absent ones included |

Bounds. `Capacity` 2 has a full, a half-full and an empty channel and four
messages fill it, overflow it and leave one on the wire or in the worker's
hand; the capacity of 64 in the code differs in nothing but length,
and the proofs hold for every capacity. `MaxMessages` only bounds the editor.
`MaxTick` bounds the user's changes; commands write beyond it. Two commands
are enough for every conflict between a writer and a captured version; the
proofs hold for any number. Three buffers give `buffers` a handle after the
one the user wipes and `open` a second path in another buffer; `MaxUser` 2 lets
the focus move and move back, and a buffer change twice between two calls.
Identifiers up to 3 with four calls let the last call meet the end of the
identifiers while the answers to the first three are still missing. Histories
of two lists drop one when a third is made, and three identities let a command
name a list that is there, one that is gone, and one of another history.
`CHECK_DEADLOCK FALSE` is set for the transforms and the commands because they
all end, and for discovery and the autocmds because a finished command or a
forgotten watch has nothing left to do, for `rpc` because a client whose editor
has hung up may be left alone, and for `call` because a developer may never
build the plugin; the watch has an explicit `Finished` step instead, and
`quickfix` always goes on: both are checked for deadlock.

## Fairness

`LiveSpec` of `WatchStream` assumes that the worker, a call of `next` that has
begun and a drop that has begun are scheduled (weak fairness of each thread).
Nothing makes the editor send, the pipeline pull or drop, or a blocked read
return: a read returns only when there is a message or the socket is dead, a
send when there is a slot or no receiver. `KeepsPulling`, a premise of two
properties, is a pipeline that does pull, as `each` does. `LiveSpec` of
`GuardedTransform` is weak fairness of each command, whose only step against a
silent editor is the read timeout of `rpc.rs:78`, and `LiveSpec` of
`EditorCommands` the same: a call returns or fails, a command runs on. In these
the editor, the closure and the user have no fairness. `LiveSpec` of
`WatchAutocmd` is about the editor's own loop: it takes or discards what is
queued, notices a socket that has ended, lets timers fire and runs what has
been scheduled. An editor that hangs keeps what a watch left in it. `LiveSpec`
of `RpcClient` is weak fairness of the client's reads, whose timeout the code
sets, of the steps that connect, the passing of time among them, and of the
worker thread, whose `connect(2)` or `getaddrinfo(3)` the system ends sooner or
later; nothing makes the editor answer, and the safety properties do without
all of this.

## Proofs

TLAPS proves, for every value of the constants satisfying the named assumptions
(`WatchAssumption`, `TransformAssumption`, `CommandsAssumption`,
`WatchesAssumption`, `RpcAssumption`, `QuickfixAssumption`, those of `Discovery`
and those of `RawCall`, below), every safety property that a run checks:

- `WatchStreamProofs`: `Spec => []IInv`, and from it all seven safety
  properties of the watch. The safety properties are not inductive alone: that
  the stream is in order depends on how the items read, the channel, the
  worker's hand, the backlog and the wire continue one another (`Flow`), which
  a single numbering of the messages expresses; that an end has a reason
  depends on what the last item sent was (`Ending`); and the overflow
  properties on how much the consumer still has to read when the channel was
  met full (`Overflowing`). `IInv` is the conjunction, checked by TLC first.
  Under the same invariant every step of the watch is a step of `EventFeed` or
  leaves it as it is: `Spec => Feed!FeedSpec`.
- `GuardedTransformProofs`: `Spec => []IInv` for any number of commands. The
  key part, `Versions`, says that `changedtick` is a version number: while a
  buffer is loaded and its tick is that of a snapshot, its text is the
  snapshot's. `Exchange`, `Asking` and `Marking` tie a command's control state
  to the request and reply it has outstanding. `NoLostUpdate` follows as an
  action property, and `EarlyInterruptPreventsApply` from a second invariant,
  `Doomed`: a command interrupted before it looks at the signal never comes to
  send its edit.
- `EditorCommandsProofs`: `Spec => []IInv` for any number of commands, buffers,
  windows and user actions, and from it the five safety properties. The
  invariant is one per command: `Locals` (which calls a kind of command comes
  to and with which handles), `Past` (no report is of a version to come),
  `Edited`, `Placed` and `Focused` (what a command holds is what it changed, as
  long as nobody else moves the focus). For queries it has `Awaited`: while one
  waits, its answers are of the version asked about or a later one, so that an
  unchanged `changedtick` at the end makes them all of one version. One lemma, `Bystander`, says what any
  step of someone else does to a command's part: versions only grow, a version
  keeps its `modified`, and a move of the focus is recorded. Each action then
  has a lemma for its own command.
- `WatchAutocmdProofs`: `Spec => []IInv` for any number of watches, and from it
  the safety properties of `watch_autocmd`. `KeptUntilHeard` and
  `WipeEndsUnheard` are not inductive: they follow from what `IInv` adds, that
  augroup, timer and flag of a watch change together (`Together`) and that a
  flag set before anything has been sent means a channel closed (`Channel`).

- `RpcClientProofs`: the type invariant and the four safety properties, each
  from an invariant of its own. `Identified` (every outstanding identifier is
  below the next one and no two are the same) gives `IdentifiersDiffer` and,
  since a call takes no answer but that to its identifier, `AnswersThisCall`;
  `Kept` relates the notifications told of, kept, on their way and lost; `Waits`
  that both waits of connecting end at the same moment.
- `QuickfixProofs`: `Spec => []IInv`, that an identity is that of one list of one
  history, and from it `UpdatesAreExact`, `RepliesAreTrue` and
  `PositionsComeBack`. What creating and updating do to a history are lemmas
  about the operators.
- `DiscoveryProofs`: `Spec => []IInv` for any directories, sockets and times,
  and from it the three safety properties. `InOrder` says how the candidates
  left, the editors that answered and the rows follow one another; it speaks of
  candidates that have not gone only, because a socket that goes away before its
  metadata is read gets the oldest time, and may be in the list twice with two
  times, so that `dedup_by`, which compares neighbours, keeps both. `Covered`
  says where an editor that has answered all along is to be found at each
  stage. What sorting and de-duplicating make of any sequence are lemmas
  (`SortedIs`, `DeduplicatedIs`), and so is what `Enumerated` is
  (`EnumeratedIs`): the element of each rank.
- `RawCallProofs`: `Spec => []IInv` for any metadata, editors, words and
  answers, and from it the four properties of `call`. `Carried` says what the
  arguments are made of and what of them has been sent; `Holds`, what a result
  is the conversion of; `Issued`, what has been checked. `SearchIs` is the
  binary search: in a sorted table of any length it finds the name if it is
  there. `HandlesStayHome` needs `RecordsFrom` (an extension's record that is in a
  converted value is the conversion of an extension in the original) and
  `ExtensionsFrom` (an extension in what is sent is what such a record became);
  then `ExtensionReturns` says that the two editors are the same.
  `GivenBackUnchanged` needs `FailsUnreadable` and `RoundTrip`, about every value
  of any depth.

These last proofs are by induction where the prover has none: a set of numbers
or of values that has a member has one of least number or depth (`Least`,
`ByDepth`, from `NatLessThanWellFounded` of the library), and what holds of all
smaller ones holds of it. The recursive functions are unfolded in the same way
(`ToNuIs`, `FromNuIs`, `InsideIs`, `WidenedIs`, `SearchHalves`).

What they take from their constants: `MetadataAssumption`, that no version lists
a function twice and that `Order` has every name; `CallAssumption`, that the words
and answers are among the values; `ValuesAssumption`, what the kinds of values
are made of, with parts of less depth; `ConversionsAssumption`, that the sets of
values hold what conversions make of them; `NumbersAssumption`, that MessagePack's
integers are those of 64 bits and that no two have the same digits; and
`NoLookAlikes`. TLC evaluates each on the instance of `call`, and the runs of the
other modules evaluate theirs.

The invariants and the safety properties that only the proofs state (`IInv`,
`TypeOK`, and the watch's `InOrder`, `NoSilentEnd`, `NothingAfterTerminal` and
`OverflowClosesConnection`, which `ImplementsFeed` covers in the
runs) were checked by TLC on these instances before they were proved.

Only model-checked are the properties under fairness, which need `ENABLED` and
are out of the prover's reach: `DropCompletes`, `InterruptEndsPull`,
`OverflowReported` and `HangupEndsStream` of the watch, `CommandEnds` of the
transforms and of the commands, `NothingStays` of the autocmds, `EachReturns` and
`LateConnectionCloses` of the client. That the table in `ApiCatalogue`, the one
of the repository, lists each function once is evaluated, not proved.

## Findings

`docs/automation.md:36` says an interrupted command does not apply its result.
`transform.rs:126` looks at the signal once, before the apply request is sent;
an interruption later, while the request waits for a busy editor, does not stop
the edit. `transform_interrupt` shows the six steps. What does hold is
`EarlyInterruptPreventsApply`.

`docs/automation.md:111` says an editor timer removes the autocmds of a watch
after detecting a closed channel, and `docs/architecture.md:68` that watches
retain their connection until the stream ends. `notify` (`watch.lua:15`) removes
them too when `vim.rpcnotify` returns nothing true, and it returns nothing:
`watch_kept` shows `nuvim watch save` and `nuvim watch diagnostics` end in the
editor with their first event, while the pipeline goes on waiting. A buffer
wiped after that is neither reported nor closes the channel. The test in
`tests/advanced.nu:103` takes the `ready` record and one event, and does not see
it. What does hold is `KeptUntilHeard` and `WipeEndsUnheard`. Dropping `or not
sent` from line 15 would make `KeptWhileOpen` hold.

`docs/architecture.md:40` says commands prefer `$NVIM` and discover sockets when
that and `--server` are both absent. `discover_server` (`server.rs:60`) also
asks the environment of the plugin process, which outlives a command and keeps
an `NVIM` that Nushell no longer has; bare `nuvim` does not.
`discovery_env` shows a command that goes there.

Not a divergence, but worth knowing: `replace --selection` asks for the current
buffer twice, and `cursor set` for the current window. If the user moves in
between, what they return is of another place than the one they changed.
`ReportsOnTarget` excepts these two, once someone else has moved the focus.
And `docs/architecture.md:166` says `nuvim buffers` returns one record per
listed buffer, while `commands.rs:531` asks `nvim_list_bufs`, which leaves no
buffer out. The scratch-refresh recipe and `tests/recipes.nu` need the unlisted
buffers, so the sentence is at fault and not the code, and no run is about it.

## What is not modelled

Columns, UTF-8 boundaries and text formatting; the payloads of events; TCP
resolution beyond its outcome; the names that are not UTF-8, because of which
`servers` and bare `nuvim` leave an editor out; `selection` and `diagnostics`,
one reading call each; the positions of a query, and what becomes of locations
and symbols once the servers have answered; the contexts, texts and paths of
quickfix items; extension tags beyond the small ones, and byte strings too long
for MessagePack; registration of the commands with Nushell, and the recipes.
See "components" in `PROJECT.json`.

Three hazards have no property (`PROJECT.json`, "hazards"): a `scratch` that fails
half-way leaves its buffer behind, `context` is not of one instant, and `replace
--selection` and `cursor set` ask twice where they are. Nothing in the
repository promises otherwise. Nor is anything said of an editor that stalls
between the two probes of bare `nuvim`.

## Further work

1. Composition of `WatchAutocmd` with `WatchStream` over one connection.
2. Proofs: the safety part of `LateConnectionCloses`, as an invariant about who
   holds the descriptor; that an invariant of the queue rules out the deadlock
   of a drop against a blocked overflow send.
3. Positions and byte columns of `query.lua` and `transform-capture.lua`.
