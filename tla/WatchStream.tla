---------------------------- MODULE WatchStream ----------------------------
(***************************************************************************)
(* `nuvim watch buffer | save | diagnostics` (commands/watch.rs over       *)
(* nuvim-protocol's rpc.rs), from the call that installs the watch to the  *)
(* end of its pipeline.                                                    *)
(*                                                                         *)
(* Three actors run: the editor on the other end of a socket; the worker   *)
(* thread, which reads notifications and hands them to a bounded channel   *)
(* with try_send; and the command's own thread, which makes the call and   *)
(* is then the consumer of the Events iterator, pulled by the pipeline.    *)
(*                                                                         *)
(* A message or an item is a record [k, n].  Its kind k is what the code   *)
(* tells apart:                                                            *)
(*   "event"    a notification event_value turns into a record             *)
(*   "detach"   nvim_buf_detach_event, or a payload {event = "detach"}     *)
(*   "bad"      a notification event_value rejects                         *)
(*   "garbage"  a message parse_message rejects, or a stray response       *)
(*   "accept", "refuse"  the response to the call that installs the watch  *)
(*   "ready", "eof", "overflow"  items that are no message of the editor   *)
(* and n numbers the editor's messages, responses left out: n is the       *)
(* message's own number, or for anything else that of the message before.  *)
(***************************************************************************)
EXTENDS Naturals, Sequences

CONSTANTS
    Capacity,       \* bound of the sync_channel (64 in the code)
    MaxMessages     \* bound of the model: messages the editor may send

ASSUME WatchAssumption ==
    /\ Capacity \in Nat \ {0}
    /\ MaxMessages \in Nat

VARIABLES
    wire,       \* messages on the socket not yet read by the client
    emitted,    \* number of messages the editor has sent
    answered,   \* has the editor answered the call that installs the watch?
    sock,       \* "open", "hangup" (editor's end closed), "shut" (shut down)
    fds,        \* descriptors of this process on the socket
    backlog,    \* RpcClient.notifications: notifications read during the call
    worker,     \* control state of the worker thread
    held,       \* last item the worker read
    chan,       \* items in the bounded channel
    rx,         \* is the channel's Receiver alive?
    pc,         \* control state of the command's thread
    ready,      \* Events.ready: is the ready record still to be returned?
    items,      \* history: items the iterator has returned
    ended,      \* Events.ended, with the return that set it
    signal      \* engine.signals().interrupted()

sockVars == <<wire, emitted, answered, sock, fds>>
workerVars == <<backlog, worker, held>>
chanVars == <<chan, rx>>
streamVars == <<pc, ready, items, ended>>
vars == <<sockVars, workerVars, chanVars, streamVars, signal>>

Numbered == {"event", "detach", "bad", "garbage"}
Errors == {"bad", "garbage", "eof", "overflow"}
Terminal == Errors \cup {"detach"}
WireKinds == Numbered \cup {"accept", "refuse"}
ItemKinds == Numbered \cup {"ready", "eof", "overflow"}

WireMessage == [k : WireKinds, n : Nat]
Notification == [k : {"event", "detach", "bad"}, n : Nat]
Item == [k : ItemKinds, n : Nat]

Last(s) == s[Len(s)]

(***************************************************************************)
(* The editor.  The connection is up until an end shuts or closes it; this *)
(* process closes its end when its last descriptor is dropped.             *)
(***************************************************************************)
Connected == sock = "open" /\ fds # {}

EditorSends(kind) ==
    /\ Connected
    /\ emitted < MaxMessages
    /\ emitted' = emitted + 1
    /\ wire' = Append(wire, [k |-> kind, n |-> emitted + 1])
    /\ UNCHANGED <<answered, sock, fds, workerVars, chanVars, streamVars, signal>>

EditorAnswers(kind) ==
    /\ Connected
    /\ ~answered
    /\ answered' = TRUE
    /\ wire' = Append(wire, [k |-> kind, n |-> emitted])
    /\ UNCHANGED <<emitted, sock, fds, workerVars, chanVars, streamVars, signal>>

\* The editor exits, crashes or closes the channel.
EditorHangsUp ==
    /\ Connected
    /\ sock' = "hangup"
    /\ UNCHANGED <<wire, emitted, answered, fds, workerVars, chanVars,
                   streamVars, signal>>

Interrupt ==
    /\ ~signal
    /\ signal' = TRUE
    /\ UNCHANGED <<sockVars, workerVars, chanVars, streamVars>>

(***************************************************************************)
(* The call that installs the watch, still on the command's thread.        *)
(* RpcClient::call keeps the notifications it meets before its response.   *)
(***************************************************************************)
\* Mutant: the call loop discards the notifications it meets.
CallDiscards ==
    /\ pc = "call"
    /\ wire # <<>>
    /\ Head(wire).k \in {"event", "detach", "bad"}
    /\ wire' = Tail(wire)
    /\ UNCHANGED <<emitted, answered, sock, fds, workerVars, chanVars,
                   streamVars, signal>>

CallStashes ==
    /\ pc = "call"
    /\ wire # <<>>
    /\ Head(wire).k \in {"event", "detach", "bad"}
    /\ backlog' = Append(backlog, Head(wire))
    /\ wire' = Tail(wire)
    /\ UNCHANGED <<emitted, answered, sock, fds, worker, held, chanVars,
                   streamVars, signal>>

CallReturns ==
    /\ pc = "call"
    /\ wire # <<>>
    /\ Head(wire).k = "accept"
    /\ wire' = Tail(wire)
    /\ pc' = "prepare"
    /\ UNCHANGED <<emitted, answered, sock, fds, workerVars, chanVars, ready,
                   items, ended, signal>>

\* The command returns an error: the client and its descriptor are dropped.
Fail ==
    /\ pc' = "failed"
    /\ fds' = {}
    /\ UNCHANGED <<wire, emitted, answered, sock, workerVars, chanVars, ready,
                   items, ended, signal>>

\* A refusal, a message that is no response or notification, a lost
\* connection, or a read that times out because nothing has arrived.
CallFails ==
    /\ pc = "call"
    /\ \/ wire = <<>>
       \/ sock # "open"
       \/ wire # <<>> /\ Head(wire).k \in {"refuse", "garbage"}
    /\ Fail

\* prepare_notifications, twice, then the worker is spawned.
Prepare ==
    /\ pc = "prepare"
    /\ fds' = {"client", "interrupt", "overflow"}
    /\ worker' = "read"
    /\ pc' = "idle"
    /\ UNCHANGED <<wire, emitted, answered, sock, backlog, held, chanVars,
                   ready, items, ended, signal>>

\* Cloning the descriptor or clearing its timeout fails.
PrepareFails == pc = "prepare" /\ Fail

(***************************************************************************)
(* The worker thread.                                                      *)
(***************************************************************************)
Takes(item) ==
    /\ held' = item
    /\ worker' = "send"

\* next_notification returns what the call stashed before it reads the socket.
WorkerPops ==
    /\ worker = "read"
    /\ backlog # <<>>
    /\ Takes(Head(backlog))
    /\ backlog' = Tail(backlog)
    /\ UNCHANGED <<sockVars, chanVars, streamVars, signal>>

WorkerReads ==
    /\ worker = "read"
    /\ backlog = <<>>
    /\ wire # <<>>
    /\ Takes(Head(wire))
    /\ wire' = Tail(wire)
    /\ UNCHANGED <<emitted, answered, sock, fds, backlog, chanVars, streamVars,
                   signal>>

\* Mutant: a failed read is taken for a read of nothing.
WorkerRetriesEof == worker = "read" /\ sock # "open" /\ UNCHANGED vars

\* The read fails.  A reset or a shutdown may discard what is still unread.
WorkerMeetsEof ==
    /\ worker = "read"
    /\ backlog = <<>>
    /\ sock # "open"
    /\ Takes([k |-> "eof", n |-> held.n])
    /\ UNCHANGED <<sockVars, backlog, chanVars, streamVars, signal>>

\* try_send, and the loop's `if terminal { break }`.
WorkerSends ==
    /\ worker = "send"
    /\ rx
    /\ Len(chan) < Capacity
    /\ chan' = Append(chan, held)
    /\ worker' = (IF held.k \in Terminal THEN "break" ELSE "read")
    /\ UNCHANGED <<sockVars, backlog, held, rx, streamVars, signal>>

WorkerMeetsDrop ==
    /\ worker = "send"
    /\ ~rx
    /\ worker' = "break"
    /\ UNCHANGED <<sockVars, backlog, held, chanVars, streamVars, signal>>

\* Mutant: the channel is taken for full one slot early.
WorkerMeetsAlmostFull ==
    /\ worker = "send"
    /\ rx
    /\ Len(chan) + 1 >= Capacity
    /\ worker' = "shutdown"
    /\ UNCHANGED <<sockVars, backlog, held, chanVars, streamVars, signal>>

WorkerMeetsFull ==
    /\ worker = "send"
    /\ rx
    /\ Len(chan) >= Capacity
    /\ worker' = "shutdown"
    /\ UNCHANGED <<sockVars, backlog, held, chanVars, streamVars, signal>>

\* shutdown(Both) stops both directions whoever else holds a descriptor.
ShutSocket == sock' = (IF sock = "open" THEN "shut" ELSE sock)

\* close_on_overflow(), a FnOnce that drops its descriptor on return.
WorkerShutsSocket ==
    /\ worker = "shutdown"
    /\ ShutSocket
    /\ fds' = fds \ {"overflow"}
    /\ worker' = "release"
    /\ UNCHANGED <<wire, emitted, answered, backlog, held, chanVars, streamVars,
                   signal>>

\* drop(client)
WorkerDropsClient ==
    /\ worker = "release"
    /\ fds' = fds \ {"client"}
    /\ worker' = "overflow"
    /\ UNCHANGED <<wire, emitted, answered, sock, backlog, held, chanVars,
                   streamVars, signal>>

OverflowItem ==
    [k |-> "overflow", n |-> (IF held.k \in Numbered THEN held.n - 1 ELSE held.n)]

\* Mutant: the overflow error is not sent.
WorkerSwallowsOverflow ==
    /\ worker = "overflow"
    /\ worker' = "break"
    /\ UNCHANGED <<sockVars, backlog, held, chanVars, streamVars, signal>>

\* The blocking send of the overflow error, in place of the item that did
\* not fit: it waits for a slot, or for the receiver to be dropped.
WorkerSendsOverflow ==
    /\ worker = "overflow"
    /\ rx
    /\ Len(chan) < Capacity
    /\ chan' = Append(chan, OverflowItem)
    /\ worker' = "break"
    /\ UNCHANGED <<sockVars, backlog, held, rx, streamVars, signal>>

WorkerGivesUp ==
    /\ worker = "overflow"
    /\ ~rx
    /\ worker' = "break"
    /\ UNCHANGED <<sockVars, backlog, held, chanVars, streamVars, signal>>

\* The closure returns: its client, its sender and its interrupter are dropped.
WorkerExits ==
    /\ worker = "break"
    /\ fds' = fds \ {"client", "overflow"}
    /\ worker' = "done"
    /\ UNCHANGED <<wire, emitted, answered, sock, backlog, held, chanVars,
                   streamVars, signal>>

(***************************************************************************)
(* The consumer: Iterator::next and Drop of Events.                        *)
(***************************************************************************)
Return(item) ==
    /\ items' = Append(items, item)
    /\ pc' = "idle"

NextReturnsReady ==
    /\ pc = "idle"
    /\ ended = "no"
    /\ ready
    /\ ready' = FALSE
    /\ Return([k |-> "ready", n |-> 0])
    /\ UNCHANGED <<sockVars, workerVars, chanVars, ended, signal>>

NextStarts ==
    /\ pc = "idle"
    /\ ended = "no"
    /\ ~ready
    /\ pc' = "check"
    /\ UNCHANGED <<sockVars, workerVars, chanVars, ready, items, ended, signal>>

End(reason) ==
    /\ ended' = reason
    /\ pc' = "idle"

NextSeesInterrupt ==
    /\ pc = "check"
    /\ signal
    /\ End("interrupt")
    /\ UNCHANGED <<sockVars, workerVars, chanVars, ready, items, signal>>

NextPolls ==
    /\ pc = "check"
    /\ ~signal
    /\ pc' = "recv"
    /\ UNCHANGED <<sockVars, workerVars, chanVars, ready, items, ended, signal>>

\* recv_timeout gives a buffered item even when the sender is gone.
NextReceives ==
    /\ pc = "recv"
    /\ chan # <<>>
    /\ chan' = Tail(chan)
    /\ Return(Head(chan))
    /\ ended' = (IF Head(chan).k \in Errors THEN "error" ELSE ended)
    /\ UNCHANGED <<sockVars, workerVars, rx, ready, signal>>

NextSeesDisconnect ==
    /\ pc = "recv"
    /\ chan = <<>>
    /\ worker = "done"
    /\ End("closed")
    /\ UNCHANGED <<sockVars, workerVars, chanVars, ready, items, signal>>

\* Mutant: the interruption is looked at before the loop only.
NextKeepsWaiting ==
    /\ pc = "recv"
    /\ chan = <<>>
    /\ worker # "done"
    /\ UNCHANGED vars

NextTimesOut ==
    /\ pc = "recv"
    /\ chan = <<>>
    /\ worker # "done"
    /\ pc' = "check"
    /\ UNCHANGED <<sockVars, workerVars, chanVars, ready, items, ended, signal>>

\* Mutant: the receiver is dropped with the other fields, after the join.
DropKeepsReceiver ==
    /\ pc = "idle"
    /\ pc' = "interrupt"
    /\ UNCHANGED <<sockVars, workerVars, chanVars, ready, items, ended, signal>>

\* The pipeline drops the stream, exhausted or not, between two pulls.
DropReceiver ==
    /\ pc = "idle"
    /\ rx' = FALSE
    /\ chan' = <<>>
    /\ pc' = "interrupt"
    /\ UNCHANGED <<sockVars, workerVars, ready, items, ended, signal>>

DropInterrupts ==
    /\ pc = "interrupt"
    /\ ShutSocket
    /\ fds' = fds \ {"interrupt"}
    /\ pc' = "join"
    /\ UNCHANGED <<wire, emitted, answered, workerVars, chanVars, ready, items,
                   ended, signal>>

\* Mutant: the worker is detached instead of joined.
DropDetaches ==
    /\ pc = "join"
    /\ pc' = "gone"
    /\ UNCHANGED <<sockVars, workerVars, chanVars, ready, items, ended, signal>>

DropJoins ==
    /\ pc = "join"
    /\ worker = "done"
    /\ pc' = "gone"
    /\ UNCHANGED <<sockVars, workerVars, chanVars, ready, items, ended, signal>>

(***************************************************************************)
(* The specification.  The client is connected and the request that        *)
(* installs the watch is written: watch.rs lines 55-93 up to the call.     *)
(***************************************************************************)
Init ==
    /\ wire = <<>>
    /\ emitted = 0
    /\ answered = FALSE
    /\ sock = "open"
    /\ fds = {"client"}
    /\ backlog = <<>>
    /\ worker = "unborn"
    /\ held = [k |-> "ready", n |-> 0]
    /\ chan = <<>>
    /\ rx = TRUE
    /\ pc = "call"
    /\ ready = TRUE
    /\ items = <<>>
    /\ ended = "no"
    /\ signal = FALSE

Editor ==
    \/ \E kind \in Numbered : EditorSends(kind)
    \/ \E kind \in {"accept", "refuse"} : EditorAnswers(kind)
    \/ EditorHangsUp

Setup ==
    \/ CallStashes \/ CallReturns \/ CallFails \/ Prepare \/ PrepareFails

Worker ==
    \/ WorkerPops \/ WorkerReads \/ WorkerMeetsEof
    \/ WorkerSends \/ WorkerMeetsDrop \/ WorkerMeetsFull
    \/ WorkerShutsSocket \/ WorkerDropsClient
    \/ WorkerSendsOverflow \/ WorkerGivesUp \/ WorkerExits

\* A pull is the pipeline's choice; what follows it is this code's.
Pull == NextReturnsReady \/ NextStarts

InNext ==
    \/ NextSeesInterrupt \/ NextPolls \/ NextReceives \/ NextSeesDisconnect
    \/ NextTimesOut

InDrop == DropInterrupts \/ DropJoins

\* The command is over.
Finished == pc \in {"failed", "gone"} /\ UNCHANGED vars

Next ==
    \/ Editor \/ Interrupt \/ Setup \/ Worker
    \/ Pull \/ InNext \/ DropReceiver \/ InDrop \/ Finished

Spec == Init /\ [][Next]_vars

\* Threads are scheduled, and a read of a dead socket returns.  Nothing makes
\* the pipeline pull, or the editor send.
LiveSpec == Spec /\ WF_vars(Worker) /\ WF_vars(InNext) /\ WF_vars(InDrop)

\* What `each` does: it keeps reading.
KeepsPulling == WF_vars(Pull)

(***************************************************************************)
(* Properties.                                                             *)
(***************************************************************************)

\* Every variable stays in its type (the bound of the sync_channel included).
TypeOK ==
    /\ wire \in Seq(WireMessage)
    /\ emitted \in 0..MaxMessages
    /\ answered \in BOOLEAN
    /\ sock \in {"open", "hangup", "shut"}
    /\ fds \subseteq {"client", "interrupt", "overflow"}
    /\ backlog \in Seq(Notification)
    /\ worker \in {"unborn", "read", "send", "shutdown", "release", "overflow",
                   "break", "done"}
    /\ held \in Item
    /\ chan \in Seq(Item) /\ Len(chan) <= Capacity
    /\ rx \in BOOLEAN
    /\ pc \in {"call", "prepare", "failed", "idle", "check", "recv",
               "interrupt", "join", "gone"}
    /\ ready \in BOOLEAN
    /\ items \in Seq(Item)
    /\ ended \in {"no", "interrupt", "error", "closed"}
    /\ signal \in BOOLEAN

\* m may come right after message number n: it is the next message, or none.
Continues(n, m) == m.n = (IF m.k \in Numbered THEN n + 1 ELSE n)

\* s continues message number n without a gap, up to number EndOf(s, n).
Chain(s, n) ==
    /\ s # <<>> => Continues(n, s[1])
    /\ \A i \in 1..(Len(s) - 1) : Continues(s[i].n, s[i + 1])

EndOf(s, n) == IF s = <<>> THEN n ELSE Last(s).n

\* What the pipeline has read is the ready record, then messages 1, 2, 3, ...
\* in the editor's order with none lost or repeated, those that arrived while
\* the installing call was waiting for its response included (the call loop's
\* push_back, next_notification's pop_front, and the channel).
InOrder ==
    /\ items # <<>> => items[1].k = "ready"
    /\ Chain(items, 0)

\* A stream whose iterator ended because the channel was disconnected, with
\* no interruption and no error, had told its reader that the buffer was
\* detached: no other exit of the worker loop goes unreported.
NoSilentEnd ==
    ended = "closed" => items # <<>> /\ Last(items).k = "detach"

\* A record that ends the watch is the last one: the worker breaks on every
\* kind of it, whatever the channel's state was.
NothingAfterTerminal ==
    \A i \in 1..(Len(items) - 1) : items[i].k \notin Terminal

\* An overflow error is reported only to a reader that has been given the
\* whole full channel before it (architecture.md: queued events come first).
OverflowAfterQueue ==
    items # <<>> /\ Last(items).k = "overflow" => Len(items) >= Capacity + 2

\* As soon as the overflow error can be received the editor's channel is
\* closed, although the stream still holds a descriptor until it is dropped.
OverflowClosesConnection ==
    /\ \A i \in 1..Len(chan) : chan[i].k = "overflow" => ~Connected
    /\ \A i \in 1..Len(items) : items[i].k = "overflow" => ~Connected

\* When Drop has returned, nothing of the watch is left behind.
DropLeavesNothing ==
    pc = "gone" => worker = "done" /\ fds = {}

\* Once the pipeline has begun to drop the stream the drop completes, even if
\* the worker is blocked in a read or in the send of the overflow error.
DropCompletes == (pc = "interrupt") ~> (pc = "gone")

\* An interruption ends a pull that is waiting, however quiet the editor is.
InterruptEndsPull ==
    (signal /\ pc \in {"check", "recv"}) ~> (pc = "idle")

\* A reader that keeps reading is told of an overflow, unless it was
\* interrupted or dropped the stream first.
OverflowReported ==
    KeepsPulling => ((worker = "shutdown") ~>
        \/ items # <<>> /\ Last(items).k = "overflow"
        \/ ended = "interrupt"
        \/ ~rx)

\* A reader that keeps reading comes to the end of the stream once the
\* editor has gone.
HangupEndsStream ==
    KeepsPulling => ((sock = "hangup" /\ pc \in {"idle", "check", "recv"}) ~>
        (ended # "no" \/ ~rx))

(***************************************************************************)
(* The inductive invariant: the six properties above are its consequences. *)
(***************************************************************************)
SetupStates == {"call", "prepare", "failed"}
NextStates == {"idle", "check", "recv"}
OverflowStates == {"shutdown", "release", "overflow"}
Answers == {"accept", "refuse"}

\* Where each thread can be relative to the other, and what each owns.
Control ==
    /\ pc \in SetupStates <=> worker = "unborn"
    /\ pc \in SetupStates =>
          rx /\ ready /\ chan = <<>> /\ items = <<>> /\ ended = "no"
    /\ pc \in NextStates => rx
    /\ pc \in {"interrupt", "join", "gone"} => ~rx /\ chan = <<>>
    /\ pc \in {"check", "recv"} => ended = "no" /\ ~ready
    /\ ready <=> items = <<>>
    /\ ready => ended = "no"
    /\ pc = "gone" => worker = "done"

\* There is one response, and the worker never meets it.
OneAnswer ==
    /\ pc \notin {"call", "failed"} => answered
    /\ \A i \in 1..Len(wire) : wire[i].k \in Answers =>
          /\ answered
          /\ pc \in {"call", "failed"}
          /\ \A j \in 1..Len(wire) : wire[j].k \in Answers => i = j

\* The editor's messages are, in order and without a gap, those the pipeline
\* has read, the channel, what the worker holds, the backlog and the wire.
Flow ==
    /\ Chain(items, 0)
    /\ Chain(chan, EndOf(items, 0))
    /\ rx /\ worker \in {"unborn", "read"} =>
          held.n = EndOf(chan, EndOf(items, 0))
    /\ rx /\ worker \in {"send"} \cup OverflowStates =>
          Continues(EndOf(chan, EndOf(items, 0)), held)
    /\ Chain(backlog, held.n)
    /\ Chain(wire, EndOf(backlog, held.n))
    /\ emitted = EndOf(wire, EndOf(backlog, held.n))

\* No item is numbered beyond what the editor has sent.
Sent ==
    /\ held.n <= emitted
    /\ \A i \in 1..Len(wire) : wire[i].n <= emitted
    /\ \A i \in 1..Len(backlog) : backlog[i].n <= emitted
    /\ \A i \in 1..Len(chan) : chan[i].n <= emitted

\* The ready record is first and never again.
ReadyFirst ==
    /\ items # <<>> => items[1].k = "ready"
    /\ worker = "send" => held.k # "ready"
    /\ \A i \in 1..Len(chan) : chan[i].k # "ready"

\* What the worker has sent ends in a terminal item exactly when it has
\* stopped, and an error the pipeline has read has ended the stream.
Ending ==
    /\ \A i \in 1..(Len(items) - 1) : items[i].k \notin Terminal
    /\ \A i \in 1..(Len(chan) - 1) : chan[i].k \notin Terminal
    /\ chan # <<>> /\ items # <<>> => Last(items).k \notin Terminal
    /\ rx /\ worker \notin {"break", "done"} =>
          /\ items # <<>> => Last(items).k \notin Terminal
          /\ chan # <<>> => Last(chan).k \notin Terminal
    /\ rx /\ worker \in {"break", "done"} =>
          /\ chan # <<>> => Last(chan).k \in Terminal
          /\ chan = <<>> => items # <<>> /\ Last(items).k \in Terminal
    /\ items # <<>> /\ Last(items).k \in Errors => ended = "error"

\* Items the consumer has been given or can be given, the ready record too.
Available == Len(items) + Len(chan) + (IF ready THEN 1 ELSE 0)

\* An overflow starts on a full channel and is only sent on a closed socket.
Overflowing ==
    /\ worker = "send" => held.k # "overflow"
    /\ rx /\ worker \in OverflowStates => Available >= Capacity + 1
    /\ worker \in {"release", "overflow"} => sock # "open"
    /\ \A i \in 1..Len(chan) : chan[i].k = "overflow" =>
          /\ sock # "open"
          /\ Available >= Capacity + 2
          /\ ~ready
    /\ \A i \in 1..Len(items) : items[i].k = "overflow" =>
          /\ sock # "open"
          /\ Len(items) >= Capacity + 2

\* Who still holds a descriptor.
Descriptors ==
    /\ pc \in {"call", "prepare"} => fds # {}
    /\ pc = "failed" => fds = {}
    /\ pc \in {"join", "gone"} => "interrupt" \notin fds /\ sock # "open"
    /\ worker = "done" => fds \subseteq {"interrupt"}

\* The inductive invariant of the proofs, in its independent parts.
IInv ==
    /\ TypeOK
    /\ Control
    /\ OneAnswer
    /\ Flow
    /\ Sent
    /\ ReadyFirst
    /\ Ending
    /\ Overflowing
    /\ Descriptors
    /\ NoSilentEnd

(***************************************************************************)
(* WatchStream implements EventFeed.                                       *)
(***************************************************************************)
StatusOfFeed ==
    CASE pc \in {"call", "prepare"} -> "opening"
      [] pc = "failed" -> "failed"
      [] pc \in {"interrupt", "join"} -> "closing"
      [] pc = "gone" -> "closed"
      [] OTHER -> IF ended = "no" THEN "open" ELSE "ended"

Feed == INSTANCE EventFeed
    WITH seen <- items, status <- StatusOfFeed, link <- Connected

\* The watch keeps the promise of EventFeed: each of its steps is a step of
\* the abstract feed or changes nothing the feed can see.
ImplementsFeed == Feed!FeedSpec

=============================================================================
