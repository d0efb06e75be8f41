------------------------------ MODULE RpcClient ------------------------------
(***************************************************************************)
(* The transport of nuvim-protocol, rpc.rs: connecting within a timeout    *)
(* with the help of a worker thread that may be left behind, and calls on  *)
(* one connection, with their request identifiers, the notifications that  *)
(* arrive in between and answers that come too late.                       *)
(*                                                                         *)
(* The client is used by one thread.  The commands of the plugin drop it   *)
(* at its first error; RpcClient leaves that to its caller, and so does    *)
(* the model.  Streaming (prepare_notifications) is in WatchStream.        *)
(*                                                                         *)
(* A message is its kind and what it answers or its number; method names,  *)
(* arguments and payloads are left out.  The rest of a message that a      *)
(* timeout has cut in two is taken to be no message.                       *)
(***************************************************************************)
EXTENDS Naturals, Sequences, Functions

CONSTANTS
    Timeout,   \* the time connect and each read may take
    MaxId,     \* the greatest request identifier, u64::MAX
    MaxCalls,  \* bound of the model on the calls made
    MaxNotes   \* bound of the model on the notifications sent

ASSUME RpcAssumption ==
    /\ Timeout \in Nat \ {0}
    /\ MaxId \in Nat \ {0}
    /\ MaxCalls \in Nat
    /\ MaxNotes \in Nat

VARIABLES
    pc,        \* what the client's thread does
    elapsed,   \* time since connect began
    deadline,  \* when the wait for a connection or an address ends
    worker,    \* the thread of run_io_with_timeout, and what it waits for
    slot,      \* its sync_channel(1): "empty" or the result of the operation
    socket,    \* who holds the descriptor of the connection
    nextId,    \* RpcClient.next_id
    stash,     \* RpcClient.notifications
    current,   \* the request a call waits for
    calls,     \* calls made so far
    asked,     \* requests the editor has and has not answered
    incoming,  \* messages sent by the editor and not read
    hungUp,    \* has the editor closed the connection?
    garbled,   \* has a request been written in part?
    notes,     \* messages sent by the editor of its own accord
    popped,    \* history: notifications the client's owner was given
    lost,      \* history: notifications no client could have read
    last       \* history: the last call, and the call its result is of

connectVars == <<elapsed, deadline, worker, slot>>
editorVars == <<asked, hungUp, notes>>
callVars == <<nextId, current, calls, garbled, last>>
noteVars == <<stash, popped, lost>>
vars == <<pc, connectVars, socket, editorVars, callVars, noteVars, incoming>>

Response(request, ok) ==
    [kind |-> "response", num |-> request.id, call |-> request.call, ok |-> ok]
Notification(n) == [kind |-> "notification", num |-> n, call |-> 0, ok |-> TRUE]
\* Anything parse_message refuses.
Malformed == [kind |-> "malformed", num |-> 0, call |-> 0, ok |-> FALSE]

(***************************************************************************)
(* Connecting.                                                             *)
(***************************************************************************)
Connecting == pc \in {"dialing", "resolving", "resolved", "connecting"}

\* A Unix socket is connected, and a TCP address resolved, by a worker; its
\* thread may also fail to start.
Starts ==
    /\ pc = "start"
    /\ pc' \in {"dialing", "resolving", "failed"}
    /\ worker' = IF pc' = "failed" THEN "none" ELSE pc'
    /\ deadline' = Timeout
    /\ UNCHANGED <<elapsed, slot, socket, editorVars, callVars, noteVars, incoming>>

\* Time passes in a wait that is not over.  It may also pass, a little over
\* the limit, between a resolution and the connection.
TimePasses ==
    /\ pc \in {"dialing", "resolving", "connecting"} => elapsed < deadline
    /\ pc = "resolved" => elapsed <= Timeout
    /\ Connecting
    /\ elapsed' = elapsed + 1
    /\ UNCHANGED <<pc, deadline, worker, slot, socket, editorVars, callVars, noteVars, incoming>>

Results == {"connected", "addresses", "no addresses", "error"}

\* connect(2) or getaddrinfo(3) returns, which it may never do.
WorkerFinishes ==
    /\ \/ worker = "dialing" /\ worker' \in {"connected", "error"}
       \/ worker = "resolving" /\ worker' \in {"addresses", "no addresses", "error"}
    /\ socket' = IF worker' = "connected" THEN "worker" ELSE socket
    /\ UNCHANGED <<pc, elapsed, deadline, slot, editorVars, callVars, noteVars, incoming>>

\* send: without a receiver the result is dropped, and a socket with it.
WorkerSends ==
    /\ worker \in Results
    /\ worker' = "gone"
    /\ IF pc \in {"dialing", "resolving"}
       THEN slot' = worker /\ socket' = IF socket = "worker" THEN "slot" ELSE socket
       ELSE slot' = slot /\ socket' = IF socket = "worker" THEN "closed" ELSE socket
    /\ UNCHANGED <<pc, elapsed, deadline, editorVars, callVars, noteVars, incoming>>

\* The result is there in time.  Setting the socket's timeouts may fail.
Receives ==
    /\ pc \in {"dialing", "resolving"}
    /\ slot # "empty"
    /\ slot' = "empty"
    /\ CASE slot = "connected" ->
              \/ pc' = "idle" /\ socket' = "client"
              \/ pc' = "failed" /\ socket' = "closed"
         [] slot = "addresses" -> pc' = "resolved" /\ socket' = socket
         [] OTHER -> pc' = "failed" /\ socket' = socket
    /\ UNCHANGED <<elapsed, deadline, worker, editorVars, callVars, noteVars, incoming>>

\* Mutant: the channel outlives the wait, and a late connection with it.
GivesUpAndKeepsChannel ==
    /\ pc \in {"dialing", "resolving"}
    /\ elapsed = deadline
    /\ pc' = "failed"
    /\ UNCHANGED <<connectVars, socket, editorVars, callVars, noteVars, incoming>>

\* recv_timeout; the receiver is dropped with what is in the channel.
GivesUp ==
    /\ pc \in {"dialing", "resolving"}
    /\ elapsed = deadline
    /\ pc' = "failed"
    /\ slot' = "empty"
    /\ socket' = IF socket = "slot" THEN "closed" ELSE socket
    /\ UNCHANGED <<elapsed, deadline, worker, editorVars, callVars, noteVars, incoming>>

\* Mutant: the connection gets the whole time once more.
ConnectsAfresh ==
    /\ pc = "resolved"
    /\ pc' = "connecting"
    /\ deadline' = elapsed + Timeout
    /\ UNCHANGED <<elapsed, worker, slot, socket, editorVars, callVars, noteVars, incoming>>

\* What is left of the time; none, or none but zero, is an error.
Connects ==
    /\ pc = "resolved"
    /\ IF elapsed >= Timeout
       THEN pc' = "failed" /\ deadline' = deadline
       ELSE pc' = "connecting" /\ deadline' = elapsed + (Timeout - elapsed)
    /\ UNCHANGED <<elapsed, worker, slot, socket, editorVars, callVars, noteVars, incoming>>

\* connect_timeout, and the configuration of the socket.
Connected ==
    /\ pc = "connecting"
    /\ \/ pc' = "idle" /\ socket' = "client"
       \/ pc' = "failed" /\ socket' = "closed"
    /\ UNCHANGED <<connectVars, editorVars, callVars, noteVars, incoming>>

(***************************************************************************)
(* The editor.  It answers in any order: some functions do not wait for    *)
(* the request before them.                                                *)
(***************************************************************************)
EditorActs == socket = "client" /\ ~hungUp

Answers(request, ok) ==
    /\ EditorActs
    /\ request \in asked
    /\ asked' = asked \ {request}
    /\ incoming' = Append(incoming, Response(request, ok))
    /\ UNCHANGED <<pc, connectVars, socket, hungUp, notes, callVars, noteVars>>

Notifies ==
    /\ EditorActs
    /\ notes < MaxNotes
    /\ notes' = notes + 1
    /\ incoming' = Append(incoming, Notification(notes'))
    /\ UNCHANGED <<pc, connectVars, socket, asked, hungUp, callVars, noteVars>>

\* rpcrequest: no request is ever taken, so this is one more malformed message.
Requests ==
    /\ EditorActs
    /\ notes < MaxNotes
    /\ notes' = notes + 1
    /\ lost' = lost \cup {notes'}
    /\ incoming' = Append(incoming, Malformed)
    /\ UNCHANGED <<pc, connectVars, socket, asked, hungUp, callVars, stash, popped>>

NotesIn(messages) ==
    {m.num : m \in {n \in Range(messages) : n.kind = "notification"}}

\* What the client has not read may be discarded.
HangsUp ==
    /\ EditorActs
    /\ hungUp' = TRUE
    /\ \E k \in 0..Len(incoming) :
          /\ incoming' = SubSeq(incoming, 1, k)
          /\ lost' = lost \cup NotesIn(SubSeq(incoming, k + 1, Len(incoming)))
    /\ UNCHANGED <<pc, connectVars, socket, asked, notes, callVars, stash, popped>>

(***************************************************************************)
(* Calls.                                                                  *)
(***************************************************************************)
NoRequest == [id |-> 0, call |-> 0]

\* Call n, or next_notification after it, returns an error; the client can be
\* used again.
Errs(n) ==
    /\ pc' = "idle"
    /\ calls' = n
    /\ last' = [call |-> n, from |-> 0]
    /\ current' = NoRequest

\* Writing a request; next is the identifier of the one after it.
Asks(next) ==
    /\ pc = "idle"
    /\ calls < MaxCalls
    /\ calls' = calls + 1
    /\ nextId' = next
    /\ pc' = "reading"
    /\ current' = [id |-> nextId, call |-> calls']
    /\ asked' = IF hungUp \/ garbled THEN asked ELSE asked \cup {current'}
    /\ UNCHANGED <<connectVars, socket, hungUp, notes, garbled, last, noteVars, incoming>>

\* Mutant: identifiers start again at 1.
CallsWrapping == Asks(IF nextId = MaxId THEN 1 ELSE nextId + 1)

\* A fresh identifier for every call, as long as there is one.
Calls == nextId < MaxId /\ Asks(nextId + 1)

\* checked_add fails before anything is written.
CallOverflows ==
    /\ pc = "idle"
    /\ calls < MaxCalls
    /\ nextId = MaxId
    /\ Errs(calls + 1)
    /\ UNCHANGED <<connectVars, socket, editorVars, nextId, garbled, noteVars, incoming>>

\* Encode or flush fails, with none of the request written or a part of it.
CallNotWritten ==
    /\ pc = "idle"
    /\ calls < MaxCalls
    /\ nextId < MaxId
    /\ nextId' = nextId + 1
    /\ Errs(calls + 1)
    /\ garbled' \in {garbled, TRUE}
    /\ UNCHANGED <<connectVars, socket, editorVars, noteVars, incoming>>

ReadsMessage(kind) ==
    /\ incoming # <<>>
    /\ Head(incoming).kind = kind
    /\ incoming' = Tail(incoming)

\* Mutant: a notification that arrives during a call is passed over.
CallPassesOver ==
    /\ pc = "reading"
    /\ ReadsMessage("notification")
    /\ UNCHANGED <<pc, connectVars, socket, editorVars, callVars, noteVars>>

CallStashes ==
    /\ pc = "reading"
    /\ ReadsMessage("notification")
    /\ stash' = Append(stash, Head(incoming).num)
    /\ UNCHANGED <<pc, connectVars, socket, editorVars, callVars, popped, lost>>

\* A response ends the call, as its answer if it is accepted.
Ends(accepted) ==
    /\ pc = "reading"
    /\ ReadsMessage("response")
    /\ IF accepted
       THEN /\ pc' = "idle"
            /\ last' = [call |-> calls, from |-> Head(incoming).call]
            /\ current' = NoRequest
            /\ calls' = calls
       ELSE Errs(calls)
    /\ UNCHANGED <<connectVars, socket, editorVars, nextId, garbled, noteVars>>

\* Mutant: the first response is the answer.
CallTakesAny == Ends(Head(incoming).ok)

\* The answer to this request, or an error if it is one to another request or
\* the editor's own error.
CallReturns == Ends(Head(incoming).num = current.id /\ Head(incoming).ok)

\* next_notification: what has been kept comes first.
Pops ==
    /\ pc = "idle"
    /\ stash # <<>>
    /\ popped' = Append(popped, Head(stash))
    /\ stash' = Tail(stash)
    /\ UNCHANGED <<pc, connectVars, socket, editorVars, callVars, lost, incoming>>

Listens ==
    /\ pc = "idle"
    /\ stash = <<>>
    /\ pc' = "listening"
    /\ UNCHANGED <<connectVars, socket, editorVars, callVars, noteVars, incoming>>

Hears ==
    /\ pc = "listening"
    /\ ReadsMessage("notification")
    /\ pc' = "idle"
    /\ popped' = Append(popped, Head(incoming).num)
    /\ UNCHANGED <<connectVars, socket, editorVars, callVars, stash, lost>>

\* A message that is refused, or a response while listening.
ReadFails ==
    /\ \/ pc \in {"reading", "listening"} /\ ReadsMessage("malformed")
       \/ pc = "listening" /\ ReadsMessage("response")
    /\ Errs(calls)
    /\ UNCHANGED <<connectVars, socket, editorVars, nextId, garbled, noteVars>>

MeetsEof ==
    /\ pc \in {"reading", "listening"}
    /\ hungUp
    /\ incoming = <<>>
    /\ Errs(calls)
    /\ UNCHANGED <<connectVars, socket, editorVars, nextId, garbled, noteVars, incoming>>

\* No byte within the timeout of a read, before a message or inside it.  What
\* is left of a message cut in two is read later, as one value or several.
TimesOut ==
    /\ Errs(calls)
    /\ \/ incoming' = incoming /\ lost' = lost
       \/ /\ incoming # <<>>
          /\ incoming' \in {<<Malformed>> \o Tail(incoming),
                            <<Malformed, Malformed>> \o Tail(incoming)}
          /\ Head(incoming) # Malformed
          /\ lost' = lost \cup NotesIn(<<Head(incoming)>>)
    /\ UNCHANGED <<connectVars, socket, editorVars, nextId, garbled, stash, popped>>

\* Mutant: a call reads without a timeout.
ReadTimesOutListening == pc = "listening" /\ TimesOut

ReadTimesOut == pc \in {"reading", "listening"} /\ TimesOut

Drops ==
    /\ pc = "idle"
    /\ pc' = "dropped"
    /\ socket' = "closed"
    /\ UNCHANGED <<connectVars, editorVars, callVars, noteVars, incoming>>

(***************************************************************************)
(* The specification.                                                      *)
(***************************************************************************)
Init ==
    /\ pc = "start"
    /\ elapsed = 0 /\ deadline = 0
    /\ worker = "none" /\ slot = "empty" /\ socket = "none"
    /\ nextId = 1 /\ current = NoRequest /\ calls = 0 /\ garbled = FALSE
    /\ asked = {} /\ incoming = <<>> /\ hungUp = FALSE /\ notes = 0
    /\ stash = <<>> /\ popped = <<>> /\ lost = {}
    /\ last = [call |-> 0, from |-> 0]

Worker == WorkerFinishes \/ WorkerSends

Connect ==
    \/ Starts \/ TimePasses \/ Receives \/ GivesUp \/ Connects \/ Connected

Read == CallStashes \/ CallReturns \/ Hears \/ ReadFails \/ MeetsEof \/ ReadTimesOut

Use == Calls \/ CallOverflows \/ CallNotWritten \/ Pops \/ Listens \/ Drops

Editor ==
    \/ \E request \in asked, ok \in BOOLEAN : Answers(request, ok)
    \/ Notifies \/ Requests \/ HangsUp

Next == Worker \/ Connect \/ Read \/ Use \/ Editor

Spec == Init /\ [][Next]_vars

\* Time passes, system calls return, and the client's thread goes on once it
\* has begun to connect or to read.
LiveSpec == Spec /\ WF_vars(Worker) /\ WF_vars(Connect) /\ WF_vars(Read)

(***************************************************************************)
(* Safety.                                                                 *)
(***************************************************************************)
Asked == [id : Nat, call : Nat]
Messages == [kind : {"response", "notification", "malformed"}, num : Nat,
             call : Nat, ok : BOOLEAN]

\* Every variable has its type.
TypeOK ==
    /\ pc \in {"start", "dialing", "resolving", "resolved", "connecting",
               "idle", "reading", "listening", "failed", "dropped"}
    /\ elapsed \in Nat /\ deadline \in Nat
    /\ worker \in {"none", "dialing", "resolving", "gone"} \cup Results
    /\ slot \in {"empty"} \cup Results
    /\ socket \in {"none", "worker", "slot", "client", "closed"}
    /\ nextId \in 1..MaxId
    /\ current \in Asked
    /\ calls \in 0..MaxCalls
    /\ asked \in SUBSET Asked
    /\ incoming \in Seq(Messages)
    /\ hungUp \in BOOLEAN /\ garbled \in BOOLEAN
    /\ notes \in 0..MaxNotes
    /\ stash \in Seq(Nat) /\ popped \in Seq(Nat)
    /\ lost \subseteq Nat
    /\ last \in [call : Nat, from : Nat]

\* Connecting takes no longer than its timeout although it waits twice for a
\* TCP address, once for the name and once for the connection
\* (connect_with_timeout).
ConnectIsBounded ==
    pc \in {"dialing", "resolving", "connecting"} => elapsed <= Timeout

\* What a call returns is the editor's answer to that very call, whatever
\* answers to earlier calls that timed out are still to come and however many
\* calls there have been (call).
AnswersThisCall == last.from \in {0, last.call}

\* The requests these messages answer.
RequestsIn(messages) ==
    {[id |-> r.num, call |-> r.call] : r \in {m \in Range(messages) : m.kind = "response"}}

\* The requests an answer may still come to: not answered, answered and not
\* read, or waited for.
Outstanding ==
    asked \cup RequestsIn(incoming) \cup (IF pc = "reading" THEN {current} ELSE {})

\* No two of them have the same identifier, up to the last one there is, where
\* calls fail instead (next_id.checked_add).
IdentifiersDiffer ==
    \A r, s \in Outstanding : r.id = s.id => r.call = s.call

\* Notifications the client has been told of, in order.
Told == popped \o stash

Rising(numbers) ==
    \A i, j \in DOMAIN numbers : i < j => numbers[i] < numbers[j]

\* The notifications among these messages are in the order they were sent.
InOrder(messages) ==
    \A i, j \in DOMAIN messages :
        /\ i < j
        /\ messages[i].kind = "notification"
        /\ messages[j].kind = "notification"
        => messages[i].num < messages[j].num

\* Notifications reach their reader once each and in the order they were sent,
\* those included that arrive during calls and those still to be read, however
\* the calls end; and none is missing but what a timeout cut in two or a hangup
\* took away (call, pop_notification, next_notification).
NotesAreKept ==
    /\ Rising(Told)
    /\ \A m \in Range(Told), n \in NotesIn(incoming) : m < n
    /\ InOrder(incoming)
    /\ 1..notes \subseteq lost \cup Range(Told) \cup NotesIn(incoming)

(***************************************************************************)
(* Liveness, under LiveSpec.                                               *)
(***************************************************************************)

\* connect, call and next_notification return, if the editor does not go on
\* sending for ever: their time limit is one of each read (the bound MaxNotes
\* is what makes the editor stop).
EachReturns ==
    Connecting \/ pc \in {"reading", "listening"}
        ~> pc \in {"idle", "failed", "dropped"}

\* A connection given up leaves nothing behind, neither the thread that makes it
\* nor a descriptor, also when it is made after all, at whatever moment
\* (run_io_with_timeout).
LateConnectionCloses ==
    pc = "failed" ~> worker \in {"none", "gone"} /\ socket \in {"none", "closed"}
=============================================================================
