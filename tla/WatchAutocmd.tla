---------------------------- MODULE WatchAutocmd ----------------------------
(***************************************************************************)
(* The editor's half of `nuvim watch save` and `nuvim watch diagnostics`:  *)
(* what watch.lua leaves behind in Neovim (an augroup and a timer), and    *)
(* when it is taken away again.  WatchStream is the other half.            *)
(*                                                                         *)
(* Each watch has a client, and so a channel, of its own.  The editor runs *)
(* one callback at a time.  The timer's callback is put off with           *)
(* vim.schedule_wrap, and may be due several times or after the timer has  *)
(* been closed.  The contents of events are left out.                      *)
(***************************************************************************)
EXTENDS Naturals, Sequences

CONSTANTS
    Watches,      \* the watches of any number of pipelines
    Buffers,      \* buffer handles
    Events,       \* "BufWritePost" and "DiagnosticChanged"
    MaxEvents,    \* bound of the model on the events
    MaxDue        \* bound of the model on the callbacks waiting

ASSUME WatchesAssumption == MaxEvents \in Nat /\ MaxDue \in Nat \ {0}

VARIABLES
    buffers,  \* "loaded", "unloaded" or "wiped"
    left,     \* events left
    args,     \* buffer and event of each watch
    client,   \* "idle", "connected" or "gone", in the plugin
    chan,     \* "none", "open" or "closed", as the editor sees it
    request,  \* the call of nvim_exec_lua: "none", "queued", "ran", "refused"
              \* or "discarded"
    group,    \* are the autocmds of the watch there?
    timer,    \* "none", "running" or "closed"
    closed,   \* the local of the same name
    due,      \* scheduled callbacks of the timer that have not run
    sent,     \* history: what was sent on the channel
    raised    \* history: has a closed timer been stopped or closed?

callVars == <<args, client, chan, request>>
leftBehind == <<group, timer, closed, raised>>
vars == <<buffers, left, callVars, leftBehind, due, sent>>

(***************************************************************************)
(* watch.lua                                                               *)
(***************************************************************************)

\* Mutant: cleanup() does not look at the flag.
CleansUpAgain(S) ==
    /\ closed' = [w \in Watches |-> closed[w] \/ w \in S]
    /\ timer' = [w \in Watches |-> IF w \in S THEN "closed" ELSE timer[w]]
    /\ group' = [w \in Watches |-> group[w] /\ w \notin S]
    /\ raised' = (raised \/ \E w \in S : timer[w] = "closed")

\* cleanup() of the watches in S; a second call does nothing.
CleansUp(S) ==
    LET open == {w \in S : ~closed[w]} IN
    /\ closed' = [w \in Watches |-> closed[w] \/ w \in S]
    /\ timer' = [w \in Watches |-> IF w \in open THEN "closed" ELSE timer[w]]
    /\ group' = [w \in Watches |-> group[w] /\ w \notin open]
    /\ raised' = (raised \/ \E w \in open : timer[w] = "closed")

\* vim.rpcnotify for the watches in S: what reaches an open channel.
Sends(S, what) ==
    sent' = [w \in Watches |-> IF w \in S /\ chan[w] = "open"
                               THEN Append(sent[w], what) ELSE sent[w]]

\* notify() of the watches in S.  vim.rpcnotify raises an error if the channel is
\* closed and returns no value if it is not, so that `not ok or not sent` is true
\* either way and cleanup() always follows.
Notifies(S, what) == Sends(S, what) /\ CleansUp(S)

\* The chunk itself: refused, or an augroup, two autocmds and a timer.
Installs(w) ==
    /\ request[w] = "queued"
    /\ IF buffers[args[w].buffer] = "loaded"
       THEN /\ request' = [request EXCEPT ![w] = "ran"]
            /\ group' = [group EXCEPT ![w] = TRUE]
            /\ timer' = [timer EXCEPT ![w] = "running"]
       ELSE /\ request' = [request EXCEPT ![w] = "refused"]
            /\ UNCHANGED <<group, timer>>
    /\ UNCHANGED <<buffers, left, args, client, chan, closed, raised, due, sent>>

\* The autocmd of `event`: a save, or new diagnostics, of a buffer.
Happens(b, event) ==
    LET S == {w \in Watches : group[w] /\ args[w].buffer = b /\ args[w].event = event} IN
    /\ buffers[b] = "loaded"
    /\ left > 0
    /\ left' = left - 1
    /\ Notifies(S, "event")
    /\ UNCHANGED <<buffers, callVars, due>>

\* Mutant: the channel is closed before the pipeline is told.
WipesSilently(b) ==
    LET S == {w \in Watches : group[w] /\ args[w].buffer = b} IN
    /\ buffers[b] # "wiped"
    /\ buffers' = [buffers EXCEPT ![b] = "wiped"]
    /\ CleansUp(S)
    /\ chan' = [w \in Watches |-> IF w \in S THEN "closed" ELSE chan[w]]
    /\ UNCHANGED <<left, args, client, request, due, sent>>

\* Mutant: BufWipeout does not close the channel.
WipesAndStays(b) ==
    LET S == {w \in Watches : group[w] /\ args[w].buffer = b} IN
    /\ buffers[b] # "wiped"
    /\ buffers' = [buffers EXCEPT ![b] = "wiped"]
    /\ Notifies(S, "detach")
    /\ UNCHANGED <<left, callVars, due>>

\* BufWipeout: notify, cleanup, of which the second does nothing, and chanclose.
Wipes(b) ==
    LET S == {w \in Watches : group[w] /\ args[w].buffer = b} IN
    /\ buffers[b] # "wiped"
    /\ buffers' = [buffers EXCEPT ![b] = "wiped"]
    /\ Notifies(S, "detach")
    /\ chan' = [w \in Watches |-> IF w \in S THEN "closed" ELSE chan[w]]
    /\ UNCHANGED <<left, args, client, request, due>>

\* Mutant: the timer runs once (timer:start(250, 0)).
TimerFiresOnce(w) ==
    /\ timer[w] = "running"
    /\ due[w] < MaxDue
    /\ due' = [due EXCEPT ![w] = @ + 1]
    /\ timer' = [timer EXCEPT ![w] = "spent"]
    /\ UNCHANGED <<buffers, left, callVars, group, closed, raised, sent>>

\* Every 250 ms, also while the editor is busy with something else.
TimerFires(w) ==
    /\ timer[w] = "running"
    /\ due[w] < MaxDue
    /\ due' = [due EXCEPT ![w] = @ + 1]
    /\ UNCHANGED <<buffers, left, callVars, leftBehind, sent>>

\* Mutant: the timer's callback does not ask for the channel.
RunsDueBlindly(w) ==
    /\ due[w] > 0
    /\ due' = [due EXCEPT ![w] = @ - 1]
    /\ CleansUp({w})
    /\ UNCHANGED <<buffers, left, callVars, sent>>

RunsDue(w) ==
    /\ due[w] > 0
    /\ due' = [due EXCEPT ![w] = @ - 1]
    /\ CleansUp({v \in {w} : chan[v] # "open"})
    /\ UNCHANGED <<buffers, left, callVars, sent>>

(***************************************************************************)
(* The plugin's end, and the rest of the editor.                           *)
(***************************************************************************)

\* connect, and the call of nvim_exec_lua
Asks(w) ==
    /\ client[w] = "idle"
    /\ client' = [client EXCEPT ![w] = "connected"]
    /\ chan' = [chan EXCEPT ![w] = "open"]
    /\ request' = [request EXCEPT ![w] = "queued"]
    /\ UNCHANGED <<buffers, left, args, leftBehind, due, sent>>

\* The call fails or times out, the stream is dropped or ends: the client is
\* dropped, at any time.
Leaves(w) ==
    /\ client[w] = "connected"
    /\ client' = [client EXCEPT ![w] = "gone"]
    /\ UNCHANGED <<buffers, left, args, chan, request, leftBehind, due, sent>>

\* The editor reads the end of the socket.
Notices(w) ==
    /\ client[w] = "gone"
    /\ chan[w] = "open"
    /\ chan' = [chan EXCEPT ![w] = "closed"]
    /\ UNCHANGED <<buffers, left, args, client, request, leftBehind, due, sent>>

\* A request that is still queued when its channel closes is run or not.
Discards(w) ==
    /\ request[w] = "queued"
    /\ chan[w] = "closed"
    /\ request' = [request EXCEPT ![w] = "discarded"]
    /\ UNCHANGED <<buffers, left, args, client, chan, leftBehind, due, sent>>

Loads(b) ==
    /\ buffers[b] = "unloaded"
    /\ buffers' = [buffers EXCEPT ![b] = "loaded"]
    /\ UNCHANGED <<left, callVars, leftBehind, due, sent>>

Unloads(b) ==
    /\ buffers[b] = "loaded"
    /\ buffers' = [buffers EXCEPT ![b] = "unloaded"]
    /\ UNCHANGED <<left, callVars, leftBehind, due, sent>>

(***************************************************************************)
(* The specification.                                                      *)
(***************************************************************************)
Init ==
    /\ buffers \in [Buffers -> {"loaded", "unloaded"}]
    /\ left = MaxEvents
    /\ args \in [Watches -> [buffer : Buffers, event : Events]]
    /\ client = [w \in Watches |-> "idle"]
    /\ chan = [w \in Watches |-> "none"]
    /\ request = [w \in Watches |-> "none"]
    /\ group = [w \in Watches |-> FALSE]
    /\ timer = [w \in Watches |-> "none"]
    /\ closed = [w \in Watches |-> FALSE]
    /\ due = [w \in Watches |-> 0]
    /\ sent = [w \in Watches |-> <<>>]
    /\ raised = FALSE

User ==
    \E b \in Buffers :
        Loads(b) \/ Unloads(b) \/ Wipes(b) \/ \E event \in Events : Happens(b, event)

Loop(w) ==
    \/ Installs(w) \/ Discards(w) \/ Notices(w) \/ TimerFires(w) \/ RunsDue(w)

Next == User \/ \E w \in Watches : Asks(w) \/ Leaves(w) \/ Loop(w)

Spec == Init /\ [][Next]_vars

\* The editor's loop goes on: it notices a closed socket, its timers fire and
\* what is scheduled runs.
LiveSpec ==
    /\ Spec
    /\ \A w \in Watches : /\ WF_vars(Installs(w) \/ Discards(w)) /\ WF_vars(Notices(w))
                          /\ WF_vars(TimerFires(w)) /\ WF_vars(RunsDue(w))

(***************************************************************************)
(* Safety.                                                                 *)
(***************************************************************************)
Messages == {"event", "detach"}

\* Every variable has its type, and no callback of a watch is due before its
\* chunk has run.
TypeOK ==
    /\ buffers \in [Buffers -> {"loaded", "unloaded", "wiped"}]
    /\ left \in 0..MaxEvents
    /\ args \in [Watches -> [buffer : Buffers, event : Events]]
    /\ client \in [Watches -> {"idle", "connected", "gone"}]
    /\ chan \in [Watches -> {"none", "open", "closed"}]
    /\ request \in [Watches -> {"none", "queued", "ran", "refused", "discarded"}]
    /\ group \in [Watches -> BOOLEAN]
    /\ timer \in [Watches -> {"none", "running", "closed"}]
    /\ closed \in [Watches -> BOOLEAN]
    /\ due \in [Watches -> 0..MaxDue]
    /\ sent \in [Watches -> Seq(Messages)]
    /\ raised \in BOOLEAN
    /\ \A w \in Watches : due[w] > 0 => timer[w] # "none"

\* No callback touches a timer that has been closed, in whatever order the
\* autocmds, the wipeout and the callbacks still due come.
TimerClosedOnce == ~raised

\* Neither the timer nor anything else takes a watch away while its channel is
\* open and nothing has been sent on it, whichever clients come and go.
KeptUntilHeard ==
    \A w \in Watches :
        (request[w] = "ran" /\ chan[w] = "open" /\ sent[w] = <<>>) => group[w]

\* docs/automation.md: the autocmds are removed after detecting a closed channel,
\* so a watch whose channel is open has them.  Violated: notify() takes them away
\* after the first event, and the client waits for more that never come.
KeptWhileOpen ==
    \A w \in Watches : (request[w] = "ran" /\ chan[w] = "open") => group[w]

\* The editor hangs up on a client only after it has told it that the buffer
\* has been wiped, and sends nothing after that.
DetachThenClose ==
    \A w \in Watches :
        /\ (chan[w] = "closed" /\ client[w] = "connected")
               => sent[w] # <<>> /\ sent[w][Len(sent[w])] = "detach"
        /\ \A i \in 1..Len(sent[w]) :
               sent[w][i] = "detach" => i = Len(sent[w]) /\ chan[w] = "closed"

\* The wiping of a buffer ends every watch of it that has sent no event before:
\* the detach is all it sends and its channel is closed, or its client has gone.
\* After an event nothing of the watch is left to see the wiping, see KeptWhileOpen.
WipeEndsUnheard ==
    \A w \in Watches :
        (/\ request[w] = "ran"
         /\ buffers[args[w].buffer] = "wiped"
         /\ \A i \in 1..Len(sent[w]) : sent[w][i] # "event")
            => client[w] = "gone" \/ (sent[w] = <<"detach">> /\ chan[w] = "closed")

(***************************************************************************)
(* Liveness, under LiveSpec.                                               *)
(***************************************************************************)

\* Whenever a client is gone, its augroup and its timer go too, also if the
\* chunk was still to run when it left (docs/automation.md: an editor timer
\* removes the autocmds after detecting a closed channel).
NothingStays ==
    \A w \in Watches :
        client[w] = "gone" ~> [](~group[w] /\ timer[w] # "running")

(***************************************************************************)
(* The inductive invariant.                                                *)
(***************************************************************************)

\* What a watch has left behind goes together.
Together(w) ==
    /\ group[w] <=> timer[w] = "running"
    /\ closed[w] <=> timer[w] = "closed"
    /\ timer[w] # "none" <=> request[w] = "ran"
    /\ group[w] => buffers[args[w].buffer] # "wiped"

\* The channel and what is known of it.
Channel(w) ==
    /\ chan[w] = "none" <=> client[w] = "idle"
    /\ client[w] = "idle" <=> request[w] = "none"
    /\ client[w] # "gone" => (chan[w] = "closed" => closed[w])
    /\ (closed[w] /\ sent[w] = <<>>) => chan[w] = "closed"

WatchInv(w) == Together(w) /\ Channel(w)

IInv ==
    /\ TypeOK /\ TimerClosedOnce /\ KeptUntilHeard /\ DetachThenClose /\ WipeEndsUnheard
    /\ \A w \in Watches : WatchInv(w)

=============================================================================
