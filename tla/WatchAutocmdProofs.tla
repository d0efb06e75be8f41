------------------------- MODULE WatchAutocmdProofs -------------------------
(***************************************************************************)
(* The safety properties of WatchAutocmd, for any number of watches,       *)
(* buffers and events.                                                     *)
(*                                                                         *)
(* Core is what each step needs of the state before it; KeptUntilHeard and *)
(* WipeEndsUnheard follow from it, and the inductive invariant is both.    *)
(***************************************************************************)
EXTENDS WatchAutocmd, TLAPS

Typed ==
    /\ buffers \in [Buffers -> {"loaded", "unloaded", "wiped"}]
    /\ left \in 0..MaxEvents
    /\ args \in [Watches -> [buffer : Buffers, event : Events]]
    /\ client \in [Watches -> {"idle", "connected", "gone"}]
    /\ chan \in [Watches -> {"none", "open", "closed"}]
    /\ request \in [Watches -> {"none", "queued", "ran", "refused", "discarded"}]
    /\ group \in [Watches -> BOOLEAN]
    /\ timer \in [Watches -> {"none", "running", "closed"}]
    /\ closed \in [Watches -> BOOLEAN]
    /\ due \in [Watches -> 0..MaxDue]
    /\ sent \in [Watches -> Seq(Messages)]
    /\ raised \in BOOLEAN

\* A callback is due only after the chunk has run.
DueInv(w) == due[w] > 0 => timer[w] # "none"

\* DetachThenClose, for one watch and in two parts.
Told(w) ==
    (chan[w] = "closed" /\ client[w] = "connected")
        => sent[w] # <<>> /\ sent[w][Len(sent[w])] = "detach"

DetachLast(w) ==
    \A i \in 1..Len(sent[w]) :
        sent[w][i] = "detach" => i = Len(sent[w]) /\ chan[w] = "closed"

One(w) == DueInv(w) /\ Told(w) /\ DetachLast(w) /\ Together(w) /\ Channel(w)

Core == Typed /\ TimerClosedOnce /\ \A w \in Watches : One(w)

\* The inductive invariant is no more than Core: both properties of a watch that
\* has not been heard of are consequences of how its parts go together.
LEMMA CoreIsIInv == Core <=> IInv
<1>1. ASSUME IInv PROVE Core
  BY <1>1 DEF Core, IInv, Typed, TypeOK, One, DueInv, Told, DetachLast, DetachThenClose, WatchInv
<1>2. ASSUME Core PROVE IInv
  <2>1. TypeOK
    BY <1>2 DEF Core, Typed, TypeOK, One, DueInv
  <2>2. DetachThenClose
    BY <1>2 DEF Core, One, Told, DetachLast, DetachThenClose
  <2>3. KeptUntilHeard
    BY <1>2 DEF Core, Typed, One, Together, Channel, KeptUntilHeard
  <2>4. WipeEndsUnheard
    <3> SUFFICES ASSUME NEW w \in Watches, request[w] = "ran",
                        buffers[args[w].buffer] = "wiped",
                        \A i \in 1..Len(sent[w]) : sent[w][i] # "event",
                        client[w] # "gone"
                 PROVE  sent[w] = <<"detach">> /\ chan[w] = "closed"
      BY DEF WipeEndsUnheard
    <3> DEFINE n == Len(sent[w])
    <3>1. sent[w] \in Seq(Messages) /\ client[w] = "connected"
      BY <1>2 DEF Core, Typed, One, Channel
    <3>2. closed[w]
      BY <1>2 DEF Core, Typed, One, Together
    <3>3. \A i \in 1..n : sent[w][i] = "detach"
      BY <3>1 DEF Messages
    <3>4. chan[w] = "closed"
      <4>1. CASE sent[w] = <<>>
        BY <1>2, <3>2, <4>1 DEF Core, One, Channel
      <4>2. CASE sent[w] # <<>>
        <5>1. 1 \in 1..n
          BY <3>1, <4>2
        <5> QED
          BY <1>2, <3>3, <5>1 DEF Core, One, DetachLast
      <4> QED
        BY <4>1, <4>2
    <3>5. sent[w] # <<>>
      BY <1>2, <3>1, <3>4 DEF Core, One, Told
    <3>6. 1 \in 1..n /\ sent[w][1] = "detach"
      BY <3>1, <3>3, <3>5
    <3>7. n = 1
      BY <1>2, <3>6 DEF Core, One, DetachLast
    <3>8. sent[w] = <<"detach">>
      BY <3>1, <3>6, <3>7
    <3> QED
      BY <3>4, <3>8
  <2> QED
    BY <1>2, <2>1, <2>2, <2>3, <2>4 DEF Core, IInv, One, WatchInv
<1> QED
  BY <1>1, <1>2

(***************************************************************************)
(* What the helpers keep.                                                  *)
(***************************************************************************)

\* cleanup() of watches whose chunk has run raises nothing, whether or not it
\* has been called before, and leaves a timer closed exactly when the flag is.
LEMMA CleansUpKeeps ==
    ASSUME Core, NEW S \in SUBSET Watches, \A w \in S : timer[w] # "none", CleansUp(S)
    PROVE  /\ closed' \in [Watches -> BOOLEAN]
           /\ timer' \in [Watches -> {"none", "running", "closed"}]
           /\ group' \in [Watches -> BOOLEAN]
           /\ raised' = FALSE
           /\ \A w \in Watches :
                /\ closed'[w] <=> closed[w] \/ w \in S
                /\ timer'[w] = IF w \in S THEN "closed" ELSE timer[w]
                /\ group'[w] <=> group[w] /\ w \notin S
<1> DEFINE open == {w \in S : ~closed[w]}
<1>1. \A w \in S : timer[w] = "closed" <=> closed[w]
  BY DEF Core, One, Together
<1>2. raised' = FALSE
  BY <1>1 DEF CleansUp, Core, TimerClosedOnce, Typed
<1>3. \A w \in Watches : timer'[w] = IF w \in S THEN "closed" ELSE timer[w]
  BY <1>1 DEF CleansUp
<1>4. \A w \in S : closed[w] => ~group[w]
  BY <1>1 DEF Core, One, Together
<1>5. \A w \in Watches : group'[w] <=> group[w] /\ w \notin S
  BY <1>4 DEF CleansUp
<1>6. closed' \in [Watches -> BOOLEAN] /\ group' \in [Watches -> BOOLEAN]
  BY DEF CleansUp
<1>7. timer' \in [Watches -> {"none", "running", "closed"}]
  BY DEF CleansUp, Core, Typed
<1>8. \A w \in Watches : closed'[w] <=> closed[w] \/ w \in S
  BY DEF CleansUp
<1> QED
  BY <1>2, <1>3, <1>5, <1>6, <1>7, <1>8

\* rpcnotify adds to what was sent on a channel that is open, and to nothing
\* else.
LEMMA SendsKeeps ==
    ASSUME Core, NEW S \in SUBSET Watches, NEW what \in Messages, Sends(S, what)
    PROVE  /\ sent' \in [Watches -> Seq(Messages)]
           /\ \A w \in Watches :
                sent'[w] = IF w \in S /\ chan[w] = "open"
                           THEN Append(sent[w], what) ELSE sent[w]
<1>1. ASSUME NEW w \in Watches PROVE Append(sent[w], what) \in Seq(Messages)
  <2>1. sent[w] \in Seq(Messages)
    BY DEF Core, Typed
  <2> QED
    BY <2>1
<1> QED
  BY <1>1 DEF Sends, Core, Typed

\* The autocmds of a watch are there only while its timer runs, on a channel
\* that has been opened.
LEMMA GroupMeans ==
    ASSUME Core, NEW w \in Watches, group[w]
    PROVE  /\ timer[w] = "running" /\ ~closed[w] /\ request[w] = "ran"
           /\ chan[w] # "none"
           /\ chan[w] = "closed" => client[w] = "gone"
<1>1. timer[w] = "running" /\ ~closed[w] /\ request[w] = "ran"
  BY DEF Core, Typed, One, Together
<1> QED
  BY <1>1 DEF Core, Typed, One, Channel

(***************************************************************************)
(* Invariance.                                                             *)
(***************************************************************************)
LEMMA InitCore == Init => Core
<1> SUFFICES ASSUME Init PROVE Core
  OBVIOUS
<1>1. Typed
  <2>1. MaxEvents \in 0..MaxEvents /\ 0 \in 0..MaxDue
    BY WatchesAssumption
  <2>2. <<>> \in Seq(Messages)
    OBVIOUS
  <2> QED
    BY <2>1, <2>2 DEF Init, Typed
<1>2. ASSUME NEW w \in Watches PROVE DueInv(w) /\ Told(w) /\ DetachLast(w)
  <2>1. due[w] = 0 /\ chan[w] = "none" /\ sent[w] = <<>>
    BY DEF Init
  <2>2. ~(0 > 0) /\ 1..Len(<<>>) = {}
    OBVIOUS
  <2> QED
    BY <2>1, <2>2 DEF DueInv, Told, DetachLast
<1>3. \A w \in Watches : Together(w) /\ Channel(w)
  BY DEF Init, Together, Channel
<1> QED
  BY <1>1, <1>2, <1>3 DEF Core, One, TimerClosedOnce, Init

LEMMA InstallsKeeps ==
    ASSUME Core, NEW v \in Watches, Installs(v)
    PROVE  Core'
<1>1. Typed' /\ TimerClosedOnce'
  BY DEF Core, Typed, TimerClosedOnce, Installs
<1>2. timer[v] = "none" /\ ~closed[v] /\ ~group[v]
  BY DEF Core, Typed, One, Together, Installs
<1>3. ASSUME NEW w \in Watches PROVE One(w)'
  <2>1. DueInv(w)'
    BY <1>2 DEF Core, Typed, One, DueInv, Installs
  <2>2. Told(w)' /\ DetachLast(w)'
    BY DEF Core, One, Told, DetachLast, Installs
  <2>3. Together(w)'
    BY <1>2 DEF Core, Typed, One, Together, Installs
  <2>4. Channel(w)'
    BY DEF Core, Typed, One, Channel, Installs
  <2> QED
    BY <2>1, <2>2, <2>3, <2>4 DEF One
<1> QED
  BY <1>1, <1>3 DEF Core

LEMMA HappensKeeps ==
    ASSUME Core, NEW b \in Buffers, NEW event \in Events, Happens(b, event)
    PROVE  Core'
<1> DEFINE S == {w \in Watches : group[w] /\ args[w].buffer = b /\ args[w].event = event}
<1>1. UNCHANGED <<buffers, args, client, chan, request, due>> /\ Sends(S, "event")
  BY DEF Happens, Notifies, callVars
<1>2. CleansUp(S) /\ S \in SUBSET Watches
  BY DEF Happens, Notifies
<1>3. \A w \in S : group[w]
  OBVIOUS
<1>4. \A w \in S : timer[w] # "none"
  BY <1>2, <1>3, GroupMeans
<1> HIDE DEF S
<1>5. /\ closed' \in [Watches -> BOOLEAN]
      /\ timer' \in [Watches -> {"none", "running", "closed"}]
      /\ group' \in [Watches -> BOOLEAN]
      /\ raised' = FALSE
      /\ \A w \in Watches :
           /\ closed'[w] <=> closed[w] \/ w \in S
           /\ timer'[w] = IF w \in S THEN "closed" ELSE timer[w]
           /\ group'[w] <=> group[w] /\ w \notin S
  BY <1>2, <1>4, CleansUpKeeps
<1>7. /\ sent' \in [Watches -> Seq(Messages)]
      /\ \A w \in Watches :
           sent'[w] = IF w \in S /\ chan[w] = "open"
                      THEN Append(sent[w], "event") ELSE sent[w]
  BY <1>1, <1>2, SendsKeeps DEF Messages
<1>8. left' \in 0..MaxEvents
  BY WatchesAssumption DEF Happens, Core, Typed
<1>9. Typed' /\ TimerClosedOnce'
  BY <1>1, <1>5, <1>7, <1>8 DEF Core, Typed, TimerClosedOnce
<1>10. ASSUME NEW w \in Watches PROVE One(w)'
  <2>1. DueInv(w)'
    BY <1>1, <1>5 DEF Core, One, DueInv
  <2>2. Told(w)'
    <3>1. CASE chan[w] = "open"
      BY <1>1, <3>1 DEF Told
    <3>2. CASE chan[w] # "open"
      BY <1>1, <1>7, <3>2 DEF Core, One, Told
    <3> QED
      BY <3>1, <3>2
  <2>3. DetachLast(w)'
    <3>1. CASE w \in S /\ chan[w] = "open"
      <4>1. sent[w] \in Seq(Messages) /\ sent'[w] = Append(sent[w], "event")
        BY <1>7, <3>1 DEF Core, Typed
      <4>2. \A i \in 1..Len(sent[w]) : sent[w][i] # "detach"
        BY <3>1 DEF Core, One, DetachLast
      <4>3. \A i \in 1..Len(sent'[w]) : sent'[w][i] # "detach"
        BY <4>1, <4>2
      <4> QED
        BY <4>3 DEF DetachLast
    <3>2. CASE ~(w \in S /\ chan[w] = "open")
      BY <1>1, <1>7, <3>2 DEF Core, One, DetachLast
    <3> QED
      BY <3>1, <3>2
  <2>4. Together(w)'
    <3>1. Together(w) /\ (w \in S => group[w])
      BY <1>2, <1>3 DEF Core, One
    <3>2. timer[w] \in {"none", "running", "closed"}
      BY DEF Core, Typed
    <3> QED
      BY <1>1, <1>5, <3>1, <3>2 DEF Together
  <2>5. Channel(w)'
    <3>1. Channel(w)
      BY DEF Core, One
    <3>2. (closed[w]' /\ sent[w]' = <<>>) => chan[w]' = "closed"
      <4>1. CASE w \in S /\ chan[w] = "open"
        <5>1. sent[w] \in Seq(Messages) /\ sent'[w] = Append(sent[w], "event")
          BY <1>7, <4>1 DEF Core, Typed
        <5>2. sent'[w] # <<>>
          BY <5>1
        <5> QED
          BY <5>2
      <4>2. CASE w \in S /\ chan[w] # "open"
        BY <1>1, <1>3, <4>2, GroupMeans DEF Core, Typed
      <4>3. CASE w \notin S
        BY <1>1, <1>5, <1>7, <3>1, <4>3 DEF Channel
      <4> QED
        BY <4>1, <4>2, <4>3
    <3> QED
      BY <1>1, <1>5, <3>1, <3>2 DEF Channel
  <2> QED
    BY <2>1, <2>2, <2>3, <2>4, <2>5 DEF One
<1> QED
  BY <1>9, <1>10 DEF Core

LEMMA WipesKeeps ==
    ASSUME Core, NEW b \in Buffers, Wipes(b)
    PROVE  Core'
<1> DEFINE S == {w \in Watches : group[w] /\ args[w].buffer = b}
<1>1. UNCHANGED <<left, args, client, request, due>> /\ Sends(S, "detach") /\ CleansUp(S)
  BY DEF Wipes, Notifies
<1>2. buffers' = [buffers EXCEPT ![b] = "wiped"]
  BY DEF Wipes
<1>3. chan' = [w \in Watches |-> IF w \in S THEN "closed" ELSE chan[w]]
  BY DEF Wipes
<1>4. \A w \in Watches : w \in S <=> group[w] /\ args[w].buffer = b
  OBVIOUS
<1>5. S \in SUBSET Watches
  OBVIOUS
<1> HIDE DEF S
<1>6. \A w \in S : timer[w] # "none"
  BY <1>4, <1>5, GroupMeans
<1>7. /\ closed' \in [Watches -> BOOLEAN]
      /\ timer' \in [Watches -> {"none", "running", "closed"}]
      /\ group' \in [Watches -> BOOLEAN]
      /\ raised' = FALSE
      /\ \A w \in Watches :
           /\ closed'[w] <=> closed[w] \/ w \in S
           /\ timer'[w] = IF w \in S THEN "closed" ELSE timer[w]
           /\ group'[w] <=> group[w] /\ w \notin S
  BY <1>1, <1>5, <1>6, CleansUpKeeps
<1>8. /\ sent' \in [Watches -> Seq(Messages)]
      /\ \A w \in Watches :
           sent'[w] = IF w \in S /\ chan[w] = "open"
                      THEN Append(sent[w], "detach") ELSE sent[w]
  BY <1>1, <1>5, SendsKeeps DEF Messages
<1>9. /\ buffers' \in [Buffers -> {"loaded", "unloaded", "wiped"}]
      /\ chan' \in [Watches -> {"none", "open", "closed"}]
  BY <1>2, <1>3 DEF Core, Typed
<1>10. Typed' /\ TimerClosedOnce'
  BY <1>1, <1>7, <1>8, <1>9 DEF Core, Typed, TimerClosedOnce
<1>11. ASSUME NEW w \in Watches PROVE One(w)'
  <2>1. DueInv(w)'
    BY <1>1, <1>7 DEF Core, One, DueInv
  <2>2. ASSUME w \in S /\ chan[w] = "open" PROVE Told(w)' /\ DetachLast(w)'
    <3>1. sent[w] \in Seq(Messages) /\ sent'[w] = Append(sent[w], "detach")
      BY <1>8, <2>2 DEF Core, Typed
    <3>2. sent'[w] # <<>> /\ Len(sent'[w]) = Len(sent[w]) + 1
          /\ sent'[w][Len(sent'[w])] = "detach"
      BY <3>1
    <3>3. \A i \in 1..Len(sent[w]) : sent'[w][i] = sent[w][i]
      BY <3>1
    <3>4. \A i \in 1..Len(sent[w]) : sent[w][i] # "detach"
      BY <2>2 DEF Core, One, DetachLast
    <3>5. \A i \in 1..Len(sent'[w]) : sent'[w][i] = "detach" => i = Len(sent'[w])
      BY <3>1, <3>2, <3>3, <3>4
    <3>6. chan'[w] = "closed"
      BY <1>3, <2>2
    <3> QED
      BY <3>2, <3>5, <3>6 DEF Told, DetachLast
  <2>3. ASSUME ~(w \in S /\ chan[w] = "open") PROVE Told(w)' /\ DetachLast(w)'
    <3>1. sent'[w] = sent[w] /\ client'[w] = client[w]
      BY <1>1, <1>8, <2>3
    <3>2. chan'[w] = chan[w]
      <4>1. CASE w \in S
        BY <1>3, <1>4, <2>3, <4>1, GroupMeans DEF Core, Typed
      <4>2. CASE w \notin S
        BY <1>3, <4>2
      <4> QED
        BY <4>1, <4>2
    <3> QED
      BY <3>1, <3>2 DEF Core, One, Told, DetachLast
  <2>4. Together(w)'
    <3>1. Together(w) /\ (w \in S <=> group[w] /\ args[w].buffer = b)
      BY <1>4 DEF Core, One
    <3>2. timer[w] \in {"none", "running", "closed"} /\ args[w].buffer \in Buffers
      BY DEF Core, Typed
    <3>3. args[w].buffer # b => buffers'[args[w].buffer] = buffers[args[w].buffer]
      BY <1>2, <3>2 DEF Core, Typed
    <3> QED
      BY <1>1, <1>7, <3>1, <3>2, <3>3 DEF Together
  <2>5. Channel(w)'
    <3>1. Channel(w)
      BY DEF Core, One
    <3>2. w \in S => chan[w] # "none"
      BY <1>4, GroupMeans
    <3>3. /\ chan'[w] = IF w \in S THEN "closed" ELSE chan[w]
          /\ w \notin S => sent'[w] = sent[w]
      BY <1>3, <1>8
    <3> QED
      BY <1>1, <1>7, <3>1, <3>2, <3>3 DEF Channel
  <2>6. Told(w)' /\ DetachLast(w)'
    BY <2>2, <2>3
  <2> QED
    BY <2>1, <2>4, <2>5, <2>6 DEF One
<1> QED
  BY <1>10, <1>11 DEF Core

LEMMA TimerFiresKeeps ==
    ASSUME Core, NEW v \in Watches, TimerFires(v)
    PROVE  Core'
<1>1. UNCHANGED <<buffers, left, args, client, chan, request, group, timer, closed, raised, sent>>
  BY DEF TimerFires, callVars, leftBehind
<1>2. due' \in [Watches -> 0..MaxDue]
  BY WatchesAssumption DEF TimerFires, Core, Typed
<1>3. Typed' /\ TimerClosedOnce'
  BY <1>1, <1>2 DEF Core, Typed, TimerClosedOnce
<1>4. ASSUME NEW w \in Watches PROVE One(w)'
  <2>1. DueInv(w)'
    BY <1>1 DEF TimerFires, Core, Typed, One, DueInv
  <2> QED
    BY <1>1, <2>1 DEF Core, One, Told, DetachLast, Together, Channel
<1> QED
  BY <1>3, <1>4 DEF Core

LEMMA RunsDueKeeps ==
    ASSUME Core, NEW v \in Watches, RunsDue(v)
    PROVE  Core'
<1> DEFINE S == {u \in {v} : chan[u] # "open"}
<1>1. UNCHANGED <<buffers, left, args, client, chan, request, sent>> /\ CleansUp(S)
  BY DEF RunsDue, callVars
<1>2. S \in SUBSET Watches /\ \A w \in S : w = v /\ chan[w] # "open"
  OBVIOUS
<1>3. timer[v] # "none"
  BY DEF RunsDue, Core, One, DueInv
<1> HIDE DEF S
<1>4. /\ closed' \in [Watches -> BOOLEAN]
      /\ timer' \in [Watches -> {"none", "running", "closed"}]
      /\ group' \in [Watches -> BOOLEAN]
      /\ raised' = FALSE
      /\ \A w \in Watches :
           /\ closed'[w] <=> closed[w] \/ w \in S
           /\ timer'[w] = IF w \in S THEN "closed" ELSE timer[w]
           /\ group'[w] <=> group[w] /\ w \notin S
  <2>1. \A w \in S : timer[w] # "none"
    BY <1>2, <1>3
  <2> QED
    BY <1>1, <1>2, <2>1, CleansUpKeeps
<1>5. due' \in [Watches -> 0..MaxDue] /\ \A w \in Watches : due'[w] > 0 => due[w] > 0
  <2>1. due \in [Watches -> 0..MaxDue] /\ due[v] > 0 /\ due' = [due EXCEPT ![v] = @ - 1]
    BY DEF RunsDue, Core, Typed
  <2> QED
    BY <2>1, WatchesAssumption
<1>6. Typed' /\ TimerClosedOnce'
  BY <1>1, <1>4, <1>5 DEF Core, Typed, TimerClosedOnce
<1>7. ASSUME NEW w \in Watches PROVE One(w)'
  <2>1. DueInv(w)'
    <3>1. due[w] > 0 => timer[w] # "none"
      BY DEF Core, One, DueInv
    <3> QED
      BY <1>4, <1>5, <3>1 DEF DueInv
  <2>2. Told(w)' /\ DetachLast(w)'
    BY <1>1 DEF Core, One, Told, DetachLast
  <2>3. Together(w)'
    <3>1. Together(w) /\ timer[w] \in {"none", "running", "closed"}
      BY DEF Core, Typed, One
    <3>2. w \in S => timer[w] # "none"
      BY <1>2, <1>3
    <3> QED
      BY <1>1, <1>4, <3>1, <3>2 DEF Together
  <2>4. Channel(w)'
    <3>1. Channel(w) /\ chan[w] \in {"none", "open", "closed"}
      BY DEF Core, Typed, One
    <3>2. w \in S => timer[w] # "none" /\ chan[w] # "open"
      BY <1>2, <1>3
    <3>3. timer[w] # "none" => chan[w] # "none"
      BY DEF Core, One, Together, Channel
    <3> QED
      BY <1>1, <1>4, <3>1, <3>2, <3>3 DEF Channel
  <2> QED
    BY <2>1, <2>2, <2>3, <2>4 DEF One
<1> QED
  BY <1>6, <1>7 DEF Core

LEMMA AsksKeeps ==
    ASSUME Core, NEW v \in Watches, Asks(v)
    PROVE  Core'
<1>1. UNCHANGED <<buffers, left, args, group, timer, closed, raised, due, sent>>
  BY DEF Asks, leftBehind
<1>2. Typed' /\ TimerClosedOnce'
  BY <1>1 DEF Asks, Core, Typed, TimerClosedOnce
<1>3. ASSUME NEW w \in Watches PROVE One(w)'
  <2>1. chan[v] = "none" /\ request[v] = "none"
    BY DEF Asks, Core, One, Channel
  <2>2. timer[v] = "none" /\ ~closed[v]
    BY <2>1 DEF Core, One, Together
  <2>3. DueInv(w)'
    BY <1>1 DEF Core, One, DueInv
  <2>4. Told(w)' /\ DetachLast(w)'
    <3>1. CASE w = v
      <4>1. chan'[w] = "open" /\ sent'[w] = sent[w]
        BY <1>1, <3>1 DEF Asks, Core, Typed
      <4>2. \A i \in 1..Len(sent[w]) : sent[w][i] # "detach"
        BY <2>1, <3>1 DEF Core, One, DetachLast
      <4> QED
        BY <4>1, <4>2 DEF Told, DetachLast
    <3>2. CASE w # v
      <4>1. chan'[w] = chan[w] /\ client'[w] = client[w] /\ sent'[w] = sent[w]
        BY <1>1, <3>2 DEF Asks, Core, Typed
      <4> QED
        BY <4>1 DEF Core, One, Told, DetachLast
    <3> QED
      BY <3>1, <3>2
  <2>5. Together(w)'
    BY <1>1, <2>2 DEF Asks, Core, Typed, One, Together
  <2>6. Channel(w)'
    BY <1>1, <2>2 DEF Asks, Core, Typed, One, Channel
  <2> QED
    BY <2>3, <2>4, <2>5, <2>6 DEF One
<1> QED
  BY <1>2, <1>3 DEF Core

LEMMA LeavesKeeps ==
    ASSUME Core, NEW v \in Watches, Leaves(v)
    PROVE  Core'
<1>1. UNCHANGED <<buffers, left, args, chan, request, group, timer, closed, raised, due, sent>>
  BY DEF Leaves, leftBehind
<1>2. Typed' /\ TimerClosedOnce'
  BY <1>1 DEF Leaves, Core, Typed, TimerClosedOnce
<1>3. ASSUME NEW w \in Watches PROVE One(w)'
  <2>1. DueInv(w)' /\ DetachLast(w)' /\ Together(w)'
    BY <1>1 DEF Core, One, DueInv, DetachLast, Together
  <2>2. Told(w)'
    BY <1>1 DEF Leaves, Core, Typed, One, Told
  <2>3. Channel(w)'
    BY <1>1 DEF Leaves, Core, Typed, One, Channel
  <2> QED
    BY <2>1, <2>2, <2>3 DEF One
<1> QED
  BY <1>2, <1>3 DEF Core

LEMMA NoticesKeeps ==
    ASSUME Core, NEW v \in Watches, Notices(v)
    PROVE  Core'
<1>1. UNCHANGED <<buffers, left, args, client, request, group, timer, closed, raised, due, sent>>
  BY DEF Notices, leftBehind
<1>2. Typed' /\ TimerClosedOnce'
  BY <1>1 DEF Notices, Core, Typed, TimerClosedOnce
<1>3. ASSUME NEW w \in Watches PROVE One(w)'
  <2>1. DueInv(w)' /\ Together(w)'
    BY <1>1 DEF Core, One, DueInv, Together
  <2>2. Told(w)' /\ DetachLast(w)'
    BY <1>1 DEF Notices, Core, Typed, One, Told, DetachLast
  <2>3. Channel(w)'
    BY <1>1 DEF Notices, Core, Typed, One, Channel
  <2> QED
    BY <2>1, <2>2, <2>3 DEF One
<1> QED
  BY <1>2, <1>3 DEF Core

LEMMA DiscardsKeeps ==
    ASSUME Core, NEW v \in Watches, Discards(v)
    PROVE  Core'
<1>1. UNCHANGED <<buffers, left, args, client, chan, group, timer, closed, raised, due, sent>>
  BY DEF Discards, leftBehind
<1>2. Typed' /\ TimerClosedOnce'
  BY <1>1 DEF Discards, Core, Typed, TimerClosedOnce
<1>3. ASSUME NEW w \in Watches PROVE One(w)'
  <2>1. DueInv(w)' /\ Told(w)' /\ DetachLast(w)'
    BY <1>1 DEF Core, One, DueInv, Told, DetachLast
  <2>2. Together(w)'
    BY <1>1 DEF Discards, Core, Typed, One, Together
  <2>3. Channel(w)'
    BY <1>1 DEF Discards, Core, Typed, One, Channel
  <2> QED
    BY <2>1, <2>2, <2>3 DEF One
<1> QED
  BY <1>2, <1>3 DEF Core

LEMMA LoadingKeeps ==
    ASSUME Core, NEW b \in Buffers, Loads(b) \/ Unloads(b)
    PROVE  Core'
<1>1. UNCHANGED <<left, args, client, chan, request, group, timer, closed, raised, due, sent>>
  BY DEF Loads, Unloads, callVars, leftBehind
<1>2. /\ buffers' \in [Buffers -> {"loaded", "unloaded", "wiped"}]
      /\ \A c \in Buffers : buffers'[c] = "wiped" => buffers[c] = "wiped"
  BY DEF Loads, Unloads, Core, Typed
<1>3. Typed' /\ TimerClosedOnce'
  BY <1>1, <1>2 DEF Core, Typed, TimerClosedOnce
<1>4. ASSUME NEW w \in Watches PROVE One(w)'
  <2>1. DueInv(w)' /\ Told(w)' /\ DetachLast(w)' /\ Channel(w)'
    BY <1>1 DEF Core, One, DueInv, Told, DetachLast, Channel
  <2>2. args[w].buffer \in Buffers
    BY DEF Core, Typed
  <2>3. Together(w)'
    BY <1>1, <1>2, <2>2 DEF Core, One, Together
  <2> QED
    BY <2>1, <2>3 DEF One
<1> QED
  BY <1>3, <1>4 DEF Core

LEMMA StutterKeeps ==
    ASSUME Core, UNCHANGED vars
    PROVE  Core'
<1>1. UNCHANGED <<buffers, left, args, client, chan, request, group, timer, closed, raised, due, sent>>
  BY DEF vars, callVars, leftBehind
<1> QED
  BY <1>1 DEF Core, Typed, TimerClosedOnce, One, DueInv, Told, DetachLast, Together, Channel

LEMMA NextKeeps == Core /\ [Next]_vars => Core'
<1> SUFFICES ASSUME Core, [Next]_vars PROVE Core'
  OBVIOUS
<1>1. CASE User
  BY <1>1, LoadingKeeps, WipesKeeps, HappensKeeps DEF User
<1>2. CASE \E w \in Watches : Asks(w) \/ Leaves(w) \/ Loop(w)
  BY <1>2, AsksKeeps, LeavesKeeps, InstallsKeeps, DiscardsKeeps, NoticesKeeps,
     TimerFiresKeeps, RunsDueKeeps DEF Loop
<1>3. CASE UNCHANGED vars
  BY <1>3, StutterKeeps
<1> QED
  BY <1>1, <1>2, <1>3 DEF Next

\* The inductive invariant holds for every value of the constants.
THEOREM WatchInvariance == Spec => []IInv
<1>1. Init => IInv
  BY InitCore, CoreIsIInv
<1>2. IInv /\ [Next]_vars => IInv'
  <2>1. Core <=> IInv
    BY CoreIsIInv
  <2>2. Core' <=> IInv'
    BY CoreIsIInv, PTL
  <2> QED
    BY <2>1, <2>2, NextKeeps
<1> QED
  BY <1>1, <1>2, PTL DEF Spec

\* Every variable keeps its type, and no callback is due before the chunk that
\* starts the timer has run.
THEOREM WatchTypes == Spec => []TypeOK
<1>1. IInv => TypeOK
  BY DEF IInv
<1> QED
  BY <1>1, WatchInvariance, PTL

\* The flag of watch.lua is enough: no callback touches a closed timer.
THEOREM ClosedOnce == Spec => []TimerClosedOnce
<1>1. IInv => TimerClosedOnce
  BY DEF IInv
<1> QED
  BY <1>1, WatchInvariance, PTL

\* A watch on whose channel nothing has been sent keeps its autocmds while the
\* channel is open.
THEOREM StaysUntilHeard == Spec => []KeptUntilHeard
<1>1. IInv => KeptUntilHeard
  BY DEF IInv
<1> QED
  BY <1>1, WatchInvariance, PTL

\* The editor closes the channel of a client only after telling it of the
\* wipeout, which is the last it sends.
THEOREM ToldBeforeClosed == Spec => []DetachThenClose
<1>1. IInv => DetachThenClose
  BY DEF IInv
<1> QED
  BY <1>1, WatchInvariance, PTL

\* The wiping of its buffer ends a watch that has sent no event before with a
\* detach and a closed channel, unless its client has gone.
THEOREM WipeoutEndsWatch == Spec => []WipeEndsUnheard
<1>1. IInv => WipeEndsUnheard
  BY DEF IInv
<1> QED
  BY <1>1, WatchInvariance, PTL

=============================================================================
