------------------------- MODULE WatchStreamProofs -------------------------
(***************************************************************************)
(* Proofs about WatchStream, for every Capacity and MaxMessages, and that  *)
(* it implements EventFeed.                                                *)
(***************************************************************************)
EXTENDS WatchStream, SequenceTheorems, TLAPS

(***************************************************************************)
(* Sequences of messages.                                                  *)
(***************************************************************************)

\* Appending to a sequence, elementwise.
LEMMA AppendFacts ==
    ASSUME NEW S, NEW s \in Seq(S), NEW m \in S
    PROVE  /\ Append(s, m) \in Seq(S)
           /\ Append(s, m) # <<>>
           /\ Len(Append(s, m)) = Len(s) + 1
           /\ \A i \in 1..Len(s) : Append(s, m)[i] = s[i]
           /\ Append(s, m)[Len(s) + 1] = m
           /\ Last(Append(s, m)) = m
  BY AppendProperties DEF Last

\* Taking the head off a sequence, elementwise.
LEMMA TailFacts ==
    ASSUME NEW S, NEW s \in Seq(S), s # <<>>
    PROVE  /\ Head(s) = s[1]
           /\ Head(s) \in S
           /\ Len(s) \in Nat \ {0}
           /\ Last(s) \in S
           /\ Tail(s) \in Seq(S)
           /\ Len(Tail(s)) = Len(s) - 1
           /\ \A i \in 1..Len(Tail(s)) : Tail(s)[i] = s[i + 1]
           /\ Tail(s) # <<>> => Last(Tail(s)) = Last(s)
           /\ Tail(s) = <<>> => Len(s) = 1 /\ Last(s) = s[1]
<1>1. Len(s) \in Nat \ {0}
  BY EmptySeq
<1>2. Head(s) = s[1]
  OBVIOUS
<1>3. Len(Tail(s)) = Len(s) - 1
  BY HeadTailProperties
<1>7. /\ Head(s) \in S
      /\ Tail(s) \in Seq(S)
      /\ \A i \in 1..Len(Tail(s)) : Tail(s)[i] = s[i + 1]
  BY HeadTailProperties
<1>4. Last(s) \in S
  BY <1>1, ElementOfSeq DEF Last
<1>5. ASSUME Tail(s) # <<>>
      PROVE  Last(Tail(s)) = Last(s)
  <2>1. Len(Tail(s)) \in Nat \ {0}
    BY <1>7, <1>5, EmptySeq
  <2> QED
    BY <1>1, <1>3, <1>7, <2>1 DEF Last
<1>6. ASSUME Tail(s) = <<>>
      PROVE  Len(s) = 1 /\ Last(s) = s[1]
  <2>1. Len(Tail(s)) = 0
    BY <1>6, EmptySeq
  <2> DEFINE l == Len(s)
             r == Len(Tail(s))
  <2>2. l \in Nat /\ l # 0 /\ r = l - 1 /\ r = 0
    BY <1>1, <1>3, <2>1
  <2> HIDE DEF l, r
  <2>3. l = 1
    BY <2>2
  <2> QED
    BY <2>3 DEF Last, l
<1> QED
  BY <1>1, <1>2, <1>3, <1>4, <1>5, <1>6, <1>7

\* The end of a chain is a number.
LEMMA EndOfType ==
    ASSUME NEW K, NEW s \in Seq([k : K, n : Nat]), NEW n \in Nat
    PROVE  EndOf(s, n) \in Nat
<1>1. CASE s = <<>>
  BY <1>1 DEF EndOf
<1>2. CASE s # <<>>
  <2>1. Last(s) \in [k : K, n : Nat]
    BY <1>2, TailFacts
  <2> QED
    BY <1>2, <2>1 DEF EndOf
<1> QED
  BY <1>1, <1>2

\* A chain is extended by what continues its end.
LEMMA ChainAppend ==
    ASSUME NEW S, NEW s \in Seq(S), NEW n, NEW m \in S,
           Chain(s, n), Continues(EndOf(s, n), m)
    PROVE  Chain(Append(s, m), n) /\ EndOf(Append(s, m), n) = m.n
<1> DEFINE t == Append(s, m)
<1>1. /\ t # <<>>
      /\ Len(t) = Len(s) + 1
      /\ \A i \in 1..Len(s) : t[i] = s[i]
      /\ t[Len(s) + 1] = m
      /\ Last(t) = m
      /\ Len(s) \in Nat
  BY AppendFacts, LenProperties
<1>2. s # <<>> => Len(s) # 0 /\ EndOf(s, n) = s[Len(s)].n
  BY EmptySeq DEF EndOf, Last
<1> HIDE DEF t
<1>3. Continues(n, t[1])
  <2>1. CASE s = <<>>
    <3>1. EndOf(s, n) = n /\ Len(s) = 0
      BY <2>1, EmptySeq DEF EndOf
    <3> QED
      BY <1>1, <3>1
  <2>2. CASE s # <<>>
    BY <1>1, <1>2, <2>2 DEF Chain
  <2> QED
    BY <2>1, <2>2
<1>4. ASSUME NEW i \in 1..(Len(t) - 1)
      PROVE  Continues(t[i].n, t[i + 1])
  <2>1. CASE i = Len(s)
    <3>1. s # <<>>
      BY <2>1, EmptySeq
    <3> QED
      BY <1>1, <1>2, <2>1, <3>1
  <2>2. CASE i \in 1..(Len(s) - 1)
    <3>1. t[i] = s[i] /\ t[i + 1] = s[i + 1]
      BY <1>1, <2>2
    <3> QED
      BY <2>2, <3>1 DEF Chain
  <2> QED
    BY <1>1, <2>1, <2>2
<1>5. Chain(t, n) /\ EndOf(t, n) = m.n
  BY <1>1, <1>3, <1>4 DEF Chain, EndOf
<1> QED
  BY <1>5 DEF t

\* The rest of a chain continues its head.
LEMMA ChainTail ==
    ASSUME NEW S, NEW s \in Seq(S), NEW n, Chain(s, n), s # <<>>
    PROVE  /\ Continues(n, Head(s))
           /\ Chain(Tail(s), Head(s).n)
           /\ EndOf(Tail(s), Head(s).n) = EndOf(s, n)
<1>1. Head(s) = s[1] /\ Len(s) \in Nat \ {0} /\ Len(Tail(s)) = Len(s) - 1
  BY TailFacts
<1>2. Continues(n, Head(s))
  BY <1>1 DEF Chain
<1>3. \A i \in 1..Len(Tail(s)) : Tail(s)[i] = s[i + 1]
  BY TailFacts
<1>4. ASSUME Tail(s) # <<>>
      PROVE  Continues(Head(s).n, Tail(s)[1])
  <2>1. Tail(s)[1] = s[2] /\ 1 \in 1..(Len(s) - 1)
    BY <1>1, <1>3, <1>4, TailFacts
  <2> QED
    BY <1>1, <2>1 DEF Chain
<1>5. ASSUME NEW i \in 1..(Len(Tail(s)) - 1)
      PROVE  Continues(Tail(s)[i].n, Tail(s)[i + 1])
  <2>1. Tail(s)[i] = s[i + 1] /\ Tail(s)[i + 1] = s[(i + 1) + 1]
    BY <1>1, <1>3
  <2>2. i + 1 \in 1..(Len(s) - 1)
    BY <1>1
  <2> QED
    BY <2>1, <2>2 DEF Chain
<1>6. EndOf(Tail(s), Head(s).n) = EndOf(s, n)
  BY <1>1, TailFacts DEF EndOf
<1> QED
  BY <1>2, <1>4, <1>5, <1>6 DEF Chain

(***************************************************************************)
(* Each part of the invariant is preserved by every step.  Actions that    *)
(* leave a part's variables alone are dealt with together.                 *)
(***************************************************************************)

\* Messages are items and notifications are both.
LEMMA Kinds ==
    /\ \A m \in WireMessage : m.n \in Nat /\ m.k \in WireKinds
    /\ \A m \in Item : m.n \in Nat /\ m.k \in ItemKinds
    /\ \A m \in WireMessage : m.k \notin Answers => m \in Item
    /\ \A m \in WireMessage :
          m.k \in {"event", "detach", "bad"} => m \in Notification
    /\ \A m \in Notification : m \in Item
    /\ \A k \in ItemKinds, n \in Nat : [k |-> k, n |-> n] \in Item
    /\ \A k \in WireKinds, n \in Nat : [k |-> k, n |-> n] \in WireMessage
  BY DEF WireMessage, Notification, Item, WireKinds, ItemKinds, Numbered, Answers

\* Only the holder of a message it can number sends an overflow.
LEMMA OverflowType ==
    ASSUME TypeOK, Flow, rx, worker = "overflow"
    PROVE  OverflowItem \in Item
<1>1. EndOf(chan, EndOf(items, 0)) \in Nat
  <2>1. EndOf(items, 0) \in Nat
    BY EndOfType DEF TypeOK, Item
  <2> QED
    BY <2>1, EndOfType DEF TypeOK, Item
<1>2. held.n \in Nat /\ (held.k \in Numbered => held.n - 1 \in Nat)
  BY <1>1, Kinds DEF TypeOK, Flow, Continues, OverflowStates
<1> QED
  BY <1>2, Kinds DEF OverflowItem, ItemKinds

\* TypeOK is preserved: what the worker holds is an item because it meets no
\* response, and an overflow is numbered because a message precedes it.
LEMMA TypeStep ==
    ASSUME TypeOK, OneAnswer, Control, Flow, [Next]_vars
    PROVE  TypeOK'
<1> USE WatchAssumption DEF TypeOK
<1>1. ASSUME NEW kind \in Numbered, EditorSends(kind)
      PROVE  TypeOK'
  <2>1. [k |-> kind, n |-> emitted + 1] \in WireMessage
    BY Kinds DEF WireKinds
  <2>2. wire' \in Seq(WireMessage)
    BY <1>1, <2>1, AppendFacts DEF EditorSends
  <2> QED
    BY <1>1, <2>2 DEF EditorSends, workerVars, chanVars, streamVars
<1>2. ASSUME NEW kind \in Answers, EditorAnswers(kind)
      PROVE  TypeOK'
  <2>1. [k |-> kind, n |-> emitted] \in WireMessage
    <3>1. emitted \in Nat /\ kind \in WireKinds
      BY DEF WireKinds, Answers
    <3> QED
      BY <3>1, Kinds
  <2>2. wire' \in Seq(WireMessage)
    BY <1>2, <2>1, AppendFacts DEF EditorAnswers
  <2> QED
    BY <1>2, <2>2 DEF EditorAnswers, workerVars, chanVars, streamVars
<1>3. CASE CallStashes
  <2>1. Head(wire) \in Notification /\ wire' \in Seq(WireMessage)
    BY <1>3, TailFacts, Kinds DEF CallStashes
  <2>2. backlog' \in Seq(Notification)
    BY <1>3, <2>1, AppendFacts DEF CallStashes
  <2> QED
    BY <1>3, <2>1, <2>2 DEF CallStashes, chanVars, streamVars
<1>4. CASE CallReturns
  <2>1. wire' \in Seq(WireMessage)
    BY <1>4, TailFacts DEF CallReturns
  <2> QED
    BY <1>4, <2>1 DEF CallReturns, workerVars, chanVars
<1>5. CASE WorkerPops
  <2>1. held' \in Item /\ backlog' \in Seq(Notification)
    BY <1>5, TailFacts, Kinds DEF WorkerPops, Takes
  <2> QED
    BY <1>5, <2>1 DEF WorkerPops, Takes, sockVars, chanVars, streamVars
<1>6. CASE WorkerReads
  <2>1. Head(wire) = wire[1] /\ Head(wire) \in WireMessage /\ 1 \in 1..Len(wire)
    BY <1>6, TailFacts DEF WorkerReads
  <2>2. Head(wire).k \notin Answers
    BY <1>6, <2>1 DEF WorkerReads, OneAnswer, Control, SetupStates
  <2>3. held' \in Item /\ wire' \in Seq(WireMessage)
    BY <1>6, <2>1, <2>2, TailFacts, Kinds DEF WorkerReads, Takes
  <2> QED
    BY <1>6, <2>3 DEF WorkerReads, Takes, chanVars, streamVars
<1>7. CASE WorkerMeetsEof
  <2>1. held' \in Item
    BY <1>7, Kinds DEF WorkerMeetsEof, Takes, ItemKinds
  <2> QED
    BY <1>7, <2>1 DEF WorkerMeetsEof, Takes, sockVars, chanVars, streamVars
<1>8. CASE WorkerSends
  <2>1. chan' \in Seq(Item) /\ Len(chan') <= Capacity
    BY <1>8, AppendFacts, LenProperties DEF WorkerSends
  <2> QED
    BY <1>8, <2>1 DEF WorkerSends, sockVars, streamVars
<1>9. CASE WorkerSendsOverflow
  <2>1. OverflowItem \in Item
    BY <1>9, OverflowType DEF WorkerSendsOverflow
  <2>2. chan' \in Seq(Item) /\ Len(chan') <= Capacity
    BY <1>9, <2>1, AppendFacts, LenProperties DEF WorkerSendsOverflow
  <2> QED
    BY <1>9, <2>2 DEF WorkerSendsOverflow, sockVars, streamVars
<1>10. CASE NextReturnsReady
  <2>1. [k |-> "ready", n |-> 0] \in Item
    BY Kinds DEF ItemKinds
  <2>2. items' \in Seq(Item)
    BY <1>10, <2>1, AppendFacts DEF NextReturnsReady, Return
  <2> QED
    BY <1>10, <2>2 DEF NextReturnsReady, Return, sockVars, workerVars, chanVars
<1>11. CASE NextReceives
  <2>1. chan' \in Seq(Item) /\ Head(chan) \in Item /\ Len(chan') <= Capacity
    BY <1>11, TailFacts, LenProperties DEF NextReceives
  <2>2. items' \in Seq(Item)
    BY <1>11, <2>1, AppendFacts DEF NextReceives, Return
  <2> QED
    BY <1>11, <2>1, <2>2 DEF NextReceives, Return, sockVars, workerVars
<1>12. CASE DropReceiver
  <2>1. chan' \in Seq(Item) /\ Len(chan') <= Capacity
    BY <1>12, EmptySeq DEF DropReceiver
  <2> QED
    BY <1>12, <2>1 DEF DropReceiver, sockVars, workerVars
<1>13. CASE EditorHangsUp
  BY <1>13 DEF EditorHangsUp, sockVars, workerVars, chanVars, streamVars
<1>14. CASE Interrupt
  BY <1>14 DEF Interrupt, sockVars, workerVars, chanVars, streamVars
<1>15. CASE CallFails
  BY <1>15 DEF CallFails, Fail, sockVars, workerVars, chanVars, streamVars
<1>16. CASE PrepareFails
  BY <1>16 DEF PrepareFails, Fail, sockVars, workerVars, chanVars, streamVars
<1>17. CASE Prepare
  BY <1>17 DEF Prepare, sockVars, workerVars, chanVars, streamVars
<1>18. CASE WorkerMeetsDrop
  BY <1>18 DEF WorkerMeetsDrop, sockVars, workerVars, chanVars, streamVars
<1>19. CASE WorkerMeetsFull
  BY <1>19 DEF WorkerMeetsFull, sockVars, workerVars, chanVars, streamVars
<1>20. CASE WorkerShutsSocket
  BY <1>20 DEF WorkerShutsSocket, ShutSocket, sockVars, workerVars, chanVars, streamVars
<1>21. CASE WorkerDropsClient
  BY <1>21 DEF WorkerDropsClient, sockVars, workerVars, chanVars, streamVars
<1>22. CASE WorkerGivesUp
  BY <1>22 DEF WorkerGivesUp, sockVars, workerVars, chanVars, streamVars
<1>23. CASE WorkerExits
  BY <1>23 DEF WorkerExits, sockVars, workerVars, chanVars, streamVars
<1>24. CASE NextStarts
  BY <1>24 DEF NextStarts, sockVars, workerVars, chanVars, streamVars
<1>25. CASE NextSeesInterrupt
  BY <1>25 DEF NextSeesInterrupt, End, sockVars, workerVars, chanVars, streamVars
<1>26. CASE NextPolls
  BY <1>26 DEF NextPolls, sockVars, workerVars, chanVars, streamVars
<1>27. CASE NextSeesDisconnect
  BY <1>27 DEF NextSeesDisconnect, End, sockVars, workerVars, chanVars, streamVars
<1>28. CASE NextTimesOut
  BY <1>28 DEF NextTimesOut, sockVars, workerVars, chanVars, streamVars
<1>29. CASE DropInterrupts
  BY <1>29 DEF DropInterrupts, ShutSocket, sockVars, workerVars, chanVars, streamVars
<1>30. CASE DropJoins
  BY <1>30 DEF DropJoins, sockVars, workerVars, chanVars, streamVars
<1>31. CASE UNCHANGED vars
  BY <1>31 DEF vars, sockVars, workerVars, chanVars, streamVars
<1> QED
  BY <1>1, <1>2, <1>3, <1>4, <1>5, <1>6, <1>7, <1>8, <1>9, <1>10, <1>11,
     <1>12, <1>13, <1>14, <1>15, <1>16, <1>17, <1>18, <1>19, <1>20, <1>21,
     <1>22, <1>23, <1>24, <1>25, <1>26, <1>27, <1>28, <1>29, <1>30, <1>31
  DEF Next, Editor, Setup, Worker, Pull, InNext, InDrop, Finished, Answers

\* The two threads' control states stay compatible.
LEMMA ControlStep ==
    ASSUME TypeOK, Control, [Next]_vars
    PROVE  Control'
<1> USE DEF TypeOK
<1>1. CASE CallReturns
  BY <1>1 DEF CallReturns, Control, SetupStates, NextStates, sockVars,
       workerVars, chanVars, streamVars
<1>2. CASE CallFails
  BY <1>2 DEF CallFails, Fail, Control, SetupStates, NextStates, sockVars,
       workerVars, chanVars, streamVars
<1>3. CASE PrepareFails
  BY <1>3 DEF PrepareFails, Fail, Control, SetupStates, NextStates, sockVars,
       workerVars, chanVars, streamVars
<1>4. CASE Prepare
  BY <1>4 DEF Prepare, Control, SetupStates, NextStates, sockVars, workerVars,
       chanVars, streamVars
<1>5. CASE WorkerPops
  BY <1>5 DEF WorkerPops, Takes, Control, SetupStates, NextStates, sockVars,
       workerVars, chanVars, streamVars
<1>6. CASE WorkerReads
  BY <1>6 DEF WorkerReads, Takes, Control, SetupStates, NextStates, sockVars,
       workerVars, chanVars, streamVars
<1>7. CASE WorkerMeetsEof
  BY <1>7 DEF WorkerMeetsEof, Takes, Control, SetupStates, NextStates,
       sockVars, workerVars, chanVars, streamVars
<1>8. CASE WorkerSends
  BY <1>8 DEF WorkerSends, Control, SetupStates, NextStates, sockVars,
       workerVars, chanVars, streamVars
<1>9. CASE WorkerMeetsDrop
  BY <1>9 DEF WorkerMeetsDrop, Control, SetupStates, NextStates, sockVars,
       workerVars, chanVars, streamVars
<1>10. CASE WorkerMeetsFull
  BY <1>10 DEF WorkerMeetsFull, Control, SetupStates, NextStates, sockVars,
       workerVars, chanVars, streamVars
<1>11. CASE WorkerShutsSocket
  BY <1>11 DEF WorkerShutsSocket, ShutSocket, Control, SetupStates,
       NextStates, sockVars, workerVars, chanVars, streamVars
<1>12. CASE WorkerDropsClient
  BY <1>12 DEF WorkerDropsClient, Control, SetupStates, NextStates, sockVars,
       workerVars, chanVars, streamVars
<1>13. CASE WorkerSendsOverflow
  BY <1>13 DEF WorkerSendsOverflow, Control, SetupStates, NextStates,
       sockVars, workerVars, chanVars, streamVars
<1>14. CASE WorkerGivesUp
  BY <1>14 DEF WorkerGivesUp, Control, SetupStates, NextStates, sockVars,
       workerVars, chanVars, streamVars
<1>15. CASE WorkerExits
  BY <1>15 DEF WorkerExits, Control, SetupStates, NextStates, sockVars,
       workerVars, chanVars, streamVars
<1>16. CASE NextReturnsReady
  BY <1>16 DEF NextReturnsReady, Return, Control, SetupStates, NextStates,
       sockVars, workerVars, chanVars, streamVars
<1>17. CASE NextStarts
  BY <1>17 DEF NextStarts, Control, SetupStates, NextStates, sockVars,
       workerVars, chanVars, streamVars
<1>18. CASE NextSeesInterrupt
  BY <1>18 DEF NextSeesInterrupt, End, Control, SetupStates, NextStates,
       sockVars, workerVars, chanVars, streamVars
<1>19. CASE NextPolls
  BY <1>19 DEF NextPolls, Control, SetupStates, NextStates, sockVars,
       workerVars, chanVars, streamVars
<1>20. CASE NextReceives
  BY <1>20 DEF NextReceives, Return, Control, SetupStates, NextStates,
       sockVars, workerVars, chanVars, streamVars
<1>21. CASE NextSeesDisconnect
  BY <1>21 DEF NextSeesDisconnect, End, Control, SetupStates, NextStates,
       sockVars, workerVars, chanVars, streamVars
<1>22. CASE NextTimesOut
  BY <1>22 DEF NextTimesOut, Control, SetupStates, NextStates, sockVars,
       workerVars, chanVars, streamVars
<1>23. CASE DropReceiver
  BY <1>23 DEF DropReceiver, Control, SetupStates, NextStates, sockVars,
       workerVars, chanVars, streamVars
<1>24. CASE DropInterrupts
  BY <1>24 DEF DropInterrupts, ShutSocket, Control, SetupStates, NextStates,
       sockVars, workerVars, chanVars, streamVars
<1>25. CASE DropJoins
  BY <1>25 DEF DropJoins, Control, SetupStates, NextStates, sockVars,
       workerVars, chanVars, streamVars
<1>26. CASE UNCHANGED <<pc, worker, rx, ready, chan, items, ended>>
  BY <1>26 DEF Control
<1> QED
  BY <1>1, <1>2, <1>3, <1>4, <1>5, <1>6, <1>7, <1>8, <1>9, <1>10, <1>11,
       <1>12, <1>13, <1>14, <1>15, <1>16, <1>17, <1>18, <1>19, <1>20, <1>21,
       <1>22, <1>23, <1>24, <1>25, <1>26
  DEF Next, Editor, Setup, Worker, Pull, InNext, InDrop, Finished, Answers,
       vars, sockVars, workerVars, chanVars, streamVars, EditorSends,
       EditorAnswers, EditorHangsUp, Interrupt, CallStashes

\* There is one response, and it is read by the installing call.
LEMMA OneAnswerStep ==
    ASSUME TypeOK, OneAnswer, [Next]_vars
    PROVE  OneAnswer'
<1> USE DEF TypeOK
<1>1. ASSUME NEW kind \in Numbered, EditorSends(kind)
      PROVE  OneAnswer'
  <2> DEFINE m == [k |-> kind, n |-> emitted + 1]
  <2>1. m \in WireMessage /\ m.k \notin Answers
    <3>1. emitted + 1 \in Nat /\ kind \in WireKinds /\ kind \notin Answers
      BY <1>1 DEF WireKinds, Numbered, Answers
    <3> QED
      BY <3>1, Kinds
  <2>2. wire' = Append(wire, m) /\ pc' = pc /\ answered' = answered
    BY <1>1 DEF EditorSends, streamVars
  <2> HIDE DEF m
  <2>3. /\ Len(wire') = Len(wire) + 1
        /\ \A i \in 1..Len(wire) : wire'[i] = wire[i]
        /\ wire'[Len(wire) + 1] = m
        /\ Len(wire) \in Nat
    BY <2>1, <2>2, AppendFacts, LenProperties
  <2>4. ASSUME NEW i \in 1..Len(wire'), wire'[i].k \in Answers
        PROVE  i \in 1..Len(wire) /\ wire'[i] = wire[i]
    <3>1. i # Len(wire) + 1
      BY <2>1, <2>3, <2>4
    <3>2. i \in 1..Len(wire)
      BY <2>3, <3>1
    <3> QED
      BY <2>3, <3>2
  <2> QED
    BY <2>2, <2>4 DEF OneAnswer
<1>2. ASSUME NEW kind \in Answers, EditorAnswers(kind)
      PROVE  OneAnswer'
  <2> DEFINE m == [k |-> kind, n |-> emitted]
  <2>1. m \in WireMessage
    <3>1. emitted \in Nat /\ kind \in WireKinds
      BY <1>2 DEF WireKinds, Answers
    <3> QED
      BY <3>1, Kinds
  <2>2. /\ wire' = Append(wire, m)
        /\ pc' = pc
        /\ ~answered
        /\ answered'
    BY <1>2 DEF EditorAnswers, streamVars
  <2> HIDE DEF m
  <2>3. /\ Len(wire') = Len(wire) + 1
        /\ \A i \in 1..Len(wire) : wire'[i] = wire[i]
        /\ Len(wire) \in Nat
    BY <2>1, <2>2, AppendFacts, LenProperties
  <2>4. pc \in {"call", "failed"}
    BY <2>2 DEF OneAnswer
  <2>5. \A i \in 1..Len(wire') : wire'[i].k \in Answers => i = Len(wire) + 1
    BY <2>2, <2>3 DEF OneAnswer
  <2> QED
    BY <2>2, <2>4, <2>5 DEF OneAnswer
<1>3. CASE CallStashes
  <2>1. wire # <<>> /\ wire' = Tail(wire) /\ UNCHANGED <<pc, answered>>
    BY <1>3 DEF CallStashes, streamVars
  <2>2. /\ Len(wire') = Len(wire) - 1
        /\ \A i \in 1..Len(wire') : wire'[i] = wire[i + 1]
        /\ wire[1] = Head(wire)
        /\ Len(wire) \in Nat \ {0}
    BY <2>1, TailFacts
  <2> QED
    BY <2>1, <2>2 DEF OneAnswer
<1>4. CASE CallReturns
  <2>1. /\ wire # <<>>
        /\ wire' = Tail(wire)
        /\ Head(wire).k \in Answers
        /\ answered' = answered
    BY <1>4 DEF CallReturns, Answers
  <2>2. /\ Len(wire') = Len(wire) - 1
        /\ \A i \in 1..Len(wire') : wire'[i] = wire[i + 1]
        /\ wire[1] = Head(wire)
        /\ Len(wire) \in Nat \ {0}
    BY <2>1, TailFacts
  <2>3. answered /\ \A i \in 1..Len(wire') : wire'[i].k \notin Answers
    BY <2>1, <2>2 DEF OneAnswer
  <2> QED
    BY <2>1, <2>3 DEF OneAnswer
<1>5. CASE WorkerReads
  <2>1. wire # <<>> /\ wire' = Tail(wire) /\ UNCHANGED <<pc, answered>>
    BY <1>5 DEF WorkerReads, streamVars
  <2>2. /\ Len(wire') = Len(wire) - 1
        /\ \A i \in 1..Len(wire') : wire'[i] = wire[i + 1]
        /\ wire[1] = Head(wire)
        /\ Len(wire) \in Nat \ {0}
    BY <2>1, TailFacts
  <2> QED
    BY <2>1, <2>2 DEF OneAnswer
<1>6. CASE CallFails
  BY <1>6 DEF CallFails, Fail, OneAnswer, sockVars, workerVars, chanVars,
       streamVars
<1>7. CASE PrepareFails
  BY <1>7 DEF PrepareFails, Fail, OneAnswer, sockVars, workerVars, chanVars,
       streamVars
<1>8. CASE Prepare
  BY <1>8 DEF Prepare, OneAnswer, sockVars, workerVars, chanVars, streamVars
<1>9. CASE NextReturnsReady
  BY <1>9 DEF NextReturnsReady, Return, OneAnswer, sockVars, workerVars,
       chanVars, streamVars
<1>10. CASE NextStarts
  BY <1>10 DEF NextStarts, OneAnswer, sockVars, workerVars, chanVars,
       streamVars
<1>11. CASE NextSeesInterrupt
  BY <1>11 DEF NextSeesInterrupt, End, OneAnswer, sockVars, workerVars,
       chanVars, streamVars
<1>12. CASE NextPolls
  BY <1>12 DEF NextPolls, OneAnswer, sockVars, workerVars, chanVars,
       streamVars
<1>13. CASE NextReceives
  BY <1>13 DEF NextReceives, Return, OneAnswer, sockVars, workerVars,
       chanVars, streamVars
<1>14. CASE NextSeesDisconnect
  BY <1>14 DEF NextSeesDisconnect, End, OneAnswer, sockVars, workerVars,
       chanVars, streamVars
<1>15. CASE NextTimesOut
  BY <1>15 DEF NextTimesOut, OneAnswer, sockVars, workerVars, chanVars,
       streamVars
<1>16. CASE DropReceiver
  BY <1>16 DEF DropReceiver, OneAnswer, sockVars, workerVars, chanVars,
       streamVars
<1>17. CASE DropInterrupts
  BY <1>17 DEF DropInterrupts, ShutSocket, OneAnswer, sockVars, workerVars,
       chanVars, streamVars
<1>18. CASE DropJoins
  BY <1>18 DEF DropJoins, OneAnswer, sockVars, workerVars, chanVars,
       streamVars
<1>19. CASE UNCHANGED <<pc, wire, answered>>
  BY <1>19 DEF OneAnswer
<1> QED
  BY <1>1, <1>2, <1>3, <1>4, <1>5, <1>6, <1>7, <1>8, <1>9, <1>10, <1>11,
       <1>12, <1>13, <1>14, <1>15, <1>16, <1>17, <1>18, <1>19
  DEF Next, Editor, Setup, Worker, Pull, InNext, InDrop, Finished, Answers,
       vars, sockVars, workerVars, chanVars, streamVars, EditorHangsUp,
       Interrupt, WorkerPops, WorkerMeetsEof, WorkerSends, WorkerMeetsDrop,
       WorkerMeetsFull, WorkerShutsSocket, WorkerDropsClient,
       WorkerSendsOverflow, WorkerGivesUp, WorkerExits, Takes, ShutSocket

\* No item gets a number the editor has not reached.
LEMMA SentStep ==
    ASSUME TypeOK, Flow, Sent, [Next]_vars
    PROVE  Sent'
<1> USE DEF TypeOK
<1>1. ASSUME NEW kind \in Numbered, EditorSends(kind)
      PROVE  Sent'
  <2> DEFINE m == [k |-> kind, n |-> emitted + 1]
  <2>1. m \in WireMessage /\ m.n <= emitted'
    <3>1. emitted \in Nat /\ emitted + 1 \in Nat /\ kind \in WireKinds
      BY <1>1 DEF WireKinds, Answers
    <3>2. m \in WireMessage
      BY <3>1, Kinds
    <3> QED
      BY <1>1, <3>1, <3>2 DEF EditorSends
  <2>2. wire' = Append(wire, m) /\ UNCHANGED <<held, backlog, chan>>
    BY <1>1 DEF EditorSends, workerVars, chanVars
  <2> HIDE DEF m
  <2>3. /\ Len(wire') = Len(wire) + 1
        /\ \A i \in 1..Len(wire) : wire'[i] = wire[i]
        /\ wire'[Len(wire) + 1] = m
        /\ Len(wire) \in Nat
    BY <2>1, <2>2, AppendFacts, LenProperties
  <2>4. emitted' = emitted + 1 /\ emitted \in Nat /\ held.n \in Nat
    BY <1>1, Kinds DEF EditorSends
  <2>5. \A i \in 1..Len(wire') : wire'[i].n <= emitted'
    <3> TAKE i \in 1..Len(wire')
    <3>1. CASE i = Len(wire) + 1
      BY <2>1, <2>3, <3>1
    <3>2. CASE i \in 1..Len(wire)
      <4>1. wire'[i] = wire[i] /\ wire[i].n <= emitted /\ wire[i].n \in Nat
        BY <2>3, <3>2, ElementOfSeq, Kinds DEF Sent
      <4> QED
        BY <2>4, <4>1
    <3> QED
      BY <2>3, <3>1, <3>2
  <2>6. /\ \A i \in 1..Len(backlog) : backlog[i].n \in Nat
        /\ \A i \in 1..Len(chan) : chan[i].n \in Nat
    BY ElementOfSeq, Kinds
  <2>7. /\ held.n <= emitted'
        /\ \A i \in 1..Len(backlog) : backlog[i].n <= emitted'
        /\ \A i \in 1..Len(chan) : chan[i].n <= emitted'
    <3> DEFINE E == emitted'
    <3>1. E \in Nat /\ emitted <= E
      BY <2>4
    <3> HIDE DEF E
    <3>2. held.n <= E
      BY <2>4, <3>1 DEF Sent
    <3>3. ASSUME NEW i \in 1..Len(backlog)
          PROVE  backlog[i].n <= E
      <4>1. backlog[i].n \in Nat /\ backlog[i].n <= emitted
        BY <2>6 DEF Sent
      <4> QED
        BY <2>4, <3>1, <4>1
    <3>4. ASSUME NEW i \in 1..Len(chan)
          PROVE  chan[i].n <= E
      <4>1. chan[i].n \in Nat /\ chan[i].n <= emitted
        BY <2>6 DEF Sent
      <4> QED
        BY <2>4, <3>1, <4>1
    <3> QED
      BY <3>2, <3>3, <3>4 DEF E
  <2> QED
    BY <2>2, <2>5, <2>7 DEF Sent
<1>2. ASSUME NEW kind \in Answers, EditorAnswers(kind)
      PROVE  Sent'
  <2> DEFINE m == [k |-> kind, n |-> emitted]
  <2>1. m \in WireMessage /\ m.n <= emitted'
    <3>1. emitted \in Nat /\ emitted + 1 \in Nat /\ kind \in WireKinds
      BY <1>2 DEF WireKinds, Answers
    <3>2. m \in WireMessage
      BY <3>1, Kinds
    <3> QED
      BY <1>2, <3>1, <3>2 DEF EditorAnswers
  <2>2. wire' = Append(wire, m) /\ UNCHANGED <<held, backlog, chan>>
    BY <1>2 DEF EditorAnswers, workerVars, chanVars
  <2> HIDE DEF m
  <2>3. /\ Len(wire') = Len(wire) + 1
        /\ \A i \in 1..Len(wire) : wire'[i] = wire[i]
        /\ wire'[Len(wire) + 1] = m
        /\ Len(wire) \in Nat
    BY <2>1, <2>2, AppendFacts, LenProperties
  <2>4. emitted' = emitted /\ emitted \in Nat /\ held.n \in Nat
    BY <1>2, Kinds DEF EditorAnswers
  <2>5. \A i \in 1..Len(wire') : wire'[i].n <= emitted'
    <3> TAKE i \in 1..Len(wire')
    <3>1. CASE i = Len(wire) + 1
      BY <2>1, <2>3, <3>1
    <3>2. CASE i \in 1..Len(wire)
      <4>1. wire'[i] = wire[i] /\ wire[i].n <= emitted /\ wire[i].n \in Nat
        BY <2>3, <3>2, ElementOfSeq, Kinds DEF Sent
      <4> QED
        BY <2>4, <4>1
    <3> QED
      BY <2>3, <3>1, <3>2
  <2>6. /\ \A i \in 1..Len(backlog) : backlog[i].n \in Nat
        /\ \A i \in 1..Len(chan) : chan[i].n \in Nat
    BY ElementOfSeq, Kinds
  <2>7. /\ held.n <= emitted'
        /\ \A i \in 1..Len(backlog) : backlog[i].n <= emitted'
        /\ \A i \in 1..Len(chan) : chan[i].n <= emitted'
    <3> DEFINE E == emitted'
    <3>1. E \in Nat /\ emitted <= E
      BY <2>4
    <3> HIDE DEF E
    <3>2. held.n <= E
      BY <2>4, <3>1 DEF Sent
    <3>3. ASSUME NEW i \in 1..Len(backlog)
          PROVE  backlog[i].n <= E
      <4>1. backlog[i].n \in Nat /\ backlog[i].n <= emitted
        BY <2>6 DEF Sent
      <4> QED
        BY <2>4, <3>1, <4>1
    <3>4. ASSUME NEW i \in 1..Len(chan)
          PROVE  chan[i].n <= E
      <4>1. chan[i].n \in Nat /\ chan[i].n <= emitted
        BY <2>6 DEF Sent
      <4> QED
        BY <2>4, <3>1, <4>1
    <3> QED
      BY <3>2, <3>3, <3>4 DEF E
  <2> QED
    BY <2>2, <2>5, <2>7 DEF Sent
<1>3. CASE CallStashes
  <2>1. /\ wire # <<>>
        /\ wire' = Tail(wire)
        /\ backlog' = Append(backlog, Head(wire))
        /\ UNCHANGED <<emitted, held, chan>>
    BY <1>3 DEF CallStashes, chanVars
  <2>2. /\ Len(wire') = Len(wire) - 1
        /\ \A i \in 1..Len(wire') : wire'[i] = wire[i + 1]
        /\ wire[1] = Head(wire)
        /\ Len(wire) \in Nat \ {0}
    BY <2>1, TailFacts
  <2>3. Head(wire) \in Notification
    BY <1>3, TailFacts, Kinds DEF CallStashes
  <2>4. /\ Len(backlog') = Len(backlog) + 1
        /\ \A i \in 1..Len(backlog) : backlog'[i] = backlog[i]
        /\ backlog'[Len(backlog) + 1] = wire[1]
        /\ Len(backlog) \in Nat
    BY <2>1, <2>2, <2>3, AppendFacts, LenProperties
  <2>5. \A i \in 1..Len(backlog') : backlog'[i].n <= emitted
    BY <2>2, <2>4 DEF Sent
  <2> QED
    BY <2>1, <2>2, <2>5 DEF Sent
<1>4. CASE CallReturns
  <2>1. wire # <<>> /\ wire' = Tail(wire) /\ UNCHANGED <<emitted, held, backlog, chan>>
    BY <1>4 DEF CallReturns, workerVars, chanVars
  <2>2. /\ Len(wire') = Len(wire) - 1
        /\ \A i \in 1..Len(wire') : wire'[i] = wire[i + 1]
        /\ wire[1] = Head(wire)
        /\ Len(wire) \in Nat \ {0}
    BY <2>1, TailFacts
  <2> QED
    BY <2>1, <2>2 DEF Sent
<1>5. CASE WorkerReads
  <2>1. /\ wire # <<>>
        /\ wire' = Tail(wire)
        /\ held' = Head(wire)
        /\ UNCHANGED <<emitted, backlog, chan>>
    BY <1>5 DEF WorkerReads, Takes, chanVars
  <2>2. /\ Len(wire') = Len(wire) - 1
        /\ \A i \in 1..Len(wire') : wire'[i] = wire[i + 1]
        /\ wire[1] = Head(wire)
        /\ Len(wire) \in Nat \ {0}
    BY <2>1, TailFacts
  <2> QED
    BY <2>1, <2>2 DEF Sent
<1>6. CASE WorkerPops
  <2>1. /\ backlog # <<>>
        /\ backlog' = Tail(backlog)
        /\ held' = Head(backlog)
        /\ UNCHANGED <<emitted, wire, chan>>
    BY <1>6 DEF WorkerPops, Takes, sockVars, chanVars
  <2>2. /\ Len(backlog') = Len(backlog) - 1
        /\ \A i \in 1..Len(backlog') : backlog'[i] = backlog[i + 1]
        /\ backlog[1] = Head(backlog)
        /\ Len(backlog) \in Nat \ {0}
    BY <2>1, TailFacts
  <2> QED
    BY <2>1, <2>2 DEF Sent
<1>7. CASE WorkerMeetsEof
  <2>1. held'.n = held.n /\ UNCHANGED <<emitted, wire, backlog, chan>>
    BY <1>7 DEF WorkerMeetsEof, Takes, sockVars, chanVars
  <2> QED
    BY <2>1 DEF Sent
<1>8. CASE WorkerSends
  <2>1. chan' = Append(chan, held) /\ UNCHANGED <<emitted, wire, backlog, held>>
    BY <1>8 DEF WorkerSends, sockVars
  <2>2. /\ Len(chan') = Len(chan) + 1
        /\ \A i \in 1..Len(chan) : chan'[i] = chan[i]
        /\ chan'[Len(chan) + 1] = held
        /\ Len(chan) \in Nat
    BY <2>1, AppendFacts, LenProperties
  <2> QED
    BY <2>1, <2>2 DEF Sent
<1>9. CASE WorkerSendsOverflow
  <2>1. /\ chan' = Append(chan, OverflowItem)
        /\ UNCHANGED <<emitted, wire, backlog, held>>
    BY <1>9 DEF WorkerSendsOverflow, sockVars
  <2>2. OverflowItem \in Item
    BY <1>9, OverflowType DEF WorkerSendsOverflow
  <2>3. /\ Len(chan') = Len(chan) + 1
        /\ \A i \in 1..Len(chan) : chan'[i] = chan[i]
        /\ chan'[Len(chan) + 1] = OverflowItem
        /\ Len(chan) \in Nat
    BY <2>1, <2>2, AppendFacts, LenProperties
  <2>4. OverflowItem.n <= emitted
    <3>1. held.n \in Nat /\ emitted \in Nat /\ held.n <= emitted
      BY Kinds DEF Sent
    <3> QED
      BY <3>1 DEF OverflowItem
  <2> QED
    BY <2>1, <2>3, <2>4 DEF Sent
<1>10. CASE NextReceives
  <2>1. chan # <<>> /\ chan' = Tail(chan) /\ UNCHANGED <<emitted, wire, backlog, held>>
    BY <1>10 DEF NextReceives, sockVars, workerVars
  <2>2. /\ Len(chan') = Len(chan) - 1
        /\ \A i \in 1..Len(chan') : chan'[i] = chan[i + 1]
        /\ chan[1] = Head(chan)
        /\ Len(chan) \in Nat \ {0}
    BY <2>1, TailFacts
  <2> QED
    BY <2>1, <2>2 DEF Sent
<1>11. CASE DropReceiver
  <2>1. chan' = <<>> /\ UNCHANGED <<emitted, wire, backlog, held>>
    BY <1>11 DEF DropReceiver, sockVars, workerVars
  <2> QED
    BY <2>1, EmptySeq DEF Sent
<1>12. CASE UNCHANGED <<held, emitted, wire, backlog, chan>>
  BY <1>12 DEF Sent
<1> QED
  BY <1>1, <1>2, <1>3, <1>4, <1>5, <1>6, <1>7, <1>8, <1>9, <1>10, <1>11, <1>12
  DEF Next, Editor, Setup, Worker, Pull, InNext, InDrop, Finished, Answers,
       vars, sockVars, workerVars, chanVars, streamVars, EditorHangsUp,
       Interrupt, CallFails, PrepareFails, Prepare, WorkerMeetsDrop,
       WorkerMeetsFull, WorkerShutsSocket, WorkerDropsClient, WorkerGivesUp,
       WorkerExits, NextReturnsReady, NextStarts, NextSeesInterrupt,
       NextPolls, NextSeesDisconnect, NextTimesOut, DropInterrupts, DropJoins,
       Fail, ShutSocket, Return, End

\* The ready record is returned once, before anything else.
LEMMA ReadyFirstStep ==
    ASSUME TypeOK, Control, Flow, ReadyFirst, [Next]_vars
    PROVE  ReadyFirst'
<1> USE DEF TypeOK
<1>1. CASE WorkerPops
  <2>1. held' \in Notification /\ UNCHANGED <<items, chan>>
    BY <1>1, TailFacts DEF WorkerPops, Takes, chanVars, streamVars
  <2> QED
    BY <2>1 DEF ReadyFirst, Notification
<1>2. CASE WorkerReads
  <2>1. held' \in WireMessage /\ UNCHANGED <<items, chan>>
    BY <1>2, TailFacts DEF WorkerReads, Takes, chanVars, streamVars
  <2> QED
    BY <2>1 DEF ReadyFirst, WireMessage, WireKinds, Numbered
<1>3. CASE WorkerMeetsEof
  BY <1>3 DEF WorkerMeetsEof, Takes, ReadyFirst, sockVars, workerVars,
       chanVars, streamVars
<1>4. CASE WorkerSends
  <2>1. /\ chan' = Append(chan, held)
        /\ held.k # "ready"
        /\ worker' # "send"
        /\ UNCHANGED items
    BY <1>4 DEF WorkerSends, ReadyFirst, streamVars
  <2>2. /\ Len(chan') = Len(chan) + 1
        /\ \A i \in 1..Len(chan) : chan'[i] = chan[i]
        /\ chan'[Len(chan) + 1] = held
        /\ Len(chan) \in Nat
    BY <2>1, AppendFacts, LenProperties
  <2> QED
    BY <2>1, <2>2 DEF ReadyFirst
<1>5. CASE WorkerSendsOverflow
  <2>1. /\ chan' = Append(chan, OverflowItem)
        /\ OverflowItem.k # "ready"
        /\ worker' # "send"
        /\ UNCHANGED items
    BY <1>5 DEF WorkerSendsOverflow, OverflowItem, streamVars
  <2>2. OverflowItem \in Item
    BY <1>5, OverflowType DEF WorkerSendsOverflow
  <2>3. /\ Len(chan') = Len(chan) + 1
        /\ \A i \in 1..Len(chan) : chan'[i] = chan[i]
        /\ chan'[Len(chan) + 1] = OverflowItem
        /\ Len(chan) \in Nat
    BY <2>1, <2>2, AppendFacts, LenProperties
  <2> QED
    BY <2>1, <2>3 DEF ReadyFirst
<1>6. CASE Prepare
  BY <1>6 DEF Prepare, ReadyFirst, sockVars, workerVars, chanVars, streamVars
<1>7. CASE WorkerMeetsDrop
  BY <1>7 DEF WorkerMeetsDrop, ReadyFirst, sockVars, workerVars, chanVars,
       streamVars
<1>8. CASE WorkerMeetsFull
  BY <1>8 DEF WorkerMeetsFull, ReadyFirst, sockVars, workerVars, chanVars,
       streamVars
<1>9. CASE WorkerShutsSocket
  BY <1>9 DEF WorkerShutsSocket, ShutSocket, ReadyFirst, sockVars, workerVars,
       chanVars, streamVars
<1>10. CASE WorkerDropsClient
  BY <1>10 DEF WorkerDropsClient, ReadyFirst, sockVars, workerVars, chanVars,
       streamVars
<1>11. CASE WorkerGivesUp
  BY <1>11 DEF WorkerGivesUp, ReadyFirst, sockVars, workerVars, chanVars,
       streamVars
<1>12. CASE WorkerExits
  BY <1>12 DEF WorkerExits, ReadyFirst, sockVars, workerVars, chanVars,
       streamVars
<1>13. CASE NextReturnsReady
  <2>1. items = <<>> /\ items' = Append(items, [k |-> "ready", n |-> 0])
    BY <1>13 DEF NextReturnsReady, Return, Control
  <2>2. [k |-> "ready", n |-> 0] \in Item
    BY Kinds DEF ItemKinds
  <2>3. items'[1] = [k |-> "ready", n |-> 0]
    BY <2>1, <2>2, AppendFacts, EmptySeq
  <2>4. UNCHANGED <<worker, held, chan>>
    BY <1>13 DEF NextReturnsReady, workerVars, chanVars
  <2> QED
    BY <2>3, <2>4 DEF ReadyFirst
<1>14. CASE NextReceives
  <2>1. /\ chan # <<>>
        /\ chan' = Tail(chan)
        /\ items # <<>>
        /\ items' = Append(items, Head(chan))
        /\ UNCHANGED <<worker, held>>
    BY <1>14 DEF NextReceives, Return, workerVars, Control
  <2>2. /\ Len(chan') = Len(chan) - 1
        /\ \A i \in 1..Len(chan') : chan'[i] = chan[i + 1]
        /\ chan[1] = Head(chan)
        /\ Len(chan) \in Nat \ {0}
    BY <2>1, TailFacts
  <2>3. Head(chan) \in Item /\ Len(items) \in Nat \ {0}
    BY <2>1, TailFacts
  <2>4. items'[1] = items[1]
    BY <2>1, <2>3, AppendFacts
  <2> QED
    BY <2>1, <2>2, <2>4 DEF ReadyFirst
<1>15. CASE DropReceiver
  <2>1. chan' = <<>> /\ UNCHANGED <<worker, held, items>>
    BY <1>15 DEF DropReceiver, workerVars
  <2> QED
    BY <2>1, EmptySeq DEF ReadyFirst
<1>16. CASE UNCHANGED <<items, worker, held, chan>>
  BY <1>16 DEF ReadyFirst
<1> QED
  BY <1>1, <1>2, <1>3, <1>4, <1>5, <1>6, <1>7, <1>8, <1>9, <1>10, <1>11,
       <1>12, <1>13, <1>14, <1>15, <1>16
  DEF Next, Editor, Setup, Worker, Pull, InNext, InDrop, Finished, Answers,
       vars, sockVars, workerVars, chanVars, streamVars, EditorSends,
       EditorAnswers, EditorHangsUp, Interrupt, CallStashes, CallReturns,
       CallFails, PrepareFails, NextStarts, NextSeesInterrupt, NextPolls,
       NextSeesDisconnect, NextTimesOut, DropInterrupts, DropJoins, Fail, End,
       ShutSocket

\* Descriptors are held by the threads that may still use them.
LEMMA DescriptorsStep ==
    ASSUME TypeOK, Control, Descriptors, [Next]_vars
    PROVE  Descriptors'
<1> USE DEF TypeOK
<1>1. CASE EditorHangsUp
  BY <1>1 DEF EditorHangsUp, Descriptors, Control, SetupStates, sockVars,
       workerVars, chanVars, streamVars
<1>2. CASE CallReturns
  BY <1>2 DEF CallReturns, Descriptors, Control, SetupStates, sockVars,
       workerVars, chanVars, streamVars
<1>3. CASE CallFails
  BY <1>3 DEF CallFails, Fail, Descriptors, Control, SetupStates, sockVars,
       workerVars, chanVars, streamVars
<1>4. CASE PrepareFails
  BY <1>4 DEF PrepareFails, Fail, Descriptors, Control, SetupStates, sockVars,
       workerVars, chanVars, streamVars
<1>5. CASE Prepare
  BY <1>5 DEF Prepare, Descriptors, Control, SetupStates, sockVars,
       workerVars, chanVars, streamVars
<1>6. CASE WorkerPops
  BY <1>6 DEF WorkerPops, Takes, Descriptors, Control, SetupStates, sockVars,
       workerVars, chanVars, streamVars
<1>7. CASE WorkerReads
  BY <1>7 DEF WorkerReads, Takes, Descriptors, Control, SetupStates, sockVars,
       workerVars, chanVars, streamVars
<1>8. CASE WorkerMeetsEof
  BY <1>8 DEF WorkerMeetsEof, Takes, Descriptors, Control, SetupStates,
       sockVars, workerVars, chanVars, streamVars
<1>9. CASE WorkerSends
  BY <1>9 DEF WorkerSends, Descriptors, Control, SetupStates, sockVars,
       workerVars, chanVars, streamVars
<1>10. CASE WorkerMeetsDrop
  BY <1>10 DEF WorkerMeetsDrop, Descriptors, Control, SetupStates, sockVars,
       workerVars, chanVars, streamVars
<1>11. CASE WorkerMeetsFull
  BY <1>11 DEF WorkerMeetsFull, Descriptors, Control, SetupStates, sockVars,
       workerVars, chanVars, streamVars
<1>12. CASE WorkerShutsSocket
  BY <1>12 DEF WorkerShutsSocket, ShutSocket, Descriptors, Control,
       SetupStates, sockVars, workerVars, chanVars, streamVars
<1>13. CASE WorkerDropsClient
  BY <1>13 DEF WorkerDropsClient, Descriptors, Control, SetupStates, sockVars,
       workerVars, chanVars, streamVars
<1>14. CASE WorkerSendsOverflow
  BY <1>14 DEF WorkerSendsOverflow, Descriptors, Control, SetupStates,
       sockVars, workerVars, chanVars, streamVars
<1>15. CASE WorkerGivesUp
  BY <1>15 DEF WorkerGivesUp, Descriptors, Control, SetupStates, sockVars,
       workerVars, chanVars, streamVars
<1>16. CASE WorkerExits
  BY <1>16 DEF WorkerExits, Descriptors, Control, SetupStates, sockVars,
       workerVars, chanVars, streamVars
<1>17. CASE NextReturnsReady
  BY <1>17 DEF NextReturnsReady, Return, Descriptors, Control, SetupStates,
       sockVars, workerVars, chanVars, streamVars
<1>18. CASE NextStarts
  BY <1>18 DEF NextStarts, Descriptors, Control, SetupStates, sockVars,
       workerVars, chanVars, streamVars
<1>19. CASE NextSeesInterrupt
  BY <1>19 DEF NextSeesInterrupt, End, Descriptors, Control, SetupStates,
       sockVars, workerVars, chanVars, streamVars
<1>20. CASE NextPolls
  BY <1>20 DEF NextPolls, Descriptors, Control, SetupStates, sockVars,
       workerVars, chanVars, streamVars
<1>21. CASE NextReceives
  BY <1>21 DEF NextReceives, Return, Descriptors, Control, SetupStates,
       sockVars, workerVars, chanVars, streamVars
<1>22. CASE NextSeesDisconnect
  BY <1>22 DEF NextSeesDisconnect, End, Descriptors, Control, SetupStates,
       sockVars, workerVars, chanVars, streamVars
<1>23. CASE NextTimesOut
  BY <1>23 DEF NextTimesOut, Descriptors, Control, SetupStates, sockVars,
       workerVars, chanVars, streamVars
<1>24. CASE DropReceiver
  BY <1>24 DEF DropReceiver, Descriptors, Control, SetupStates, sockVars,
       workerVars, chanVars, streamVars
<1>25. CASE DropInterrupts
  BY <1>25 DEF DropInterrupts, ShutSocket, Descriptors, Control, SetupStates,
       sockVars, workerVars, chanVars, streamVars
<1>26. CASE DropJoins
  BY <1>26 DEF DropJoins, Descriptors, Control, SetupStates, sockVars,
       workerVars, chanVars, streamVars
<1>27. CASE UNCHANGED <<pc, fds, sock, worker>>
  BY <1>27 DEF Descriptors
<1> QED
  BY <1>1, <1>2, <1>3, <1>4, <1>5, <1>6, <1>7, <1>8, <1>9, <1>10, <1>11,
       <1>12, <1>13, <1>14, <1>15, <1>16, <1>17, <1>18, <1>19, <1>20, <1>21,
       <1>22, <1>23, <1>24, <1>25, <1>26, <1>27
  DEF Next, Editor, Setup, Worker, Pull, InNext, InDrop, Finished, Answers,
       vars, sockVars, workerVars, chanVars, streamVars, EditorSends,
       EditorAnswers, Interrupt, CallStashes

\* A terminal item stops the worker, is the last item, and ends the stream.
LEMMA EndingStep ==
    ASSUME TypeOK, Control, Flow, Ending, [Next]_vars
    PROVE  Ending'
<1> USE DEF TypeOK
<1>1. CASE WorkerSends
  <2>1. /\ chan' = Append(chan, held)
        /\ rx /\ rx'
        /\ worker = "send"
        /\ worker' = (IF held.k \in Terminal THEN "break" ELSE "read")
        /\ UNCHANGED <<items, ended>>
    BY <1>1 DEF WorkerSends, streamVars
  <2>2. /\ chan' # <<>>
        /\ Last(chan') = held
        /\ Len(chan') = Len(chan) + 1
        /\ \A i \in 1..Len(chan) : chan'[i] = chan[i]
        /\ Len(chan) \in Nat
        /\ chan # <<>> => Last(chan) = chan[Len(chan)]
    BY <2>1, AppendFacts, LenProperties DEF Last
  <2>3. \A i \in 1..(Len(chan') - 1) : chan'[i].k \notin Terminal
    <3> TAKE i \in 1..(Len(chan') - 1)
    <3>1. i \in 1..Len(chan) /\ chan'[i] = chan[i]
      BY <2>2
    <3>2. CASE i = Len(chan)
      <4>1. chan # <<>>
        BY <3>1, <3>2, EmptySeq
      <4> QED
        BY <2>1, <2>2, <3>1, <3>2, <4>1 DEF Ending
    <3>3. CASE i \in 1..(Len(chan) - 1)
      BY <3>1, <3>3 DEF Ending
    <3> QED
      BY <2>2, <3>1, <3>2, <3>3
  <2> QED
    BY <2>1, <2>2, <2>3 DEF Ending
<1>2. CASE WorkerSendsOverflow
  <2>1. /\ chan' = Append(chan, OverflowItem)
        /\ rx /\ rx'
        /\ worker = "overflow"
        /\ worker' = "break"
        /\ OverflowItem.k \in Terminal
        /\ UNCHANGED <<items, ended>>
    BY <1>2 DEF WorkerSendsOverflow, OverflowItem, Terminal, Errors, streamVars
  <2>2. OverflowItem \in Item
    BY <1>2, OverflowType DEF WorkerSendsOverflow
  <2>3. /\ chan' # <<>>
        /\ Last(chan') = OverflowItem
        /\ Len(chan') = Len(chan) + 1
        /\ \A i \in 1..Len(chan) : chan'[i] = chan[i]
        /\ Len(chan) \in Nat
        /\ chan # <<>> => Last(chan) = chan[Len(chan)]
    BY <2>1, <2>2, AppendFacts, LenProperties DEF Last
  <2>4. \A i \in 1..(Len(chan') - 1) : chan'[i].k \notin Terminal
    <3> TAKE i \in 1..(Len(chan') - 1)
    <3>1. i \in 1..Len(chan) /\ chan'[i] = chan[i]
      BY <2>3
    <3>2. CASE i = Len(chan)
      <4>1. chan # <<>>
        BY <3>1, <3>2, EmptySeq
      <4> QED
        BY <2>1, <2>3, <3>1, <3>2, <4>1 DEF Ending
    <3>3. CASE i \in 1..(Len(chan) - 1)
      BY <3>1, <3>3 DEF Ending
    <3> QED
      BY <2>3, <3>1, <3>2, <3>3
  <2> QED
    BY <2>1, <2>3, <2>4 DEF Ending
<1>3. CASE Prepare
  BY <1>3 DEF Prepare, Ending, Control, SetupStates, sockVars, workerVars,
       chanVars, streamVars
<1>4. CASE WorkerPops
  BY <1>4 DEF WorkerPops, Takes, Ending, Control, SetupStates, sockVars,
       workerVars, chanVars, streamVars
<1>5. CASE WorkerReads
  BY <1>5 DEF WorkerReads, Takes, Ending, Control, SetupStates, sockVars,
       workerVars, chanVars, streamVars
<1>6. CASE WorkerMeetsEof
  BY <1>6 DEF WorkerMeetsEof, Takes, Ending, Control, SetupStates, sockVars,
       workerVars, chanVars, streamVars
<1>7. CASE WorkerMeetsDrop
  BY <1>7 DEF WorkerMeetsDrop, Ending, Control, SetupStates, sockVars,
       workerVars, chanVars, streamVars
<1>8. CASE WorkerMeetsFull
  BY <1>8 DEF WorkerMeetsFull, Ending, Control, SetupStates, sockVars,
       workerVars, chanVars, streamVars
<1>9. CASE WorkerShutsSocket
  BY <1>9 DEF WorkerShutsSocket, ShutSocket, Ending, Control, SetupStates,
       sockVars, workerVars, chanVars, streamVars
<1>10. CASE WorkerDropsClient
  BY <1>10 DEF WorkerDropsClient, Ending, Control, SetupStates, sockVars,
       workerVars, chanVars, streamVars
<1>11. CASE WorkerGivesUp
  BY <1>11 DEF WorkerGivesUp, Ending, Control, SetupStates, sockVars,
       workerVars, chanVars, streamVars
<1>12. CASE WorkerExits
  BY <1>12 DEF WorkerExits, Ending, Control, SetupStates, sockVars,
       workerVars, chanVars, streamVars
<1>13. CASE NextReturnsReady
  <2>1. /\ items = <<>>
        /\ items' = Append(items, [k |-> "ready", n |-> 0])
        /\ UNCHANGED <<chan, rx, worker, ended>>
    BY <1>13 DEF NextReturnsReady, Return, workerVars, chanVars, Control
  <2>2. [k |-> "ready", n |-> 0] \in Item /\ "ready" \notin Terminal
    BY Kinds DEF ItemKinds, Terminal, Errors
  <2>3. /\ items' # <<>>
        /\ Last(items') = [k |-> "ready", n |-> 0]
        /\ Len(items') = Len(items) + 1
        /\ \A i \in 1..Len(items) : items'[i] = items[i]
        /\ Len(items) \in Nat
        /\ items # <<>> => Last(items) = items[Len(items)]
    BY <2>1, <2>2, AppendFacts, LenProperties DEF Last
  <2>4. Len(items') = 1
    BY <2>1, <2>3, EmptySeq
  <2>5. rx /\ worker \in {"break", "done"} => chan # <<>>
    BY <2>1 DEF Ending
  <2>6. "ready" \notin Errors
    BY DEF Errors
  <2> QED
    BY <2>1, <2>2, <2>3, <2>4, <2>5, <2>6 DEF Ending
<1>14. CASE NextReceives
  <2>1. /\ chan # <<>>
        /\ chan' = Tail(chan)
        /\ items' = Append(items, Head(chan))
        /\ ended' = (IF Head(chan).k \in Errors THEN "error" ELSE ended)
        /\ rx /\ rx'
        /\ worker' = worker
    BY <1>14 DEF NextReceives, Return, workerVars, Control, NextStates
  <2>2. /\ Len(chan') = Len(chan) - 1
        /\ \A i \in 1..Len(chan') : chan'[i] = chan[i + 1]
        /\ chan[1] = Head(chan)
        /\ Head(chan) \in Item
        /\ Len(chan) \in Nat \ {0}
        /\ chan' # <<>> => Last(chan') = Last(chan)
        /\ chan' = <<>> => Len(chan) = 1 /\ Last(chan) = Head(chan)
    BY <2>1, TailFacts
  <2>3. /\ items' # <<>>
        /\ Last(items') = Head(chan)
        /\ Len(items') = Len(items) + 1
        /\ \A i \in 1..Len(items) : items'[i] = items[i]
        /\ Len(items) \in Nat
        /\ items # <<>> => Last(items) = items[Len(items)]
    BY <2>1, <2>2, AppendFacts, LenProperties DEF Last
  <2>4. \A i \in 1..(Len(items') - 1) : items'[i].k \notin Terminal
    <3> TAKE i \in 1..(Len(items') - 1)
    <3>1. i \in 1..Len(items) /\ items'[i] = items[i]
      BY <2>3
    <3>2. CASE i = Len(items)
      <4>1. items # <<>>
        BY <3>1, <3>2, EmptySeq
      <4> QED
        BY <2>1, <2>3, <3>1, <3>2, <4>1 DEF Ending
    <3>3. CASE i \in 1..(Len(items) - 1)
      BY <3>1, <3>3 DEF Ending
    <3> QED
      BY <2>3, <3>1, <3>2, <3>3
  <2>5. \A i \in 1..(Len(chan') - 1) : chan'[i].k \notin Terminal
    <3> TAKE i \in 1..(Len(chan') - 1)
    <3>1. chan'[i] = chan[i + 1] /\ i + 1 \in 1..(Len(chan) - 1)
      BY <2>2
    <3> QED
      BY <3>1 DEF Ending
  <2>6. chan' # <<>> => Last(items').k \notin Terminal
    <3> SUFFICES ASSUME chan' # <<>>
                 PROVE  Head(chan).k \notin Terminal
      BY <2>3
    <3>1. Len(chan') \in Nat \ {0}
      BY <2>1, <2>2, EmptySeq, TailFacts
    <3>2. 1 \in 1..(Len(chan) - 1)
      BY <2>2, <3>1
    <3> QED
      BY <2>2, <3>2 DEF Ending
  <2>7. worker \notin {"break", "done"} =>
           /\ Last(items').k \notin Terminal
           /\ chan' # <<>> => Last(chan').k \notin Terminal
    <3> SUFFICES ASSUME worker \notin {"break", "done"}
                 PROVE  /\ Last(items').k \notin Terminal
                        /\ chan' # <<>> => Last(chan').k \notin Terminal
      OBVIOUS
    <3>1. Last(chan).k \notin Terminal
      BY <2>1 DEF Ending
    <3>2. CASE chan' = <<>>
      BY <2>2, <2>3, <3>1, <3>2
    <3>3. CASE chan' # <<>>
      BY <2>2, <2>6, <3>1, <3>3
    <3> QED
      BY <3>2, <3>3
  <2>8. worker \in {"break", "done"} =>
           /\ chan' # <<>> => Last(chan').k \in Terminal
           /\ chan' = <<>> => Last(items').k \in Terminal
    BY <2>1, <2>2, <2>3 DEF Ending
  <2>9. Last(items').k \in Errors => ended' = "error"
    BY <2>1, <2>3
  <2> QED
    BY <2>1, <2>3, <2>4, <2>5, <2>6, <2>7, <2>8, <2>9 DEF Ending
<1>15. CASE NextSeesInterrupt
  <2>1. items # <<>> /\ Last(items).k \in Errors => FALSE
    BY <1>15 DEF NextSeesInterrupt, Ending, Control
  <2> QED
    BY <1>15, <2>1 DEF NextSeesInterrupt, End, sockVars, workerVars, chanVars, Ending
<1>16. CASE NextSeesDisconnect
  <2>1. items # <<>> /\ Last(items).k \in Errors => FALSE
    BY <1>16 DEF NextSeesDisconnect, Ending, Control
  <2> QED
    BY <1>16, <2>1 DEF NextSeesDisconnect, End, sockVars, workerVars, chanVars, Ending
<1>17. CASE DropReceiver
  <2>1. chan' = <<>> /\ ~rx' /\ UNCHANGED <<worker, items, ended>>
    BY <1>17 DEF DropReceiver, workerVars
  <2> QED
    BY <2>1, EmptySeq DEF Ending
<1>18. CASE UNCHANGED <<items, chan, rx, worker, ended>>
  BY <1>18 DEF Ending
<1> QED
  BY <1>1, <1>2, <1>3, <1>4, <1>5, <1>6, <1>7, <1>8, <1>9, <1>10, <1>11,
       <1>12, <1>13, <1>14, <1>15, <1>16, <1>17, <1>18
  DEF Next, Editor, Setup, Worker, Pull, InNext, InDrop, Finished, Answers,
       vars, sockVars, workerVars, chanVars, streamVars, EditorSends,
       EditorAnswers, EditorHangsUp, Interrupt, CallStashes, CallReturns,
       CallFails, PrepareFails, NextStarts, NextPolls, NextTimesOut,
       DropInterrupts, DropJoins, Fail, ShutSocket

\* An empty sequence is a chain that ends where it starts.
LEMMA EmptyChain ==
    ASSUME NEW n
    PROVE  Chain(<<>>, n) /\ EndOf(<<>>, n) = n
  BY EmptySeq DEF Chain, EndOf

\* The ends of the chains Flow is about are numbers.
LEMMA FlowTypes ==
    ASSUME TypeOK
    PROVE  /\ EndOf(items, 0) \in Nat
           /\ EndOf(chan, EndOf(items, 0)) \in Nat
           /\ held.n \in Nat
           /\ EndOf(backlog, held.n) \in Nat
           /\ emitted \in Nat
<1>1. EndOf(items, 0) \in Nat
  BY EndOfType DEF TypeOK, Item
<1>2. EndOf(chan, EndOf(items, 0)) \in Nat
  BY <1>1, EndOfType DEF TypeOK, Item
<1>3. held.n \in Nat
  BY Kinds DEF TypeOK
<1>4. EndOf(backlog, held.n) \in Nat
  BY <1>3, EndOfType DEF TypeOK, Notification
<1>5. emitted \in Nat
  BY WatchAssumption DEF TypeOK
<1> QED
  BY <1>1, <1>2, <1>3, <1>4, <1>5

\* The editor's messages stay in order and without a gap on their way to the
\* pipeline.
LEMMA FlowStep ==
    ASSUME TypeOK, Control, Flow, [Next]_vars
    PROVE  Flow'
<1> USE DEF TypeOK
<1>1. ASSUME NEW kind \in Numbered, EditorSends(kind)
      PROVE  Flow'
  <2> DEFINE m == [k |-> kind, n |-> emitted + 1]
             c == EndOf(backlog, held.n)
  <2>1. m \in WireMessage
    <3>1. emitted \in Nat /\ emitted + 1 \in Nat /\ kind \in WireKinds
      BY <1>1, FlowTypes DEF WireKinds, Answers
    <3> QED
      BY <3>1, Kinds
  <2>2. Chain(wire, c) /\ Continues(EndOf(wire, c), m)
    BY <1>1 DEF Flow, Continues, Numbered, Answers
  <2>3. /\ wire' = Append(wire, m)
        /\ emitted' = m.n
        /\ UNCHANGED <<items, chan, rx, worker, held, backlog>>
    BY <1>1 DEF EditorSends, workerVars, chanVars, streamVars
  <2> HIDE DEF m, c
  <2>4. Chain(wire', c) /\ emitted' = EndOf(wire', c)
    BY <2>1, <2>2, <2>3, ChainAppend
  <2> QED
    BY <2>3, <2>4 DEF Flow, c
<1>2. ASSUME NEW kind \in Answers, EditorAnswers(kind)
      PROVE  Flow'
  <2> DEFINE m == [k |-> kind, n |-> emitted]
             c == EndOf(backlog, held.n)
  <2>1. m \in WireMessage
    <3>1. emitted \in Nat /\ emitted + 1 \in Nat /\ kind \in WireKinds
      BY <1>2, FlowTypes DEF WireKinds, Answers
    <3> QED
      BY <3>1, Kinds
  <2>2. Chain(wire, c) /\ Continues(EndOf(wire, c), m)
    BY <1>2 DEF Flow, Continues, Numbered, Answers
  <2>3. /\ wire' = Append(wire, m)
        /\ emitted' = m.n
        /\ UNCHANGED <<items, chan, rx, worker, held, backlog>>
    BY <1>2 DEF EditorAnswers, workerVars, chanVars, streamVars
  <2> HIDE DEF m, c
  <2>4. Chain(wire', c) /\ emitted' = EndOf(wire', c)
    BY <2>1, <2>2, <2>3, ChainAppend
  <2> QED
    BY <2>3, <2>4 DEF Flow, c
<1>3. CASE CallStashes
  <2> DEFINE c == EndOf(backlog, held.n)
             h == Head(wire)
  <2>1. /\ wire # <<>>
        /\ wire' = Tail(wire)
        /\ backlog' = Append(backlog, h)
        /\ UNCHANGED <<emitted, items, chan, rx, worker, held>>
    BY <1>3 DEF CallStashes, chanVars, streamVars
  <2>2. h \in Notification
    BY <1>3, TailFacts, Kinds DEF CallStashes
  <2>3. /\ Continues(c, h)
        /\ Chain(wire', h.n)
        /\ EndOf(wire', h.n) = emitted
    BY <2>1, ChainTail DEF Flow
  <2>4. Chain(backlog', held.n) /\ EndOf(backlog', held.n) = h.n
    BY <2>1, <2>2, <2>3, ChainAppend DEF Flow
  <2> HIDE DEF h
  <2> QED
    BY <2>1, <2>3, <2>4 DEF Flow
<1>4. CASE CallReturns
  <2> DEFINE c == EndOf(backlog, held.n)
             h == Head(wire)
  <2>1. /\ wire # <<>>
        /\ wire' = Tail(wire)
        /\ UNCHANGED <<emitted, items, chan, rx, worker, held, backlog>>
    BY <1>4 DEF CallReturns, workerVars, chanVars
  <2>2. /\ Continues(c, h)
        /\ Chain(wire', h.n)
        /\ EndOf(wire', h.n) = emitted
    BY <2>1, ChainTail DEF Flow
  <2>3. h.n = c
    BY <1>4, <2>2 DEF CallReturns, Continues, Numbered
  <2> HIDE DEF h
  <2> QED
    BY <2>1, <2>2, <2>3 DEF Flow
<1>5. CASE WorkerPops
  <2> DEFINE h == Head(backlog)
  <2>1. /\ backlog # <<>>
        /\ backlog' = Tail(backlog)
        /\ held' = h
        /\ worker = "read"
        /\ worker' = "send"
        /\ UNCHANGED <<emitted, wire, items, chan, rx>>
    BY <1>5 DEF WorkerPops, Takes, sockVars, chanVars, streamVars
  <2>2. /\ Continues(held.n, h)
        /\ Chain(backlog', h.n)
        /\ EndOf(backlog', h.n) = EndOf(backlog, held.n)
    BY <2>1, ChainTail DEF Flow
  <2> HIDE DEF h
  <2> QED
    BY <2>1, <2>2 DEF Flow
<1>6. CASE WorkerReads
  <2> DEFINE h == Head(wire)
  <2>1. /\ wire # <<>>
        /\ wire' = Tail(wire)
        /\ backlog = <<>>
        /\ held' = h
        /\ worker = "read"
        /\ worker' = "send"
        /\ UNCHANGED <<emitted, backlog, items, chan, rx>>
    BY <1>6 DEF WorkerReads, Takes, chanVars, streamVars
  <2>2. EndOf(backlog, held.n) = held.n
    BY <2>1, EmptyChain
  <2>3. /\ Continues(held.n, h)
        /\ Chain(wire', h.n)
        /\ EndOf(wire', h.n) = emitted
    BY <2>1, <2>2, ChainTail DEF Flow
  <2>4. Chain(backlog, h.n) /\ EndOf(backlog, h.n) = h.n
    BY <2>1, EmptyChain
  <2> HIDE DEF h
  <2> QED
    BY <2>1, <2>3, <2>4 DEF Flow
<1>7. CASE WorkerMeetsEof
  <2>1. /\ held'.n = held.n
        /\ held'.k = "eof"
        /\ worker = "read"
        /\ worker' = "send"
        /\ UNCHANGED <<emitted, wire, backlog, items, chan, rx>>
    BY <1>7 DEF WorkerMeetsEof, Takes, sockVars, chanVars, streamVars
  <2>2. rx => Continues(EndOf(chan, EndOf(items, 0)), held')
    BY <2>1 DEF Flow, Continues, Numbered
  <2> QED
    BY <2>1, <2>2 DEF Flow
<1>8. CASE WorkerSends
  <2> DEFINE a == EndOf(items, 0)
  <2>1. /\ chan' = Append(chan, held)
        /\ rx
        /\ worker = "send"
        /\ worker' \notin {"unborn", "send"} \cup OverflowStates
        /\ UNCHANGED <<emitted, wire, backlog, held, items, rx>>
    BY <1>8 DEF WorkerSends, OverflowStates, sockVars, streamVars
  <2>2. Chain(chan, a) /\ Continues(EndOf(chan, a), held)
    BY <2>1 DEF Flow
  <2>3. Chain(chan', a) /\ EndOf(chan', a) = held.n
    BY <2>1, <2>2, ChainAppend
  <2> QED
    BY <2>1, <2>3 DEF Flow
<1>9. CASE WorkerSendsOverflow
  <2> DEFINE a == EndOf(items, 0)
  <2>1. /\ chan' = Append(chan, OverflowItem)
        /\ rx
        /\ worker = "overflow"
        /\ worker' \notin {"unborn", "send"} \cup OverflowStates
        /\ UNCHANGED <<emitted, wire, backlog, held, items, rx>>
    BY <1>9 DEF WorkerSendsOverflow, OverflowStates, sockVars, streamVars
  <2>2. worker' = "break"
    BY <1>9 DEF WorkerSendsOverflow
  <2>3. OverflowItem \in Item
    BY <2>1, OverflowType
  <2>4. Chain(chan, a) /\ Continues(EndOf(chan, a), held)
    BY <2>1 DEF Flow, OverflowStates
  <2>5. Continues(EndOf(chan, a), OverflowItem)
    BY <2>4, FlowTypes DEF Continues, OverflowItem, Numbered
  <2>6. Chain(chan', a)
    BY <2>1, <2>3, <2>4, <2>5, ChainAppend
  <2> QED
    BY <2>1, <2>2, <2>6 DEF Flow, OverflowStates
<1>10. CASE Prepare
  BY <1>10 DEF Prepare, Flow, OverflowStates, Control, SetupStates, sockVars,
       workerVars, chanVars, streamVars
<1>11. CASE WorkerMeetsDrop
  BY <1>11 DEF WorkerMeetsDrop, Flow, OverflowStates, Control, SetupStates,
       sockVars, workerVars, chanVars, streamVars
<1>12. CASE WorkerMeetsFull
  BY <1>12 DEF WorkerMeetsFull, Flow, OverflowStates, Control, SetupStates,
       sockVars, workerVars, chanVars, streamVars
<1>13. CASE WorkerShutsSocket
  BY <1>13 DEF WorkerShutsSocket, ShutSocket, Flow, OverflowStates, Control,
       SetupStates, sockVars, workerVars, chanVars, streamVars
<1>14. CASE WorkerDropsClient
  BY <1>14 DEF WorkerDropsClient, Flow, OverflowStates, Control, SetupStates,
       sockVars, workerVars, chanVars, streamVars
<1>15. CASE WorkerGivesUp
  BY <1>15 DEF WorkerGivesUp, Flow, OverflowStates, Control, SetupStates,
       sockVars, workerVars, chanVars, streamVars
<1>16. CASE WorkerExits
  BY <1>16 DEF WorkerExits, Flow, OverflowStates, Control, SetupStates,
       sockVars, workerVars, chanVars, streamVars
<1>17. CASE NextReturnsReady
  <2> DEFINE r == [k |-> "ready", n |-> 0]
  <2>1. /\ items = <<>>
        /\ items' = Append(items, r)
        /\ UNCHANGED <<emitted, wire, backlog, held, chan, rx, worker>>
    BY <1>17 DEF NextReturnsReady, Return, sockVars, workerVars, chanVars, Control
  <2>2. r \in Item
    BY Kinds DEF ItemKinds
  <2>3. EndOf(items, 0) = 0 /\ Chain(items, 0)
    BY <2>1, EmptyChain
  <2>4. Continues(EndOf(items, 0), r)
    BY <2>3 DEF Continues, Numbered
  <2> HIDE DEF r
  <2>5. Chain(items', 0) /\ EndOf(items', 0) = r.n
    <3>1. items \in Seq(Item) /\ items' = Append(items, r)
      BY <2>1
    <3> QED
      BY <2>2, <2>3, <2>4, <3>1, ChainAppend
  <2>6. EndOf(items', 0) = EndOf(items, 0)
    BY <2>3, <2>5 DEF r
  <2> QED
    BY <2>1, <2>5, <2>6 DEF Flow
<1>18. CASE NextReceives
  <2> DEFINE a == EndOf(items, 0)
             h == Head(chan)
  <2>1. /\ chan # <<>>
        /\ chan' = Tail(chan)
        /\ items' = Append(items, h)
        /\ UNCHANGED <<emitted, wire, backlog, held, rx, worker>>
    BY <1>18 DEF NextReceives, Return, sockVars, workerVars
  <2>2. h \in Item
    BY <2>1, TailFacts
  <2>3. /\ Continues(a, h)
        /\ Chain(chan', h.n)
        /\ EndOf(chan', h.n) = EndOf(chan, a)
    BY <2>1, ChainTail DEF Flow
  <2>4. Chain(items', 0) /\ EndOf(items', 0) = h.n
    BY <2>1, <2>2, <2>3, ChainAppend DEF Flow
  <2> HIDE DEF h
  <2> QED
    BY <2>1, <2>3, <2>4 DEF Flow
<1>19. CASE DropReceiver
  <2>1. /\ chan' = <<>>
        /\ ~rx'
        /\ UNCHANGED <<emitted, wire, backlog, held, items, worker>>
    BY <1>19 DEF DropReceiver, sockVars, workerVars
  <2> QED
    BY <2>1, EmptyChain DEF Flow
<1>20. CASE UNCHANGED <<items, chan, rx, worker, held, backlog, wire, emitted>>
  BY <1>20 DEF Flow
<1> QED
  BY <1>1, <1>2, <1>3, <1>4, <1>5, <1>6, <1>7, <1>8, <1>9, <1>10, <1>11,
       <1>12, <1>13, <1>14, <1>15, <1>16, <1>17, <1>18, <1>19, <1>20
  DEF Next, Editor, Setup, Worker, Pull, InNext, InDrop, Finished, Answers,
       vars, sockVars, workerVars, chanVars, streamVars, EditorHangsUp,
       Interrupt, CallFails, PrepareFails, NextStarts, NextSeesInterrupt,
       NextPolls, NextSeesDisconnect, NextTimesOut, DropInterrupts, DropJoins,
       Fail, End, ShutSocket

\* An overflow follows a full channel and a closed connection.
LEMMA OverflowingStep ==
    ASSUME TypeOK, Control, Flow, Ending, Overflowing, [Next]_vars
    PROVE  Overflowing'
<1> USE DEF TypeOK
<1>1. CASE EditorHangsUp
  BY <1>1 DEF EditorHangsUp, Overflowing, Available, Connected, sockVars,
       workerVars, chanVars, streamVars
<1>2. CASE Prepare
  BY <1>2 DEF Prepare, Overflowing, Available, OverflowStates, Control,
       SetupStates, sockVars, workerVars, chanVars, streamVars
<1>3. CASE WorkerPops
  <2>1. held' \in Notification /\ worker' = "send"
    BY <1>3, TailFacts DEF WorkerPops, Takes
  <2>2. held'.k # "overflow"
    BY <2>1 DEF Notification
  <2> QED
    BY <1>3, <2>1, <2>2 DEF WorkerPops, sockVars, chanVars, streamVars,
       Overflowing, Available, OverflowStates
<1>4. CASE WorkerMeetsEof
  BY <1>4 DEF WorkerMeetsEof, Takes, Overflowing, Available, OverflowStates,
       Control, SetupStates, sockVars, workerVars, chanVars, streamVars
<1>5. CASE WorkerMeetsDrop
  BY <1>5 DEF WorkerMeetsDrop, Overflowing, Available, OverflowStates,
       Control, SetupStates, sockVars, workerVars, chanVars, streamVars
<1>6. CASE WorkerDropsClient
  BY <1>6 DEF WorkerDropsClient, Overflowing, Available, OverflowStates,
       Control, SetupStates, sockVars, workerVars, chanVars, streamVars
<1>7. CASE WorkerGivesUp
  BY <1>7 DEF WorkerGivesUp, Overflowing, Available, OverflowStates, Control,
       SetupStates, sockVars, workerVars, chanVars, streamVars
<1>8. CASE WorkerExits
  BY <1>8 DEF WorkerExits, Overflowing, Available, OverflowStates, Control,
       SetupStates, sockVars, workerVars, chanVars, streamVars
<1>9. CASE WorkerReads
  <2>1. held' \in WireMessage /\ worker' = "send"
    BY <1>9, TailFacts DEF WorkerReads, Takes
  <2>2. held'.k # "overflow"
    BY <2>1 DEF WireMessage, WireKinds, Numbered
  <2> QED
    BY <1>9, <2>1, <2>2 DEF WorkerReads, chanVars, streamVars,
       Overflowing, Available, OverflowStates
<1>10. CASE WorkerMeetsFull
  <2>1. Len(chan) >= Capacity /\ Len(chan) \in Nat /\ Len(items) \in Nat
    BY <1>10, LenProperties DEF WorkerMeetsFull
  <2>2. ~ready => Len(items) # 0
    BY EmptySeq DEF Control
  <2>3. Available >= Capacity + 1
    BY <2>1, <2>2, WatchAssumption DEF Available
  <2> QED
    BY <1>10, <2>3 DEF WorkerMeetsFull, sockVars, chanVars, streamVars,
       Overflowing, Available, OverflowStates
<1>11. CASE WorkerShutsSocket
  <2>1. sock' # "open"
    BY <1>11 DEF WorkerShutsSocket, ShutSocket
  <2> QED
    BY <1>11, <2>1 DEF WorkerShutsSocket, chanVars, streamVars,
       Overflowing, Available, OverflowStates
<1>12. CASE WorkerSends
  <2>1. /\ chan' = Append(chan, held)
        /\ held.k # "overflow"
        /\ worker' \in {"break", "read"}
        /\ UNCHANGED <<sock, items, ready, rx>>
    BY <1>12 DEF WorkerSends, Overflowing, sockVars, streamVars
  <2>2. /\ Len(chan') = Len(chan) + 1
        /\ \A i \in 1..Len(chan) : chan'[i] = chan[i]
        /\ chan'[Len(chan) + 1] = held
        /\ Len(chan) \in Nat
        /\ Len(items) \in Nat
    BY <2>1, AppendFacts, LenProperties
  <2>3. Available' = Available + 1 /\ Available \in Nat
    BY <2>1, <2>2 DEF Available
  <2>4. ASSUME NEW i \in 1..Len(chan'), chan'[i].k = "overflow"
        PROVE  sock # "open" /\ Available >= Capacity + 2 /\ ~ready
    <3>1. i \in 1..Len(chan) /\ chan[i].k = "overflow"
      BY <2>1, <2>2, <2>4
    <3> QED
      BY <3>1 DEF Overflowing
  <2>5. \A i \in 1..Len(chan') : chan'[i].k = "overflow" =>
           sock' # "open" /\ Available' >= Capacity + 2 /\ ~ready'
    BY <2>1, <2>3, <2>4, WatchAssumption
  <2> QED
    BY <2>1, <2>5 DEF Overflowing, OverflowStates
<1>13. CASE WorkerSendsOverflow
  <2>1. /\ chan' = Append(chan, OverflowItem)
        /\ Len(chan) < Capacity
        /\ rx
        /\ worker = "overflow"
        /\ worker' = "break"
        /\ UNCHANGED <<sock, items, ready, rx>>
    BY <1>13 DEF WorkerSendsOverflow, sockVars, streamVars
  <2>2. OverflowItem \in Item
    BY <2>1, OverflowType
  <2>3. /\ Len(chan') = Len(chan) + 1
        /\ \A i \in 1..Len(chan) : chan'[i] = chan[i]
        /\ chan'[Len(chan) + 1] = OverflowItem
        /\ Len(chan) \in Nat
        /\ Len(items) \in Nat
    BY <2>1, <2>2, AppendFacts, LenProperties
  <2>4. Available' = Available + 1 /\ Available \in Nat
    BY <2>1, <2>3 DEF Available
  <2>5. Available >= Capacity + 1 /\ sock # "open"
    BY <2>1 DEF Overflowing, OverflowStates
  <2>6. ~ready
    <3> SUFFICES ASSUME ready
                 PROVE  FALSE
      OBVIOUS
    <3>1. Len(items) = 0
      BY EmptySeq DEF Control
    <3>2. Available = Len(chan) + 1
      BY <2>3, <3>1 DEF Available
    <3> QED
      BY <2>1, <2>3, <2>5, <3>2, WatchAssumption
  <2>7. Available' >= Capacity + 2
    BY <2>4, <2>5, WatchAssumption
  <2> QED
    BY <2>1, <2>5, <2>6, <2>7 DEF Overflowing, OverflowStates
<1>14. CASE NextReturnsReady
  <2> DEFINE r == [k |-> "ready", n |-> 0]
  <2>1. /\ items = <<>>
        /\ items' = Append(items, r)
        /\ ready
        /\ ~ready'
        /\ UNCHANGED <<sock, chan, rx, worker, held>>
    BY <1>14 DEF NextReturnsReady, Return, sockVars, workerVars, chanVars, Control
  <2>2. r \in Item /\ r.k # "overflow"
    BY Kinds DEF ItemKinds
  <2> HIDE DEF r
  <2>3. Len(items') = Len(items) + 1 /\ items'[Len(items) + 1] = r /\ Len(items) = 0
    BY <2>1, <2>2, AppendFacts, EmptySeq
  <2>4. \A i \in 1..Len(items') : items'[i].k # "overflow"
    BY <2>2, <2>3
  <2>5. Available' = Available
    BY <2>1, <2>3, LenProperties DEF Available
  <2> QED
    BY <2>1, <2>4, <2>5 DEF Overflowing, OverflowStates
<1>15. CASE NextReceives
  <2> DEFINE h == Head(chan)
  <2>1. /\ chan # <<>>
        /\ chan' = Tail(chan)
        /\ items' = Append(items, h)
        /\ ~ready
        /\ UNCHANGED <<sock, ready, rx, worker, held>>
    BY <1>15 DEF NextReceives, Return, sockVars, workerVars, Control
  <2>2. /\ Len(chan') = Len(chan) - 1
        /\ \A i \in 1..Len(chan') : chan'[i] = chan[i + 1]
        /\ chan[1] = h
        /\ h \in Item
        /\ Len(chan) \in Nat \ {0}
    BY <2>1, TailFacts
  <2>3. /\ Len(items') = Len(items) + 1
        /\ \A i \in 1..Len(items) : items'[i] = items[i]
        /\ items'[Len(items) + 1] = h
        /\ Len(items) \in Nat
    BY <2>1, <2>2, AppendFacts, LenProperties
  <2> HIDE DEF h
  <2>4. Available' = Available /\ Available = Len(items) + Len(chan)
    BY <2>1, <2>2, <2>3 DEF Available
  <2>5. h.k = "overflow" => sock # "open" /\ Len(items') >= Capacity + 2
    <3> SUFFICES ASSUME h.k = "overflow"
                 PROVE  sock # "open" /\ Len(items') >= Capacity + 2
      OBVIOUS
    <3>1. sock # "open" /\ Available >= Capacity + 2
      BY <2>2 DEF Overflowing
    <3>2. Len(chan) = 1
      <4> SUFFICES ASSUME Len(chan) > 1
                   PROVE  FALSE
        BY <2>2
      <4>1. 1 \in 1..(Len(chan) - 1)
        BY <2>2
      <4> QED
        BY <2>2, <4>1 DEF Ending, Terminal, Errors
    <3> QED
      BY <2>3, <2>4, <3>1, <3>2
  <2>6. \A i \in 1..Len(items') : items'[i].k = "overflow" =>
           sock' # "open" /\ Len(items') >= Capacity + 2
    <3> SUFFICES ASSUME NEW i \in 1..Len(items'), items'[i].k = "overflow"
                 PROVE  sock # "open" /\ Len(items') >= Capacity + 2
      BY <2>1
    <3>1. CASE i = Len(items) + 1
      BY <2>3, <2>5, <3>1
    <3>2. CASE i \in 1..Len(items)
      <4>1. sock # "open" /\ Len(items) >= Capacity + 2
        BY <2>3, <3>2 DEF Overflowing
      <4> QED
        BY <2>3, <4>1, WatchAssumption
    <3> QED
      BY <2>3, <3>1, <3>2
  <2>7. \A i \in 1..Len(chan') : chan'[i].k = "overflow" =>
           sock' # "open" /\ Available' >= Capacity + 2 /\ ~ready'
    <3> SUFFICES ASSUME NEW i \in 1..Len(chan'), chan'[i].k = "overflow"
                 PROVE  sock # "open" /\ Available >= Capacity + 2 /\ ~ready
      BY <2>1, <2>4
    <3>1. i + 1 \in 1..Len(chan) /\ chan[i + 1].k = "overflow"
      BY <2>2
    <3> QED
      BY <3>1 DEF Overflowing
  <2> QED
    BY <2>1, <2>4, <2>6, <2>7 DEF Overflowing
<1>16. CASE DropReceiver
  <2>1. chan' = <<>> /\ ~rx' /\ UNCHANGED <<worker, items, sock, held, ready>>
    BY <1>16 DEF DropReceiver, sockVars, workerVars
  <2>2. \A i \in 1..Len(chan') : FALSE
    BY <2>1, EmptySeq
  <2> QED
    BY <2>1, <2>2 DEF Overflowing
<1>17. CASE DropInterrupts
  <2>1. sock # "open" => sock' # "open"
    BY <1>17 DEF DropInterrupts, ShutSocket
  <2> QED
    BY <1>17, <2>1 DEF DropInterrupts, workerVars, chanVars, Overflowing, Available,
       OverflowStates
<1>18. CASE UNCHANGED <<items, chan, rx, worker, held, sock, ready>>
  BY <1>18 DEF Overflowing, Available
<1> QED
  BY <1>1, <1>2, <1>3, <1>4, <1>5, <1>6, <1>7, <1>8, <1>9, <1>10, <1>11,
       <1>12, <1>13, <1>14, <1>15, <1>16, <1>17, <1>18
  DEF Next, Editor, Setup, Worker, Pull, InNext, InDrop, Finished, Answers,
       vars, sockVars, workerVars, chanVars, streamVars, EditorSends,
       EditorAnswers, Interrupt, CallStashes, CallReturns, CallFails,
       PrepareFails, NextStarts, NextSeesInterrupt, NextPolls,
       NextSeesDisconnect, NextTimesOut, DropJoins, Fail, End

\* A disconnected channel without an error is a detached buffer's.
LEMMA NoSilentEndStep ==
    ASSUME TypeOK, Control, Ending, NoSilentEnd, [Next]_vars
    PROVE  NoSilentEnd'
<1> USE DEF TypeOK
<1>1. CASE NextReturnsReady
  BY <1>1 DEF NextReturnsReady, Return, NoSilentEnd, sockVars, workerVars,
       chanVars, streamVars
<1>2. CASE NextReceives
  BY <1>2 DEF NextReceives, Return, NoSilentEnd, Control, sockVars,
       workerVars, chanVars, streamVars
<1>3. CASE NextSeesInterrupt
  BY <1>3 DEF NextSeesInterrupt, End, NoSilentEnd, sockVars, workerVars,
       chanVars, streamVars
<1>4. CASE NextSeesDisconnect
  <2>1. items # <<>> /\ Last(items).k \in Terminal /\ Last(items).k \notin Errors
    BY <1>4 DEF NextSeesDisconnect, Control, NextStates, Ending
  <2>2. Last(items).k = "detach"
    BY <2>1 DEF Terminal
  <2> QED
    BY <1>4, <2>1, <2>2 DEF NextSeesDisconnect, End, NoSilentEnd
<1>5. CASE UNCHANGED <<items, ended>>
  BY <1>5 DEF NoSilentEnd
<1> QED
  BY <1>1, <1>2, <1>3, <1>4, <1>5
  DEF Next, Editor, Setup, Worker, Pull, InNext, InDrop, Finished, Answers,
       vars, sockVars, workerVars, chanVars, streamVars, EditorSends,
       EditorAnswers, EditorHangsUp, Interrupt, CallStashes, CallReturns,
       CallFails, PrepareFails, Prepare, WorkerPops, WorkerReads,
       WorkerMeetsEof, WorkerSends, WorkerMeetsDrop, WorkerMeetsFull,
       WorkerShutsSocket, WorkerDropsClient, WorkerSendsOverflow,
       WorkerGivesUp, WorkerExits, NextStarts, NextPolls, NextTimesOut,
       DropReceiver, DropInterrupts, DropJoins, Fail, Takes, ShutSocket

\* The invariant holds when the installing call has just been written.
LEMMA InitIInv == Init => IInv
<1> SUFFICES ASSUME Init
             PROVE  IInv
  OBVIOUS
<1> USE DEF Init
<1>1. TypeOK
  <2>1. [k |-> "ready", n |-> 0] \in Item
    BY Kinds DEF ItemKinds
  <2>2. /\ <<>> \in Seq(WireMessage)
        /\ <<>> \in Seq(Notification)
        /\ <<>> \in Seq(Item)
        /\ Len(<<>>) <= Capacity
    BY EmptySeq, WatchAssumption
  <2>3. emitted \in 0..MaxMessages /\ fds \subseteq {"client", "interrupt", "overflow"}
    BY WatchAssumption
  <2>4. rx \in BOOLEAN /\ ready \in BOOLEAN /\ answered \in BOOLEAN /\ signal \in BOOLEAN
    OBVIOUS
  <2>5. wire \in Seq(WireMessage) /\ backlog \in Seq(Notification) /\ items \in Seq(Item)
    BY <2>2
  <2>6. held \in Item /\ chan \in Seq(Item) /\ Len(chan) <= Capacity
    BY <2>1, <2>2
  <2>7. /\ sock \in {"open", "hangup", "shut"}
        /\ worker \in {"unborn", "read", "send", "shutdown", "release", "overflow",
                       "break", "done"}
        /\ pc \in {"call", "prepare", "failed", "idle", "check", "recv",
                   "interrupt", "join", "gone"}
        /\ ended \in {"no", "interrupt", "error", "closed"}
    OBVIOUS
  <2> HIDE DEF Init
  <2> QED
    BY <2>3, <2>4, <2>5, <2>6, <2>7 DEF TypeOK
<1>2. Control
  BY DEF Control, SetupStates, NextStates
<1>3. OneAnswer
  BY EmptySeq DEF OneAnswer
<1>4. Flow
  BY EmptyChain DEF Flow, OverflowStates
<1>5. Sent /\ ReadyFirst
  BY EmptySeq DEF Sent, ReadyFirst
<1>6. Ending
  BY EmptySeq DEF Ending
<1>7. Overflowing
  BY EmptySeq DEF Overflowing, OverflowStates
<1>8. Descriptors /\ NoSilentEnd
  BY DEF Descriptors, NoSilentEnd
<1> QED
  BY <1>1, <1>2, <1>3, <1>4, <1>5, <1>6, <1>7, <1>8 DEF IInv

\* Every step preserves the invariant.
LEMMA StepIInv == IInv /\ [Next]_vars => IInv'
<1> SUFFICES ASSUME IInv, [Next]_vars
             PROVE  IInv'
  OBVIOUS
<1>1. /\ TypeOK /\ Control /\ OneAnswer /\ Flow /\ Sent /\ ReadyFirst
      /\ Ending /\ Overflowing /\ Descriptors /\ NoSilentEnd
  BY DEF IInv
<1>2. TypeOK' /\ Control' /\ OneAnswer' /\ Flow'
  BY <1>1, TypeStep, ControlStep, OneAnswerStep, FlowStep
<1>3. Sent' /\ ReadyFirst' /\ Ending'
  BY <1>1, SentStep, ReadyFirstStep, EndingStep
<1>4. Overflowing' /\ Descriptors' /\ NoSilentEnd'
  BY <1>1, OverflowingStep, DescriptorsStep, NoSilentEndStep
<1> QED
  BY <1>2, <1>3, <1>4 DEF IInv

(***************************************************************************)
(* The theorems.                                                           *)
(***************************************************************************)

\* The inductive invariant of watch.rs holds in every reachable state.
THEOREM Invariance == Spec => []IInv
  BY InitIInv, StepIInv, PTL DEF Spec

\* Every variable stays in its type; the channel never exceeds its bound.
THEOREM TypeCorrect == Spec => []TypeOK
<1>1. IInv => TypeOK
  BY DEF IInv
<1> QED
  BY <1>1, Invariance, PTL

\* The pipeline reads the editor's messages in order, none lost or repeated.
THEOREM Ordered == Spec => []InOrder
<1>1. IInv => InOrder
  BY DEF IInv, ReadyFirst, Flow, InOrder
<1> QED
  BY <1>1, Invariance, PTL

\* A stream that just stops has reported a detach (or was interrupted).
THEOREM EndsForAReason == Spec => []NoSilentEnd
<1>1. IInv => NoSilentEnd
  BY DEF IInv
<1> QED
  BY <1>1, Invariance, PTL

\* A terminal record is the last one.
THEOREM TerminalIsLast == Spec => []NothingAfterTerminal
<1>1. IInv => NothingAfterTerminal
  BY DEF IInv, Ending, NothingAfterTerminal
<1> QED
  BY <1>1, Invariance, PTL

\* Whoever reads an overflow error has read a full channel before it.
THEOREM OverflowIsLast == Spec => []OverflowAfterQueue
<1>1. ASSUME IInv, items # <<>>, Last(items).k = "overflow"
      PROVE  Len(items) >= Capacity + 2
  <2>1. items \in Seq(Item)
    BY <1>1 DEF IInv, TypeOK
  <2>2. Len(items) \in Nat \ {0}
    BY <1>1, <2>1, EmptySeq
  <2>3. Len(items) \in 1..Len(items)
    BY <2>2
  <2> QED
    BY <1>1, <2>3 DEF IInv, Overflowing, Last
<1>2. IInv => OverflowAfterQueue
  BY <1>1 DEF OverflowAfterQueue
<1> QED
  BY <1>2, Invariance, PTL

\* An overflow error is only ever met on a connection that is closed.
THEOREM OverflowIsClosed == Spec => []OverflowClosesConnection
<1>1. IInv => OverflowClosesConnection
  BY DEF IInv, Overflowing, OverflowClosesConnection, Connected
<1> QED
  BY <1>1, Invariance, PTL

\* Drop leaves neither a thread nor a descriptor.
THEOREM DropIsClean == Spec => []DropLeavesNothing
<1>1. IInv => DropLeavesNothing
  BY DEF IInv, Descriptors, Control, DropLeavesNothing
<1> QED
  BY <1>1, Invariance, PTL

(***************************************************************************)
(* WatchStream implements EventFeed: the refinement mapping is             *)
(* StatusOfFeed and Connected, and the steps are matched under IInv.       *)
(***************************************************************************)

\* What the abstract feed sees of a state, one phase at a time.
LEMMA StatusFacts ==
    /\ pc \in {"call", "prepare"} => StatusOfFeed = "opening"
    /\ pc = "failed" => StatusOfFeed = "failed"
    /\ pc \in NextStates =>
          StatusOfFeed = (IF ended = "no" THEN "open" ELSE "ended")
    /\ pc \in {"interrupt", "join"} => StatusOfFeed = "closing"
    /\ pc = "gone" => StatusOfFeed = "closed"
  BY DEF StatusOfFeed, NextStates

\* A step that leaves what the reader sees alone is a stutter of the feed,
\* or takes its link down.
LEMMA HiddenStep ==
    ASSUME Connected' => Connected,
           UNCHANGED <<emitted, items, StatusOfFeed, signal>>
    PROVE  [Feed!FeedNext]_Feed!feedVars
<1>1. CASE Connected' = Connected
  BY <1>1 DEF Feed!feedVars
<1>2. CASE Connected /\ ~Connected'
  <2>1. Feed!Disconnect
    BY <1>2 DEF Feed!Disconnect, Connected
  <2> QED
    BY <2>1 DEF Feed!FeedNext
<1> QED
  BY <1>1, <1>2 DEF Connected

\* Every step of the watch is a step of the feed.
LEMMA RefinementStep ==
    ASSUME IInv, [Next]_vars
    PROVE  [Feed!FeedNext]_Feed!feedVars
<1> USE DEF IInv
<1>1. ASSUME NEW kind \in Numbered, EditorSends(kind)
      PROVE  [Feed!FeedNext]_Feed!feedVars
  <2> Feed!Emit
    BY <1>1 DEF Feed!Emit, EditorSends, Connected, StatusOfFeed, Control,
       sockVars, workerVars, chanVars, streamVars
  <2> QED
    BY DEF Feed!FeedNext
<1>2. ASSUME NEW kind \in Answers, EditorAnswers(kind)
      PROVE  [Feed!FeedNext]_Feed!feedVars
  <2>1. Connected' => Connected
    BY <1>2 DEF EditorAnswers, Connected, StatusOfFeed, sockVars, workerVars,
       chanVars, streamVars
  <2>2. UNCHANGED <<emitted, items, StatusOfFeed, signal>>
    BY <1>2 DEF EditorAnswers, Connected, StatusOfFeed, sockVars, workerVars,
       chanVars, streamVars
  <2> QED
    BY <2>1, <2>2, HiddenStep
<1>3. CASE EditorHangsUp
  <2>1. Connected' => Connected
    BY <1>3 DEF EditorHangsUp, Connected, StatusOfFeed, sockVars, workerVars,
       chanVars, streamVars
  <2>2. UNCHANGED <<emitted, items, StatusOfFeed, signal>>
    BY <1>3 DEF EditorHangsUp, Connected, StatusOfFeed, sockVars, workerVars,
       chanVars, streamVars
  <2> QED
    BY <2>1, <2>2, HiddenStep
<1>4. CASE Interrupt
  <2> Feed!Interrupt
    BY <1>4 DEF Feed!Interrupt, Interrupt, Connected, StatusOfFeed, Control,
       sockVars, workerVars, chanVars, streamVars
  <2> QED
    BY DEF Feed!FeedNext
<1>5. CASE CallStashes
  <2>1. Connected' => Connected
    BY <1>5 DEF CallStashes, Connected, StatusOfFeed, sockVars, workerVars,
       chanVars, streamVars
  <2>2. UNCHANGED <<emitted, items, StatusOfFeed, signal>>
    BY <1>5 DEF CallStashes, Connected, StatusOfFeed, sockVars, workerVars,
       chanVars, streamVars
  <2> QED
    BY <2>1, <2>2, HiddenStep
<1>6. CASE CallReturns
  <2>1. Connected' => Connected
    BY <1>6 DEF CallReturns, Connected, StatusOfFeed, sockVars, workerVars,
       chanVars, streamVars
  <2>2. UNCHANGED <<emitted, items, StatusOfFeed, signal>>
    BY <1>6 DEF CallReturns, Connected, StatusOfFeed, sockVars, workerVars,
       chanVars, streamVars
  <2> QED
    BY <2>1, <2>2, HiddenStep
<1>7. CASE CallFails
  <2> Feed!Refuse
    BY <1>7 DEF Feed!Refuse, CallFails, Fail, Connected, StatusOfFeed, Control,
       sockVars, workerVars, chanVars, streamVars
  <2> QED
    BY DEF Feed!FeedNext
<1>8. CASE PrepareFails
  <2> Feed!Refuse
    BY <1>8 DEF Feed!Refuse, PrepareFails, Fail, Connected, StatusOfFeed,
       Control, sockVars, workerVars, chanVars, streamVars
  <2> QED
    BY DEF Feed!FeedNext
<1>9. CASE Prepare
  <2> Feed!Open
    BY <1>9 DEF Feed!Open, Prepare, Connected, StatusOfFeed, Control, SetupStates,
       Descriptors, sockVars, workerVars, chanVars, streamVars
  <2> QED
    BY DEF Feed!FeedNext
<1>10. CASE WorkerPops
  <2>1. Connected' => Connected
    BY <1>10 DEF WorkerPops, Takes, Connected, StatusOfFeed, sockVars, workerVars,
       chanVars, streamVars
  <2>2. UNCHANGED <<emitted, items, StatusOfFeed, signal>>
    BY <1>10 DEF WorkerPops, Takes, Connected, StatusOfFeed, sockVars, workerVars,
       chanVars, streamVars
  <2> QED
    BY <2>1, <2>2, HiddenStep
<1>11. CASE WorkerReads
  <2>1. Connected' => Connected
    BY <1>11 DEF WorkerReads, Takes, Connected, StatusOfFeed, sockVars,
       workerVars, chanVars, streamVars
  <2>2. UNCHANGED <<emitted, items, StatusOfFeed, signal>>
    BY <1>11 DEF WorkerReads, Takes, Connected, StatusOfFeed, sockVars,
       workerVars, chanVars, streamVars
  <2> QED
    BY <2>1, <2>2, HiddenStep
<1>12. CASE WorkerMeetsEof
  <2>1. Connected' => Connected
    BY <1>12 DEF WorkerMeetsEof, Takes, Connected, StatusOfFeed, sockVars,
       workerVars, chanVars, streamVars
  <2>2. UNCHANGED <<emitted, items, StatusOfFeed, signal>>
    BY <1>12 DEF WorkerMeetsEof, Takes, Connected, StatusOfFeed, sockVars,
       workerVars, chanVars, streamVars
  <2> QED
    BY <2>1, <2>2, HiddenStep
<1>13. CASE WorkerSends
  <2>1. Connected' => Connected
    BY <1>13 DEF WorkerSends, Connected, StatusOfFeed, sockVars, workerVars,
       chanVars, streamVars
  <2>2. UNCHANGED <<emitted, items, StatusOfFeed, signal>>
    BY <1>13 DEF WorkerSends, Connected, StatusOfFeed, sockVars, workerVars,
       chanVars, streamVars
  <2> QED
    BY <2>1, <2>2, HiddenStep
<1>14. CASE WorkerMeetsDrop
  <2>1. Connected' => Connected
    BY <1>14 DEF WorkerMeetsDrop, Connected, StatusOfFeed, sockVars, workerVars,
       chanVars, streamVars
  <2>2. UNCHANGED <<emitted, items, StatusOfFeed, signal>>
    BY <1>14 DEF WorkerMeetsDrop, Connected, StatusOfFeed, sockVars, workerVars,
       chanVars, streamVars
  <2> QED
    BY <2>1, <2>2, HiddenStep
<1>15. CASE WorkerMeetsFull
  <2>1. Connected' => Connected
    BY <1>15 DEF WorkerMeetsFull, Connected, StatusOfFeed, sockVars, workerVars,
       chanVars, streamVars
  <2>2. UNCHANGED <<emitted, items, StatusOfFeed, signal>>
    BY <1>15 DEF WorkerMeetsFull, Connected, StatusOfFeed, sockVars, workerVars,
       chanVars, streamVars
  <2> QED
    BY <2>1, <2>2, HiddenStep
<1>16. CASE WorkerShutsSocket
  <2>1. Connected' => Connected
    BY <1>16 DEF WorkerShutsSocket, ShutSocket, Connected, StatusOfFeed, sockVars,
       workerVars, chanVars, streamVars
  <2>2. UNCHANGED <<emitted, items, StatusOfFeed, signal>>
    BY <1>16 DEF WorkerShutsSocket, ShutSocket, Connected, StatusOfFeed, sockVars,
       workerVars, chanVars, streamVars
  <2> QED
    BY <2>1, <2>2, HiddenStep
<1>17. CASE WorkerDropsClient
  <2>1. Connected' => Connected
    BY <1>17 DEF WorkerDropsClient, Connected, StatusOfFeed, sockVars, workerVars,
       chanVars, streamVars
  <2>2. UNCHANGED <<emitted, items, StatusOfFeed, signal>>
    BY <1>17 DEF WorkerDropsClient, Connected, StatusOfFeed, sockVars, workerVars,
       chanVars, streamVars
  <2> QED
    BY <2>1, <2>2, HiddenStep
<1>18. CASE WorkerSendsOverflow
  <2>1. Connected' => Connected
    BY <1>18 DEF WorkerSendsOverflow, Connected, StatusOfFeed, sockVars,
       workerVars, chanVars, streamVars
  <2>2. UNCHANGED <<emitted, items, StatusOfFeed, signal>>
    BY <1>18 DEF WorkerSendsOverflow, Connected, StatusOfFeed, sockVars,
       workerVars, chanVars, streamVars
  <2> QED
    BY <2>1, <2>2, HiddenStep
<1>19. CASE WorkerGivesUp
  <2>1. Connected' => Connected
    BY <1>19 DEF WorkerGivesUp, Connected, StatusOfFeed, sockVars, workerVars,
       chanVars, streamVars
  <2>2. UNCHANGED <<emitted, items, StatusOfFeed, signal>>
    BY <1>19 DEF WorkerGivesUp, Connected, StatusOfFeed, sockVars, workerVars,
       chanVars, streamVars
  <2> QED
    BY <2>1, <2>2, HiddenStep
<1>20. CASE WorkerExits
  <2>1. Connected' => Connected
    BY <1>20 DEF WorkerExits, Connected, StatusOfFeed, sockVars, workerVars,
       chanVars, streamVars
  <2>2. UNCHANGED <<emitted, items, StatusOfFeed, signal>>
    BY <1>20 DEF WorkerExits, Connected, StatusOfFeed, sockVars, workerVars,
       chanVars, streamVars
  <2> QED
    BY <2>1, <2>2, HiddenStep
<1>21. CASE NextReturnsReady
  <2>1. items = <<>> /\ items' = Append(items, [k |-> "ready", n |-> 0])
    BY <1>21 DEF NextReturnsReady, Return, Control
  <2>2. items' = <<[k |-> "ready", n |-> 0]>>
    BY <2>1
  <2> Feed!DeliverReady
    BY <1>21, <2>1, <2>2 DEF Feed!DeliverReady, NextReturnsReady, Return,
       Connected, StatusOfFeed, Control, sockVars, workerVars, chanVars,
       streamVars
  <2> QED
    BY DEF Feed!FeedNext
<1>22. CASE NextStarts
  <2>1. Connected' => Connected
    BY <1>22 DEF NextStarts, Connected, StatusOfFeed, sockVars, workerVars,
       chanVars, streamVars
  <2>2. UNCHANGED <<emitted, items, StatusOfFeed, signal>>
    BY <1>22 DEF NextStarts, Connected, StatusOfFeed, sockVars, workerVars,
       chanVars, streamVars
  <2> QED
    BY <2>1, <2>2, HiddenStep
<1>23. CASE NextSeesInterrupt
  <2> Feed!EndInterrupted
    BY <1>23 DEF Feed!EndInterrupted, NextSeesInterrupt, End, Connected,
       StatusOfFeed, Control, sockVars, workerVars, chanVars, streamVars
  <2> QED
    BY DEF Feed!FeedNext
<1>24. CASE NextPolls
  <2>1. Connected' => Connected
    BY <1>24 DEF NextPolls, Connected, StatusOfFeed, sockVars, workerVars,
       chanVars, streamVars
  <2>2. UNCHANGED <<emitted, items, StatusOfFeed, signal>>
    BY <1>24 DEF NextPolls, Connected, StatusOfFeed, sockVars, workerVars,
       chanVars, streamVars
  <2> QED
    BY <2>1, <2>2, HiddenStep
<1>25. CASE NextReceives
  <2> DEFINE h == Head(chan)
  <2>1. /\ pc = "recv"
        /\ pc' = "idle"
        /\ chan # <<>>
        /\ items' = Append(items, h)
        /\ ended = "no"
        /\ ended' = (IF h.k \in Errors THEN "error" ELSE "no")
        /\ items # <<>>
        /\ UNCHANGED <<emitted, sock, fds, signal>>
    BY <1>25 DEF NextReceives, Return, Control, sockVars
  <2>2. h = chan[1] /\ h \in Item /\ 1 \in 1..Len(chan)
    BY <2>1, TailFacts DEF TypeOK
  <2>3. h.k # "ready" /\ h.n <= emitted /\ (h.k = "overflow" => sock # "open")
    BY <2>2 DEF ReadyFirst, Sent, Overflowing
  <2>4. Last(items).k \notin Terminal
    BY <2>1 DEF Ending
  <2>5. Continues(Last(items).n, h)
    BY <2>1, <2>2 DEF Flow, Chain, EndOf
  <2>6. h \in [k : Feed!ItemKinds, n : 0..emitted]
    <3>1. emitted \in Nat
      BY FlowTypes
    <3> QED
      BY <2>2, <2>3, <3>1 DEF Item, ItemKinds, Numbered, Feed!ItemKinds, Feed!Numbered
  <2> HIDE DEF h
  <2>7. Feed!Continues(Feed!LastSeen, h)
    BY <2>3, <2>4, <2>5 DEF Feed!Continues, Feed!LastSeen, Last, Continues,
       Terminal, Errors, Numbered, Feed!Terminal, Feed!Errors, Feed!Numbered
  <2>8. /\ StatusOfFeed = "open"
        /\ StatusOfFeed' = (IF h.k \in Feed!Errors THEN "ended" ELSE "open")
    BY <2>1 DEF StatusOfFeed, Errors, Feed!Errors
  <2>9. UNCHANGED <<emitted, Connected, signal>> /\ (h.k = "overflow" => ~Connected)
    BY <2>1, <2>3 DEF Connected
  <2>10. Feed!Deliver
    BY <2>1, <2>6, <2>7, <2>8, <2>9 DEF Feed!Deliver
  <2> QED
    BY <2>10 DEF Feed!FeedNext
<1>26. CASE NextSeesDisconnect
  <2>1. items # <<>> /\ Last(items).k = "detach"
    <3>1. items # <<>> /\ Last(items).k \in Terminal /\ Last(items).k \notin Errors
      BY <1>26 DEF NextSeesDisconnect, Control, NextStates, Ending
    <3> QED
      BY <3>1 DEF Terminal
  <2>2. /\ StatusOfFeed = "open"
        /\ StatusOfFeed' = "ended"
        /\ UNCHANGED <<emitted, items, Connected, signal>>
    BY <1>26 DEF NextSeesDisconnect, End, StatusOfFeed, Control, Connected, sockVars
  <2>3. Feed!EndAfterDetach
    BY <2>1, <2>2 DEF Feed!EndAfterDetach, Feed!LastSeen, Last
  <2> QED
    BY <2>3 DEF Feed!FeedNext
<1>27. CASE NextTimesOut
  <2>1. Connected' => Connected
    BY <1>27 DEF NextTimesOut, Connected, StatusOfFeed, sockVars, workerVars,
       chanVars, streamVars
  <2>2. UNCHANGED <<emitted, items, StatusOfFeed, signal>>
    BY <1>27 DEF NextTimesOut, Connected, StatusOfFeed, sockVars, workerVars,
       chanVars, streamVars
  <2> QED
    BY <2>1, <2>2, HiddenStep
<1>28. CASE DropReceiver
  <2> Feed!StartClose
    BY <1>28 DEF Feed!StartClose, DropReceiver, Connected, StatusOfFeed, Control,
       sockVars, workerVars, chanVars, streamVars
  <2> QED
    BY DEF Feed!FeedNext
<1>29. CASE DropInterrupts
  <2>1. Connected' => Connected
    BY <1>29 DEF DropInterrupts, ShutSocket, Connected, StatusOfFeed, sockVars,
       workerVars, chanVars, streamVars
  <2>2. UNCHANGED <<emitted, items, StatusOfFeed, signal>>
    BY <1>29 DEF DropInterrupts, ShutSocket, Connected, StatusOfFeed, sockVars,
       workerVars, chanVars, streamVars
  <2> QED
    BY <2>1, <2>2, HiddenStep
<1>30. CASE DropJoins
  <2> Feed!FinishClose
    BY <1>30 DEF Feed!FinishClose, DropJoins, Connected, StatusOfFeed, Control,
       Descriptors, sockVars, workerVars, chanVars, streamVars
  <2> QED
    BY DEF Feed!FeedNext
<1>31. CASE UNCHANGED vars
  <2>1. Connected' => Connected
    BY <1>31 DEF vars, Connected, StatusOfFeed, sockVars, workerVars, chanVars,
       streamVars
  <2>2. UNCHANGED <<emitted, items, StatusOfFeed, signal>>
    BY <1>31 DEF vars, Connected, StatusOfFeed, sockVars, workerVars, chanVars,
       streamVars
  <2> QED
    BY <2>1, <2>2, HiddenStep
<1> QED
  BY <1>1, <1>2, <1>3, <1>4, <1>5, <1>6, <1>7, <1>8, <1>9, <1>10, <1>11,
       <1>12, <1>13, <1>14, <1>15, <1>16, <1>17, <1>18, <1>19, <1>20, <1>21,
       <1>22, <1>23, <1>24, <1>25, <1>26, <1>27, <1>28, <1>29, <1>30, <1>31
  DEF Next, Editor, Setup, Worker, Pull, InNext, InDrop, Finished, Answers

\* The watch implements the abstract feed, whatever the bounds.
THEOREM Refinement == Spec => ImplementsFeed
<1>1. Init => Feed!FeedInit
  BY DEF Init, Feed!FeedInit, StatusOfFeed, Connected
<1>2. IInv /\ [Next]_vars => [Feed!FeedNext]_Feed!feedVars
  BY RefinementStep
<1> QED
  BY <1>1, <1>2, Invariance, PTL DEF Spec, ImplementsFeed, Feed!FeedSpec

=============================================================================
