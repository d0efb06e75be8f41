-------------------------- MODULE RpcClientProofs --------------------------
(***************************************************************************)
(* Proofs about RpcClient, for every Timeout, MaxId, MaxCalls, MaxNotes.   *)
(***************************************************************************)
EXTENDS RpcClient, SequenceTheorems, TLAPS

(***************************************************************************)
(* What a read does to the messages that are waiting.                      *)
(***************************************************************************)

\* Of messages one after the other.
LEMMA RangeOfConcat ==
    ASSUME NEW S, NEW s \in Seq(S), NEW t \in Seq(S)
    PROVE  Range(s \o t) = Range(s) \cup Range(t)
  BY RangeConcatenation

\* Of one message.
LEMMA RangeOfOne ==
    ASSUME NEW S, NEW m \in S
    PROVE  <<m>> \in Seq(S) /\ Range(<<m>>) = {m}
<1>1. <<m>> \in Seq(S)
  OBVIOUS
<1>2. DOMAIN <<m>> = {1} /\ <<m>>[1] = m
  OBVIOUS
<1> QED
  BY <1>1, <1>2 DEF Range

\* A message read is the head of what was waiting.
LEMMA HeadAndRest ==
    ASSUME NEW S, NEW s \in Seq(S), s # <<>>
    PROVE  /\ Head(s) \in S
           /\ Tail(s) \in Seq(S)
           /\ s = <<Head(s)>> \o Tail(s)
<1>1. Head(s) \in S /\ Tail(s) \in Seq(S)
  BY HeadTailProperties
<1>2. /\ Len(s) \in Nat \ {0}
      /\ Len(Tail(s)) = Len(s) - 1
      /\ \A i \in 1..Len(Tail(s)) : Tail(s)[i] = s[i + 1]
      /\ Head(s) = s[1]
  BY HeadTailProperties, EmptySeq
<1>3. <<Head(s)>> \in Seq(S) /\ Len(<<Head(s)>>) = 1 /\ <<Head(s)>>[1] = Head(s)
  BY <1>1
<1> DEFINE t == <<Head(s)>> \o Tail(s)
<1>4. /\ t \in Seq(S)
      /\ Len(t) = Len(s)
      /\ \A i \in 1..Len(s) : t[i] = IF i <= 1 THEN <<Head(s)>>[i] ELSE Tail(s)[i - 1]
  BY <1>1, <1>2, <1>3, ConcatProperties
<1>5. ASSUME NEW i \in 1..Len(s)
      PROVE  t[i] = s[i]
  <2>1. CASE i = 1
    BY <2>1, <1>2, <1>3, <1>4
  <2>2. CASE i # 1
    <3>1. i - 1 \in 1..Len(Tail(s)) /\ ~(i <= 1) /\ (i - 1) + 1 = i
      BY <2>2, <1>2
    <3> QED
      BY <3>1, <1>2, <1>4
  <2> QED
    BY <2>1, <2>2
<1>6. s = t
  <2> HIDE DEF t
  <2> QED
    BY <1>4, <1>5, SeqEqual
<1> QED
  BY <1>1, <1>6

\* Notifications of messages one after the other.
LEMMA NotesOfConcat ==
    ASSUME NEW s \in Seq(Messages), NEW t \in Seq(Messages)
    PROVE  NotesIn(s \o t) = NotesIn(s) \cup NotesIn(t)
<1>1. Range(s \o t) = Range(s) \cup Range(t)
  BY RangeOfConcat
<1> QED
  BY <1>1 DEF NotesIn

\* Notifications of one message.
LEMMA NotesOfOne ==
    ASSUME NEW m \in Messages
    PROVE  NotesIn(<<m>>) = IF m.kind = "notification" THEN {m.num} ELSE {}
<1>1. Range(<<m>>) = {m}
  BY RangeOfOne
<1> QED
  BY <1>1 DEF NotesIn

\* Messages are in order when both parts are, one before the other.
LEMMA OrderOfConcat ==
    ASSUME NEW s \in Seq(Messages), NEW t \in Seq(Messages)
    PROVE  InOrder(s \o t) <=> /\ InOrder(s) /\ InOrder(t)
                               /\ \A m \in NotesIn(s), n \in NotesIn(t) : m < n
<1> DEFINE u == s \o t
           k == Len(s)
           l == Len(t)
<1>1. /\ k \in Nat /\ l \in Nat
      /\ DOMAIN s = 1..k /\ DOMAIN t = 1..l /\ DOMAIN u = 1..(k + l)
      /\ \A i \in 1..(k + l) : u[i] = IF i <= k THEN s[i] ELSE t[i - k]
  BY ConcatProperties, LenProperties
<1>2. /\ \A i \in 1..k : i \in DOMAIN u /\ u[i] = s[i]
      /\ \A i \in 1..l : k + i \in DOMAIN u /\ u[k + i] = t[i]
  <2>1. \A i \in 1..k : i \in 1..(k + l) /\ i <= k
    BY <1>1
  <2>2. \A i \in 1..l : k + i \in 1..(k + l) /\ ~(k + i <= k) /\ (k + i) - k = i
    BY <1>1
  <2> QED
    BY <1>1, <2>1, <2>2
<1>3. /\ \A m \in NotesIn(s) : \E i \in 1..k : s[i].kind = "notification" /\ s[i].num = m
      /\ \A m \in NotesIn(t) : \E i \in 1..l : t[i].kind = "notification" /\ t[i].num = m
      /\ \A i \in 1..k : s[i].kind = "notification" => s[i].num \in NotesIn(s)
      /\ \A i \in 1..l : t[i].kind = "notification" => t[i].num \in NotesIn(t)
  BY <1>1 DEF NotesIn, Range
<1> HIDE DEF u, k, l
<1>4. ASSUME InOrder(u)
      PROVE  InOrder(s) /\ InOrder(t) /\ \A m \in NotesIn(s), n \in NotesIn(t) : m < n
  <2>1. InOrder(s)
    BY <1>1, <1>2, <1>4 DEF InOrder
  <2>2. ASSUME NEW i \in 1..l, NEW j \in 1..l, i < j,
               t[i].kind = "notification", t[j].kind = "notification"
        PROVE  t[i].num < t[j].num
    <3>1. k + i < k + j
      BY <1>1, <2>2
    <3>2. k + i \in DOMAIN u /\ u[k + i] = t[i] /\ k + j \in DOMAIN u /\ u[k + j] = t[j]
      BY <1>2
    <3> QED
      BY <3>1, <3>2, <1>4, <2>2 DEF InOrder
  <2>3. InOrder(t)
    BY <1>1, <2>2 DEF InOrder
  <2>4. ASSUME NEW m \in NotesIn(s), NEW n \in NotesIn(t)
        PROVE  m < n
    <3>1. PICK i \in 1..k : s[i].kind = "notification" /\ s[i].num = m
      BY <1>3
    <3>2. PICK j \in 1..l : t[j].kind = "notification" /\ t[j].num = n
      BY <1>3
    <3>3. i < k + j
      BY <1>1
    <3> QED
      BY <3>1, <3>2, <3>3, <1>2, <1>4 DEF InOrder
  <2> QED
    BY <2>1, <2>3, <2>4
<1>5. ASSUME InOrder(s), InOrder(t), \A m \in NotesIn(s), n \in NotesIn(t) : m < n
      PROVE  InOrder(u)
  <2> SUFFICES ASSUME NEW i \in 1..(k + l), NEW j \in 1..(k + l), i < j,
                      u[i].kind = "notification", u[j].kind = "notification"
               PROVE  u[i].num < u[j].num
    BY <1>1 DEF InOrder
  <2>1. CASE i <= k /\ j <= k
    <3>1. i \in 1..k /\ j \in 1..k
      BY <2>1, <1>1
    <3> QED
      BY <3>1, <1>1, <1>2, <1>5 DEF InOrder
  <2>2. CASE i <= k /\ ~(j <= k)
    <3>1. i \in 1..k /\ j - k \in 1..l
      BY <2>2, <1>1
    <3>2. u[i] = s[i] /\ u[j] = t[j - k]
      BY <2>2, <1>1
    <3> QED
      BY <3>1, <3>2, <1>3, <1>5
  <2>3. CASE ~(i <= k) /\ ~(j <= k)
    <3>1. i - k \in 1..l /\ j - k \in 1..l /\ i - k < j - k
      BY <2>3, <1>1
    <3>2. u[i] = t[i - k] /\ u[j] = t[j - k]
      BY <2>3, <1>1
    <3> QED
      BY <3>1, <3>2, <1>1, <1>5 DEF InOrder
  <2>4. ~(i <= k) => ~(j <= k)
    BY <1>1
  <2> QED
    BY <2>1, <2>2, <2>3, <2>4
<1> QED
  BY <1>4, <1>5 DEF u

\* Told is as long as it is rising when a greater number is added to it.
LEMMA RisingAppend ==
    ASSUME NEW s \in Seq(Nat), NEW n \in Nat, Rising(s), \A m \in Range(s) : m < n
    PROVE  Rising(Append(s, n)) /\ Range(Append(s, n)) = Range(s) \cup {n}
<1> DEFINE u == Append(s, n)
           k == Len(s)
<1>1. /\ k \in Nat /\ DOMAIN s = 1..k /\ DOMAIN u = 1..(k + 1)
      /\ \A i \in 1..k : u[i] = s[i]
      /\ u[k + 1] = n
  BY AppendProperties, LenProperties
<1>2. \A i \in 1..(k + 1) : i \in 1..k \/ i = k + 1
  BY <1>1
<1>3. \A i \in 1..k : i \in 1..(k + 1) /\ i # k + 1
  BY <1>1
<1>5. k + 1 \in 1..(k + 1)
  BY <1>1
<1> HIDE DEF u, k
<1>4. \A i \in 1..k : s[i] \in Range(s)
  BY <1>1 DEF Range
<1>6. Range(u) = Range(s) \cup {n}
  BY <1>1, <1>2, <1>3, <1>5 DEF Range
<1>7. ASSUME NEW i \in 1..(k + 1), NEW j \in 1..(k + 1), i < j
      PROVE  u[i] < u[j]
  <2>1. i \in 1..k
    BY <1>1, <1>7
  <2>2. CASE j \in 1..k
    BY <2>1, <2>2, <1>1, <1>7 DEF Rising
  <2>3. CASE j = k + 1
    BY <2>1, <2>3, <1>1, <1>4
  <2> QED
    BY <2>2, <2>3, <1>2
<1>8. Rising(u)
  BY <1>1, <1>7 DEF Rising
<1> QED
  BY <1>6, <1>8 DEF u

(***************************************************************************)
(* Types.                                                                  *)
(***************************************************************************)
LEMMA MessageTypes ==
    /\ \A r \in Asked, ok \in BOOLEAN : Response(r, ok) \in Messages
    /\ \A n \in Nat : Notification(n) \in Messages
    /\ Malformed \in Messages
  BY DEF Asked, Messages, Response, Notification, Malformed

\* What a read leaves of the messages that are waiting.
LEMMA ReadTypes ==
    ASSUME TypeOK, incoming # <<>>
    PROVE  /\ Head(incoming) \in Messages
           /\ Tail(incoming) \in Seq(Messages)
           /\ <<Malformed>> \o Tail(incoming) \in Seq(Messages)
           /\ <<Malformed, Malformed>> \o Tail(incoming) \in Seq(Messages)
<1>1. Head(incoming) \in Messages /\ Tail(incoming) \in Seq(Messages)
  BY HeadTailProperties DEF TypeOK
<1>2. <<Malformed>> \in Seq(Messages) /\ <<Malformed, Malformed>> \in Seq(Messages)
  BY MessageTypes
<1> QED
  BY <1>1, <1>2, ConcatProperties

\* What a hangup leaves of them.
LEMMA PrefixTypes ==
    ASSUME TypeOK, NEW k \in 0..Len(incoming)
    PROVE  /\ SubSeq(incoming, 1, k) \in Seq(Messages)
           /\ SubSeq(incoming, k + 1, Len(incoming)) \in Seq(Messages)
           /\ incoming = SubSeq(incoming, 1, k) \o SubSeq(incoming, k + 1, Len(incoming))
<1>1. Len(incoming) \in Nat /\ incoming \in Seq(Messages)
  BY LenProperties DEF TypeOK
<1>2. /\ \A i \in 1..k : i \in 1..Len(incoming)
      /\ \A i \in (k + 1)..Len(incoming) : i \in 1..Len(incoming)
  BY <1>1
<1>3. \A i \in 1..Len(incoming) : incoming[i] \in Messages
  BY <1>1, ElementOfSeq
<1>4. /\ SubSeq(incoming, 1, k) \in Seq(Messages)
      /\ SubSeq(incoming, k + 1, Len(incoming)) \in Seq(Messages)
  BY <1>1, <1>2, <1>3, SubSeqProperties
<1>5. SubSeq(incoming, 1, k) \o SubSeq(incoming, k + 1, Len(incoming))
        = SubSeq(incoming, 1, Len(incoming))
  <2>1. 1 \in 1..Len(incoming) + 1 /\ k \in (1 - 1)..Len(incoming) /\ Len(incoming) \in k..Len(incoming)
    BY <1>1
  <2> QED
    BY <1>1, <2>1, ConcatAdjacentSubSeq
<1>6. SubSeq(incoming, 1, Len(incoming)) = incoming
  BY <1>1, SubSeqFull
<1> QED
  BY <1>4, <1>5, <1>6

\* Notifications have numbers.
LEMMA NotesAreNumbers ==
    ASSUME NEW s \in Seq(Messages)
    PROVE  NotesIn(s) \subseteq Nat
<1>1. Range(s) \subseteq Messages
  BY RangeOfSeq
<1> QED
  BY <1>1 DEF NotesIn, Messages

LEMMA TypeInit == Init => TypeOK
<1> SUFFICES ASSUME Init PROVE TypeOK
  OBVIOUS
<1>1. nextId \in 1..MaxId /\ calls \in 0..MaxCalls /\ notes \in 0..MaxNotes
  BY RpcAssumption DEF Init
<1>2. incoming \in Seq(Messages) /\ stash \in Seq(Nat) /\ popped \in Seq(Nat)
  BY EmptySeq DEF Init
<1> QED
  BY <1>1, <1>2 DEF Init, TypeOK, NoRequest, Asked

LEMMA ConnectTypes == TypeOK /\ (Connect \/ Worker) => TypeOK'
<1> SUFFICES ASSUME TypeOK, Connect \/ Worker PROVE TypeOK'
  OBVIOUS
<1> USE DEF connectVars, editorVars, callVars, noteVars
<1>1. CASE Starts
  BY <1>1, RpcAssumption DEF TypeOK, Starts, Results
<1>2. CASE TimePasses
  <2>1. elapsed \in Nat
    BY DEF TypeOK
  <2>2. elapsed + 1 \in Nat
    BY <2>1
  <2>3. elapsed' \in Nat
    BY <1>2, <2>2 DEF TimePasses
  <2>4. UNCHANGED <<pc, deadline, worker, slot, socket, editorVars, callVars, noteVars, incoming>>
    BY <1>2 DEF TimePasses
  <2> QED
    BY <2>3, <2>4 DEF TypeOK
<1>3. CASE Receives
  <2>1. pc' \in {"idle", "failed", "resolved"} /\ socket' \in {socket, "client", "closed"}
    BY <1>3 DEF Receives
  <2> QED
    BY <2>1, <1>3 DEF TypeOK, Receives, Results
<1>4. CASE GivesUp
  BY <1>4 DEF TypeOK, GivesUp, Results
<1>5. CASE Connects
  <2>1. elapsed \in Nat /\ Timeout \in Nat
    BY RpcAssumption DEF TypeOK
  <2>2. elapsed + (Timeout - elapsed) = Timeout
    BY <2>1
  <2> QED
    BY <2>1, <2>2, <1>5 DEF TypeOK, Connects, Results
<1>6. CASE Connected
  BY <1>6 DEF TypeOK, Connected, Results
<1>7. CASE WorkerFinishes
  BY <1>7 DEF TypeOK, WorkerFinishes, Results
<1>8. CASE WorkerSends
  BY <1>8 DEF TypeOK, WorkerSends, Results
<1> QED
  BY <1>1, <1>2, <1>3, <1>4, <1>5, <1>6, <1>7, <1>8 DEF Connect, Worker

LEMMA ErrTypes ==
    ASSUME TypeOK, NEW n \in 0..MaxCalls, Errs(n)
    PROVE  /\ pc' = "idle"
           /\ calls' \in 0..MaxCalls
           /\ last' \in [call : Nat, from : Nat]
           /\ current' \in Asked
  BY RpcAssumption DEF Errs, NoRequest, Asked

LEMMA UseTypes == TypeOK /\ Use => TypeOK'
<1> SUFFICES ASSUME TypeOK, Use PROVE TypeOK'
  OBVIOUS
<1> USE DEF connectVars, editorVars, callVars, noteVars
<1>a. calls < MaxCalls => calls + 1 \in 0..MaxCalls
  BY RpcAssumption DEF TypeOK
<1>b. nextId < MaxId => nextId + 1 \in 1..MaxId
  BY RpcAssumption DEF TypeOK
<1>1. CASE Calls
  <2>1. current' \in Asked
    BY <1>1, <1>a DEF Calls, Asks, TypeOK, Asked
  <2>2. asked' \subseteq Asked
    BY <1>1, <2>1 DEF Calls, Asks, TypeOK
  <2>3. nextId' \in 1..MaxId /\ calls' \in 0..MaxCalls /\ pc' = "reading"
    BY <1>1, <1>a, <1>b DEF Calls, Asks
  <2> QED
    BY <1>1, <2>1, <2>2, <2>3 DEF Calls, Asks, TypeOK
<1>2. CASE CallOverflows
  <2>1. calls + 1 \in 0..MaxCalls /\ Errs(calls + 1)
    BY <1>2, <1>a DEF CallOverflows
  <2> QED
    BY <1>2, <2>1, ErrTypes DEF CallOverflows, TypeOK
<1>3. CASE CallNotWritten
  <2>1. calls + 1 \in 0..MaxCalls /\ Errs(calls + 1)
    BY <1>3, <1>a DEF CallNotWritten
  <2> QED
    BY <1>3, <1>b, <2>1, ErrTypes DEF CallNotWritten, TypeOK
<1>4. CASE Pops
  <2>1. Head(stash) \in Nat /\ Tail(stash) \in Seq(Nat)
    BY <1>4, HeadTailProperties DEF Pops, TypeOK
  <2>2. popped' \in Seq(Nat) /\ stash' \in Seq(Nat)
    BY <1>4, <2>1, AppendProperties DEF Pops, TypeOK
  <2> QED
    BY <1>4, <2>2 DEF Pops, TypeOK
<1>5. CASE Listens
  BY <1>5 DEF Listens, TypeOK
<1>6. CASE Drops
  BY <1>6 DEF Drops, TypeOK
<1> QED
  BY <1>1, <1>2, <1>3, <1>4, <1>5, <1>6 DEF Use

LEMMA EditorTypes == TypeOK /\ Editor => TypeOK'
<1> SUFFICES ASSUME TypeOK, Editor PROVE TypeOK'
  OBVIOUS
<1> USE DEF connectVars, editorVars, callVars, noteVars
<1>a. notes < MaxNotes => notes + 1 \in 0..MaxNotes
  BY RpcAssumption DEF TypeOK
<1>b. incoming \in Seq(Messages)
  BY DEF TypeOK
<1>1. ASSUME NEW r \in asked, NEW ok \in BOOLEAN, Answers(r, ok)
      PROVE  TypeOK'
  <2>1. Response(r, ok) \in Messages
    BY MessageTypes DEF TypeOK
  <2>2. incoming' \in Seq(Messages)
    BY <1>1, <1>b, <2>1, AppendProperties DEF Answers
  <2> QED
    BY <1>1, <2>2 DEF Answers, TypeOK
<1>2. CASE Notifies
  <2>1. notes' \in 0..MaxNotes /\ Notification(notes') \in Messages
    BY <1>2, <1>a, MessageTypes DEF Notifies
  <2>2. incoming' \in Seq(Messages)
    BY <1>2, <1>b, <2>1, AppendProperties DEF Notifies
  <2> QED
    BY <1>2, <2>1, <2>2 DEF Notifies, TypeOK
<1>3. CASE Requests
  <2>1. notes' \in 0..MaxNotes
    BY <1>3, <1>a DEF Requests
  <2>2. incoming' \in Seq(Messages)
    BY <1>3, <1>b, MessageTypes, AppendProperties DEF Requests
  <2>3. lost' \subseteq Nat
    BY <1>3, <2>1 DEF Requests, TypeOK
  <2> QED
    BY <1>3, <2>1, <2>2, <2>3 DEF Requests, TypeOK
<1>4. CASE HangsUp
  <2>1. PICK k \in 0..Len(incoming) :
           /\ incoming' = SubSeq(incoming, 1, k)
           /\ lost' = lost \cup NotesIn(SubSeq(incoming, k + 1, Len(incoming)))
    BY <1>4 DEF HangsUp
  <2>2. incoming' \in Seq(Messages) /\ lost' \subseteq Nat
    BY <2>1, PrefixTypes, NotesAreNumbers DEF TypeOK
  <2> QED
    BY <1>4, <2>2 DEF HangsUp, TypeOK
<1> QED
  BY <1>1, <1>2, <1>3, <1>4 DEF Editor

LEMMA ReadStepTypes == TypeOK /\ Read => TypeOK'
<1> SUFFICES ASSUME TypeOK, Read PROVE TypeOK'
  OBVIOUS
<1> USE DEF connectVars, editorVars, callVars, noteVars
<1>a. ASSUME NEW kind, ReadsMessage(kind)
      PROVE  incoming' \in Seq(Messages) /\ Head(incoming).num \in Nat /\ Head(incoming).call \in Nat
  BY <1>a, ReadTypes DEF ReadsMessage, Messages
<1>b. ASSUME Errs(calls)
      PROVE  /\ pc' = "idle" /\ calls' \in 0..MaxCalls
             /\ last' \in [call : Nat, from : Nat] /\ current' \in Asked
  BY <1>b, ErrTypes DEF TypeOK
<1>1. CASE CallStashes
  <2>1. incoming' \in Seq(Messages) /\ Head(incoming).num \in Nat
    BY <1>1, <1>a DEF CallStashes
  <2>2. stash' \in Seq(Nat)
    BY <1>1, <2>1, AppendProperties DEF CallStashes, TypeOK
  <2> QED
    BY <1>1, <2>1, <2>2 DEF CallStashes, TypeOK
<1>2. CASE CallReturns
  <2>1. incoming' \in Seq(Messages) /\ Head(incoming).call \in Nat
    BY <1>2, <1>a DEF CallReturns, Ends
  <2>2. /\ pc' = "idle" /\ calls' \in 0..MaxCalls
        /\ last' \in [call : Nat, from : Nat] /\ current' \in Asked
    <3>1. CASE Errs(calls)
      BY <3>1, <1>b
    <3>2. CASE ~Errs(calls)
      <4>1. /\ pc' = "idle" /\ calls' = calls /\ current' = NoRequest
            /\ last' = [call |-> calls, from |-> Head(incoming).call]
        BY <1>2, <3>2 DEF CallReturns, Ends
      <4>2. calls \in 0..MaxCalls /\ calls \in Nat
        BY RpcAssumption DEF TypeOK
      <4> QED
        BY <4>1, <4>2, <2>1 DEF NoRequest, Asked
    <3> QED
      BY <3>1, <3>2
  <2> QED
    BY <1>2, <2>1, <2>2 DEF CallReturns, Ends, TypeOK
<1>3. CASE Hears
  <2>1. incoming' \in Seq(Messages) /\ Head(incoming).num \in Nat
    BY <1>3, <1>a DEF Hears
  <2>2. popped' \in Seq(Nat)
    BY <1>3, <2>1, AppendProperties DEF Hears, TypeOK
  <2> QED
    BY <1>3, <2>1, <2>2 DEF Hears, TypeOK
<1>4. CASE ReadFails
  <2>1. incoming' \in Seq(Messages)
    BY <1>4, <1>a DEF ReadFails
  <2> QED
    BY <1>4, <1>b, <2>1 DEF ReadFails, TypeOK
<1>5. CASE MeetsEof
  BY <1>5, <1>b DEF MeetsEof, TypeOK
<1>6. CASE ReadTimesOut
  <2>1. incoming' \in Seq(Messages)
    BY <1>6, ReadTypes DEF ReadTimesOut, TimesOut, TypeOK
  <2>2. incoming # <<>> => NotesIn(<<Head(incoming)>>) \subseteq Nat
    BY ReadTypes, RangeOfOne, NotesAreNumbers
  <2>3. lost' \subseteq Nat
    BY <1>6, <2>2 DEF ReadTimesOut, TimesOut, TypeOK
  <2> QED
    BY <1>6, <1>b, <2>1, <2>3 DEF ReadTimesOut, TimesOut, TypeOK
<1> QED
  BY <1>1, <1>2, <1>3, <1>4, <1>5, <1>6 DEF Read

\* Every variable keeps its type.
THEOREM TypeCorrect == Spec => []TypeOK
<1>1. TypeOK /\ [Next]_vars => TypeOK'
  <2> SUFFICES ASSUME TypeOK, [Next]_vars PROVE TypeOK'
    OBVIOUS
  <2>1. CASE UNCHANGED vars
    BY <2>1 DEF TypeOK, vars, connectVars, editorVars, callVars, noteVars
  <2> QED
    BY <2>1, ConnectTypes, UseTypes, EditorTypes, ReadStepTypes DEF Next
<1> QED
  BY <1>1, TypeInit, PTL DEF Spec

(***************************************************************************)
(* The time connecting takes.                                              *)
(***************************************************************************)

\* Both waits end at the same moment.
Waits ==
    /\ pc = "start" => elapsed = 0
    /\ pc \in {"dialing", "resolving", "connecting"} => deadline = Timeout /\ elapsed <= Timeout

LEMMA WaitsStep == TypeOK /\ Waits /\ [Next]_vars => Waits'
<1> SUFFICES ASSUME TypeOK, Waits, [Next]_vars PROVE Waits'
  OBVIOUS
<1>a. elapsed \in Nat /\ deadline \in Nat /\ Timeout \in Nat /\ 0 <= Timeout
  BY RpcAssumption DEF TypeOK
<1>1. CASE Starts
  BY <1>1, <1>a DEF Starts, Waits
<1>2. CASE TimePasses
  <2>1. pc' = pc /\ deadline' = deadline /\ elapsed' = elapsed + 1 /\ pc # "start"
    BY <1>2 DEF TimePasses, Connecting
  <2>2. pc \in {"dialing", "resolving", "connecting"} => elapsed < deadline
    BY <1>2 DEF TimePasses
  <2>3. pc \in {"dialing", "resolving", "connecting"} => elapsed + 1 <= Timeout
    BY <2>2, <1>a DEF Waits
  <2> QED
    BY <2>1, <2>3 DEF Waits
<1>3. CASE Connects
  <2>1. ~(elapsed >= Timeout) => elapsed <= Timeout /\ elapsed + (Timeout - elapsed) = Timeout
    BY <1>a
  <2> QED
    BY <2>1, <1>3 DEF Connects, Waits
<1>4. CASE Receives \/ GivesUp \/ Connected \/ Worker \/ Use \/ Read \/ Editor \/ UNCHANGED vars
  <2>1. elapsed' = elapsed /\ deadline' = deadline
    BY <1>4 DEF Receives, GivesUp, Connected, Worker, WorkerFinishes, WorkerSends,
       Use, Calls, Asks, CallOverflows, CallNotWritten, Pops, Listens, Drops,
       Read, CallStashes, CallReturns, Ends, Hears, ReadFails, MeetsEof, ReadTimesOut, TimesOut,
       Editor, Answers, Notifies, Requests, HangsUp, vars, connectVars
  <2>2. pc' = pc \/ pc' \notin {"start", "dialing", "resolving", "connecting"}
    BY <1>4 DEF Receives, GivesUp, Connected, Worker, WorkerFinishes, WorkerSends,
       Use, Calls, Asks, CallOverflows, CallNotWritten, Pops, Listens, Drops,
       Read, CallStashes, CallReturns, Ends, Hears, ReadFails, MeetsEof, ReadTimesOut, TimesOut,
       Editor, Answers, Notifies, Requests, HangsUp, vars, Errs
  <2> QED
    BY <2>1, <2>2 DEF Waits
<1> QED
  BY <1>1, <1>2, <1>3, <1>4 DEF Next, Connect

\* Connecting takes no longer than its timeout (connect_with_timeout).
THEOREM ConnectBounded == Spec => []ConnectIsBounded
<1>1. Init => Waits
  BY RpcAssumption DEF Init, Waits
<1>2. Waits => ConnectIsBounded
  BY DEF Waits, ConnectIsBounded
<1> QED
  BY <1>1, <1>2, WaitsStep, TypeCorrect, PTL DEF Spec

(***************************************************************************)
(* Identifiers.                                                            *)
(***************************************************************************)
\* Every identifier is below the next one, and no two calls share one.
Identified ==
    /\ \A r \in Outstanding : r.id < nextId
    /\ IdentifiersDiffer
    /\ pc = "reading" => current.call = calls
    /\ AnswersThisCall

\* Requests answered by messages one after the other, and by one message.
LEMMA RequestsOfConcat ==
    ASSUME NEW s \in Seq(Messages), NEW t \in Seq(Messages)
    PROVE  RequestsIn(s \o t) = RequestsIn(s) \cup RequestsIn(t)
<1>1. Range(s \o t) = Range(s) \cup Range(t)
  BY RangeOfConcat
<1> QED
  BY <1>1 DEF RequestsIn

LEMMA RequestsOfOne ==
    ASSUME NEW m \in Messages
    PROVE  RequestsIn(<<m>>) = IF m.kind = "response" THEN {[id |-> m.num, call |-> m.call]} ELSE {}
<1>1. Range(<<m>>) = {m}
  BY RangeOfOne
<1> QED
  BY <1>1 DEF RequestsIn

\* Appending is concatenation.
LEMMA RequestsOfAppend ==
    ASSUME NEW s \in Seq(Messages), NEW m \in Messages
    PROVE  RequestsIn(Append(s, m)) = RequestsIn(s) \cup RequestsIn(<<m>>)
<1>1. Append(s, m) = s \o <<m>> /\ <<m>> \in Seq(Messages)
  BY AppendIsConcat, RangeOfOne
<1> QED
  BY <1>1, RequestsOfConcat

\* A read takes requests away and adds none.
LEMMA RequestsRead ==
    ASSUME TypeOK, incoming # <<>>
    PROVE  /\ RequestsIn(Tail(incoming)) \subseteq RequestsIn(incoming)
           /\ RequestsIn(<<Malformed>> \o Tail(incoming)) \subseteq RequestsIn(incoming)
           /\ RequestsIn(<<Malformed, Malformed>> \o Tail(incoming)) \subseteq RequestsIn(incoming)
           /\ Head(incoming).kind = "response" =>
                 [id |-> Head(incoming).num, call |-> Head(incoming).call] \in RequestsIn(incoming)
<1> DEFINE h == Head(incoming)
           t == Tail(incoming)
           m == <<Malformed>>
<1>1. h \in Messages /\ t \in Seq(Messages) /\ incoming = <<h>> \o t /\ <<h>> \in Seq(Messages)
  BY HeadAndRest, RangeOfOne DEF TypeOK
<1>2. RequestsIn(incoming) = RequestsIn(<<h>>) \cup RequestsIn(t)
  <2> HIDE DEF h, t
  <2> QED
    BY <1>1, RequestsOfConcat
<1>3. m \in Seq(Messages) /\ RequestsIn(m) = {}
  BY MessageTypes, RequestsOfOne, RangeOfOne DEF Malformed
<1>4. <<Malformed, Malformed>> = m \o m
  OBVIOUS
<1> HIDE DEF m, t
<1>5. RequestsIn(m \o t) = RequestsIn(m) \cup RequestsIn(t)
  BY <1>1, <1>3, RequestsOfConcat
<1>6. m \o m \in Seq(Messages)
  BY <1>3, ConcatProperties
<1>8. RequestsIn(m \o m) = RequestsIn(m) \cup RequestsIn(m)
  BY <1>3, RequestsOfConcat
<1>9. RequestsIn((m \o m) \o t) = RequestsIn(m \o m) \cup RequestsIn(t)
  BY <1>1, <1>6, RequestsOfConcat
<1>10. RequestsIn(m \o t) = RequestsIn(t) /\ RequestsIn((m \o m) \o t) = RequestsIn(t)
  BY <1>3, <1>5, <1>8, <1>9
<1>7. h.kind = "response" => [id |-> h.num, call |-> h.call] \in RequestsIn(<<h>>)
  <2> HIDE DEF h
  <2> QED
    BY <1>1, RequestsOfOne
<1> QED
  BY <1>2, <1>4, <1>7, <1>10 DEF m, t

LEMMA OutstandingTypes == TypeOK => Outstanding \subseteq Asked
<1> SUFFICES ASSUME TypeOK PROVE Outstanding \subseteq Asked
  OBVIOUS
<1>1. Range(incoming) \subseteq Messages
  BY RangeOfSeq DEF TypeOK
<1>2. RequestsIn(incoming) \subseteq Asked
  BY <1>1 DEF RequestsIn, Messages, Asked
<1> QED
  BY <1>2 DEF Outstanding, TypeOK

LEMMA IdentifiedInit == Init => Identified
<1> SUFFICES ASSUME Init PROVE Identified
  OBVIOUS
<1>1. Range(incoming) = {}
  BY DEF Init, Range
<1>2. Outstanding = {}
  BY <1>1 DEF Init, Outstanding, RequestsIn
<1> QED
  BY <1>2 DEF Init, Identified, IdentifiersDiffer, AnswersThisCall

\* Steps that only end requests or answer them.
LEMMA FewerRequests ==
    ASSUME TypeOK, Identified, Outstanding' \subseteq Outstanding,
           nextId' \in {nextId, nextId + 1},
           pc' = "reading" => current'.call = calls', AnswersThisCall'
    PROVE  Identified'
<1>1. nextId \in Nat /\ \A r \in Outstanding : r.id \in Nat
  BY RpcAssumption, OutstandingTypes DEF TypeOK, Asked
<1>2. \A r \in Outstanding' : r.id < nextId'
  BY <1>1 DEF Identified
<1> QED
  BY <1>2 DEF Identified, IdentifiersDiffer

\* An error ends the request waited for.
LEMMA ErrIdentified ==
    ASSUME TypeOK, Identified, NEW n \in Nat, Errs(n),
           asked' = asked, RequestsIn(incoming)' \subseteq RequestsIn(incoming),
           nextId' \in {nextId, nextId + 1}
    PROVE  Identified'
<1>1. pc' = "idle" /\ last' = [call |-> n, from |-> 0]
  BY DEF Errs
<1>2. Outstanding' \subseteq Outstanding
  BY <1>1 DEF Outstanding
<1>3. AnswersThisCall'
  BY <1>1 DEF AnswersThisCall
<1> QED
  BY <1>1, <1>2, <1>3, FewerRequests

LEMMA CallsIdentified == TypeOK /\ Identified /\ Calls => Identified'
<1> SUFFICES ASSUME TypeOK, Identified, Calls PROVE Identified'
  OBVIOUS
<1>1. /\ nextId' = nextId + 1 /\ pc' = "reading" /\ last' = last
      /\ current' = [id |-> nextId, call |-> calls'] /\ incoming' = incoming
      /\ asked' \subseteq asked \cup {current'}
  BY DEF Calls, Asks
<1>2. Outstanding' \subseteq Outstanding \cup {current'}
  BY <1>1 DEF Outstanding
<1>3. nextId \in Nat /\ \A r \in Outstanding : r.id \in Nat
  BY RpcAssumption, OutstandingTypes DEF TypeOK, Asked
<1>4. \A r \in Outstanding : r.id < nextId /\ r.id # nextId
  BY <1>3 DEF Identified
<1>5. current'.id = nextId /\ current'.call = calls'
  BY <1>1
<1>6. \A r \in Outstanding' : r.id < nextId'
  BY <1>1, <1>2, <1>3, <1>4, <1>5
<1>7. IdentifiersDiffer'
  BY <1>2, <1>4, <1>5 DEF IdentifiersDiffer, Identified
<1>8. AnswersThisCall'
  BY <1>1 DEF AnswersThisCall, Identified
<1> QED
  BY <1>1, <1>5, <1>6, <1>7, <1>8 DEF Identified

LEMMA ReturnsIdentified == TypeOK /\ Identified /\ CallReturns => Identified'
<1> SUFFICES ASSUME TypeOK, Identified, CallReturns PROVE Identified'
  OBVIOUS
<1> DEFINE h == Head(incoming)
<1>1. /\ pc = "reading" /\ incoming # <<>> /\ h.kind = "response"
      /\ incoming' = Tail(incoming) /\ nextId' = nextId /\ asked' = asked /\ pc' = "idle"
  BY DEF CallReturns, Ends, ReadsMessage, Errs, editorVars
<1>2. /\ RequestsIn(incoming)' \subseteq RequestsIn(incoming)
      /\ [id |-> h.num, call |-> h.call] \in RequestsIn(incoming)
  BY <1>1, RequestsRead
<1>3. Outstanding' \subseteq Outstanding
  BY <1>1, <1>2 DEF Outstanding
<1>4. CASE Errs(calls)
  <2>1. calls \in Nat
    BY RpcAssumption DEF TypeOK
  <2> QED
    BY <2>1, <1>1, <1>2, <1>4, ErrIdentified
<1>5. CASE ~Errs(calls)
  <2>1. h.num = current.id /\ last' = [call |-> calls, from |-> h.call]
    BY <1>5 DEF CallReturns, Ends
  <2> DEFINE r == [id |-> h.num, call |-> h.call]
  <2>2. r \in Outstanding /\ current \in Outstanding /\ r.id = current.id
    BY <1>1, <1>2, <2>1 DEF Outstanding
  <2>3. r.call = current.call
    BY <2>2 DEF Identified, IdentifiersDiffer
  <2>4. AnswersThisCall'
    BY <1>1, <2>1, <2>3 DEF Identified, AnswersThisCall
  <2> QED
    BY <1>1, <1>3, <2>4, FewerRequests
<1> QED
  BY <1>4, <1>5

LEMMA ReadIdentified == TypeOK /\ Identified /\ Read => Identified'
<1> SUFFICES ASSUME TypeOK, Identified, Read PROVE Identified'
  OBVIOUS
<1> USE DEF editorVars, callVars
<1>a. calls \in Nat
  BY RpcAssumption DEF TypeOK
<1>1. CASE CallStashes \/ Hears
  <2>1. /\ incoming # <<>> /\ incoming' = Tail(incoming) /\ asked' = asked
        /\ nextId' = nextId /\ current' = current /\ calls' = calls /\ last' = last
        /\ pc' \in {pc, "idle"}
    BY <1>1 DEF CallStashes, Hears, ReadsMessage
  <2>2. RequestsIn(incoming)' \subseteq RequestsIn(incoming)
    BY <2>1, RequestsRead
  <2>3. Outstanding' \subseteq Outstanding
    BY <2>1, <2>2 DEF Outstanding
  <2>4. AnswersThisCall' /\ (pc' = "reading" => current'.call = calls')
    BY <2>1 DEF AnswersThisCall, Identified
  <2> QED
    BY <2>1, <2>3, <2>4, FewerRequests
<1>2. CASE ReadFails
  <2>1. incoming # <<>> /\ incoming' = Tail(incoming) /\ asked' = asked /\ nextId' = nextId /\ Errs(calls)
    BY <1>2 DEF ReadFails, ReadsMessage
  <2>2. RequestsIn(incoming)' \subseteq RequestsIn(incoming)
    BY <2>1, RequestsRead
  <2> QED
    BY <1>a, <2>1, <2>2, ErrIdentified
<1>3. CASE MeetsEof
  <2>1. incoming' = incoming /\ asked' = asked /\ nextId' = nextId /\ Errs(calls)
    BY <1>3 DEF MeetsEof
  <2>2. RequestsIn(incoming)' \subseteq RequestsIn(incoming)
    BY <2>1 DEF RequestsIn
  <2> QED
    BY <1>a, <2>1, <2>2, ErrIdentified
<1>4. CASE ReadTimesOut
  <2>1. asked' = asked /\ nextId' = nextId /\ Errs(calls)
    BY <1>4 DEF ReadTimesOut, TimesOut
  <2>2. CASE incoming' = incoming
    <3>1. RequestsIn(incoming)' \subseteq RequestsIn(incoming)
      BY <2>2 DEF RequestsIn
    <3> QED
      BY <1>a, <2>1, <3>1, ErrIdentified
  <2>3. CASE incoming' # incoming
    <3>1. /\ incoming # <<>>
          /\ \/ incoming' = <<Malformed>> \o Tail(incoming)
             \/ incoming' = <<Malformed, Malformed>> \o Tail(incoming)
      BY <1>4, <2>3 DEF ReadTimesOut, TimesOut
    <3>2. RequestsIn(incoming)' \subseteq RequestsIn(incoming)
      BY <3>1, RequestsRead
    <3> QED
      BY <1>a, <2>1, <3>2, ErrIdentified
  <2> QED
    BY <2>2, <2>3
<1> QED
  BY <1>1, <1>2, <1>3, <1>4, ReturnsIdentified DEF Read

LEMMA EditorIdentified == TypeOK /\ Identified /\ Editor => Identified'
<1> SUFFICES ASSUME TypeOK, Identified, Editor PROVE Identified'
  OBVIOUS
<1> USE DEF editorVars, callVars
<1>a. pc' = pc /\ nextId' = nextId /\ current' = current /\ calls' = calls /\ last' = last
  BY DEF Editor, Answers, Notifies, Requests, HangsUp
<1>b. AnswersThisCall' /\ (pc' = "reading" => current'.call = calls')
  BY <1>a DEF AnswersThisCall, Identified
<1>c. incoming \in Seq(Messages)
  BY DEF TypeOK
<1>1. ASSUME NEW r \in asked, NEW ok \in BOOLEAN, Answers(r, ok)
      PROVE  Outstanding' \subseteq Outstanding
  <2>1. r \in Asked /\ Response(r, ok) \in Messages
    BY MessageTypes DEF TypeOK
  <2>2. RequestsIn(<<Response(r, ok)>>) = {[id |-> r.id, call |-> r.call]}
    BY <2>1, RequestsOfOne DEF Response
  <2>3. [id |-> r.id, call |-> r.call] = r
    BY <2>1 DEF Asked
  <2>4. incoming' = Append(incoming, Response(r, ok)) /\ asked' = asked \ {r}
    BY <1>1 DEF Answers
  <2>5. RequestsIn(incoming)' = RequestsIn(incoming) \cup {r}
    BY <1>c, <2>1, <2>2, <2>3, <2>4, RequestsOfAppend
  <2> QED
    BY <1>a, <2>4, <2>5 DEF Outstanding
<1>2. ASSUME Notifies
      PROVE  Outstanding' \subseteq Outstanding
  <2>1. Notification(notes') \in Messages
    BY <1>2, RpcAssumption, MessageTypes DEF Notifies, TypeOK
  <2>2. RequestsIn(<<Notification(notes')>>) = {}
    BY <2>1, RequestsOfOne DEF Notification
  <2>3. incoming' = Append(incoming, Notification(notes')) /\ asked' = asked
    BY <1>2 DEF Notifies
  <2>4. RequestsIn(incoming)' = RequestsIn(incoming)
    BY <1>c, <2>1, <2>2, <2>3, RequestsOfAppend
  <2> QED
    BY <1>a, <2>3, <2>4 DEF Outstanding
<1>3. ASSUME Requests
      PROVE  Outstanding' \subseteq Outstanding
  <2>1. Malformed \in Messages /\ RequestsIn(<<Malformed>>) = {}
    BY MessageTypes, RequestsOfOne DEF Malformed
  <2>2. incoming' = Append(incoming, Malformed) /\ asked' = asked
    BY <1>3 DEF Requests
  <2>3. RequestsIn(incoming)' = RequestsIn(incoming)
    BY <1>c, <2>1, <2>2, RequestsOfAppend
  <2> QED
    BY <1>a, <2>2, <2>3 DEF Outstanding
<1>4. ASSUME HangsUp
      PROVE  Outstanding' \subseteq Outstanding
  <2>1. PICK k \in 0..Len(incoming) : incoming' = SubSeq(incoming, 1, k)
    BY <1>4 DEF HangsUp
  <2> DEFINE t == SubSeq(incoming, k + 1, Len(incoming))
  <2>2. incoming' \in Seq(Messages) /\ t \in Seq(Messages) /\ incoming = incoming' \o t
    BY <2>1, PrefixTypes
  <2> HIDE DEF t
  <2>3. RequestsIn(incoming) = RequestsIn(incoming)' \cup RequestsIn(t)
    BY <2>2, RequestsOfConcat
  <2>4. asked' = asked
    BY <1>4 DEF HangsUp
  <2> QED
    BY <1>a, <2>3, <2>4 DEF Outstanding
<1>5. Outstanding' \subseteq Outstanding
  BY <1>1, <1>2, <1>3, <1>4 DEF Editor
<1> QED
  BY <1>a, <1>b, <1>5, FewerRequests

LEMMA IdentifiedStep == TypeOK /\ Identified /\ [Next]_vars => Identified'
<1> SUFFICES ASSUME TypeOK, Identified, [Next]_vars PROVE Identified'
  OBVIOUS
<1>a. calls + 1 \in Nat
  BY RpcAssumption DEF TypeOK
<1>1. CASE Connect \/ Worker \/ Pops \/ Listens \/ Drops \/ UNCHANGED vars
  <2>1. /\ incoming' = incoming /\ asked' = asked /\ nextId' = nextId
        /\ current' = current /\ calls' = calls /\ last' = last
        /\ pc' = pc \/ pc' # "reading"
    BY <1>1 DEF Connect, Starts, TimePasses, Receives, GivesUp, Connects, Connected,
       Worker, WorkerFinishes, WorkerSends, Pops, Listens, Drops, vars, editorVars, callVars
  <2>2. Outstanding' \subseteq Outstanding
    BY <2>1 DEF Outstanding, RequestsIn
  <2>3. AnswersThisCall' /\ (pc' = "reading" => current'.call = calls')
    BY <2>1 DEF AnswersThisCall, Identified
  <2> QED
    BY <2>1, <2>2, <2>3, FewerRequests
<1>2. CASE CallOverflows \/ CallNotWritten
  <2>1. Errs(calls + 1) /\ asked' = asked /\ incoming' = incoming /\ nextId' \in {nextId, nextId + 1}
    BY <1>2 DEF CallOverflows, CallNotWritten, editorVars
  <2>2. RequestsIn(incoming)' \subseteq RequestsIn(incoming)
    BY <2>1 DEF RequestsIn
  <2> QED
    BY <1>a, <2>1, <2>2, ErrIdentified
<1> QED
  BY <1>1, <1>2, CallsIdentified, ReadIdentified, EditorIdentified DEF Next, Use

\* No two outstanding requests share an identifier (next_id.checked_add).
THEOREM IdentifiersAreFresh == Spec => []IdentifiersDiffer
<1>1. Identified => IdentifiersDiffer
  BY DEF Identified
<1> QED
  BY <1>1, IdentifiedInit, IdentifiedStep, TypeCorrect, PTL DEF Spec

\* A call returns the answer to itself (call).
THEOREM AnswersAreOwn == Spec => []AnswersThisCall
<1>1. Identified => AnswersThisCall
  BY DEF Identified
<1> QED
  BY <1>1, IdentifiedInit, IdentifiedStep, TypeCorrect, PTL DEF Spec

(***************************************************************************)
(* Notifications.                                                          *)
(***************************************************************************)

\* Nothing is numbered beyond the last notification, and who listens has none
\* kept.
Kept ==
    /\ NotesAreKept
    /\ Range(Told) \cup NotesIn(incoming) \subseteq 0..notes
    /\ pc = "listening" => stash = <<>>

\* What is told of is a sequence of numbers.
LEMMA ToldType == TypeOK => Told \in Seq(Nat)
  BY ConcatProperties DEF TypeOK, Told

\* What has been read of the messages that are waiting.
LEMMA HeadOfIncoming ==
    ASSUME TypeOK, NotesAreKept, incoming # <<>>
    PROVE  /\ Head(incoming) \in Messages /\ Tail(incoming) \in Seq(Messages)
           /\ NotesIn(incoming) = NotesIn(<<Head(incoming)>>) \cup NotesIn(Tail(incoming))
           /\ InOrder(Tail(incoming))
           /\ \A m \in NotesIn(<<Head(incoming)>>), n \in NotesIn(Tail(incoming)) : m < n
<1> DEFINE h == <<Head(incoming)>>
           t == Tail(incoming)
<1>1. Head(incoming) \in Messages /\ t \in Seq(Messages) /\ h \in Seq(Messages) /\ incoming = h \o t
  BY HeadAndRest, RangeOfOne DEF TypeOK
<1>2. InOrder(incoming)
  BY DEF NotesAreKept
<1> HIDE DEF h, t
<1>3. NotesIn(incoming) = NotesIn(h) \cup NotesIn(t)
  BY <1>1, NotesOfConcat
<1>4. InOrder(t) /\ \A m \in NotesIn(h), n \in NotesIn(t) : m < n
  BY <1>1, <1>2, OrderOfConcat
<1> QED
  BY <1>1, <1>3, <1>4 DEF h, t

\* A step that forgets nothing keeps the notifications.
LEMMA KeepsTold ==
    ASSUME TypeOK, Kept, Told' = Told, notes' = notes,
           pc' = "listening" => stash' = <<>>,
           InOrder(incoming'), NotesIn(incoming') \subseteq NotesIn(incoming),
           lost \cup NotesIn(incoming) \subseteq lost' \cup NotesIn(incoming')
    PROVE  Kept'
  BY DEF Kept, NotesAreKept

\* A step that tells of the notification it reads keeps them too.
LEMMA TellsNext ==
    ASSUME TypeOK, Kept, ReadsMessage("notification"),
           Told' = Append(Told, Head(incoming).num),
           notes' = notes, lost' = lost, pc' # "listening"
    PROVE  Kept'
<1> DEFINE n == Head(incoming).num
           t == Tail(incoming)
<1>1. /\ incoming # <<>> /\ incoming' = t /\ Head(incoming).kind = "notification"
  BY DEF ReadsMessage
<1>2. /\ Head(incoming) \in Messages
      /\ NotesIn(incoming) = NotesIn(<<Head(incoming)>>) \cup NotesIn(t)
      /\ InOrder(t)
      /\ \A m \in NotesIn(<<Head(incoming)>>), k \in NotesIn(t) : m < k
  BY <1>1, HeadOfIncoming DEF Kept
<1>3. n \in Nat /\ NotesIn(<<Head(incoming)>>) = {n}
  BY <1>1, <1>2, NotesOfOne DEF Messages
<1>4. Rising(Told) /\ Told \in Seq(Nat) /\ \A m \in Range(Told) : m < n
  BY <1>2, <1>3, ToldType DEF Kept, NotesAreKept
<1>5. Rising(Told') /\ Range(Told') = Range(Told) \cup {n}
  BY <1>3, <1>4, RisingAppend
<1> HIDE DEF n, t
<1>6. \A m \in Range(Told'), k \in NotesIn(t) : m < k
  BY <1>2, <1>3, <1>5 DEF Kept, NotesAreKept
<1>7. 1..notes \subseteq lost \cup Range(Told') \cup NotesIn(t)
  BY <1>2, <1>3, <1>5 DEF Kept, NotesAreKept
<1>8. Range(Told') \cup NotesIn(t) \subseteq 0..notes
  BY <1>2, <1>3, <1>5 DEF Kept
<1> QED
  BY <1>1, <1>2, <1>5, <1>6, <1>7, <1>8 DEF Kept, NotesAreKept

\* Adding a message to those that are waiting.
LEMMA NotesOfAppend ==
    ASSUME NEW s \in Seq(Messages), NEW m \in Messages, InOrder(s),
           m.kind = "notification" => \A n \in NotesIn(s) : n < m.num
    PROVE  /\ InOrder(Append(s, m))
           /\ NotesIn(Append(s, m)) = NotesIn(s) \cup NotesIn(<<m>>)
<1>1. Append(s, m) = s \o <<m>> /\ <<m>> \in Seq(Messages)
  BY AppendIsConcat, RangeOfOne
<1>2. InOrder(<<m>>)
  <2>1. DOMAIN <<m>> = {1}
    OBVIOUS
  <2> QED
    BY <2>1 DEF InOrder
<1>3. \A k \in NotesIn(s), n \in NotesIn(<<m>>) : k < n
  BY NotesOfOne
<1> QED
  BY <1>1, <1>2, <1>3, OrderOfConcat, NotesOfConcat

LEMMA KeptInit == Init => Kept
<1> SUFFICES ASSUME Init PROVE Kept
  OBVIOUS
<1>1. Told = <<>> /\ Range(Told) = {} /\ Range(incoming) = {} /\ DOMAIN Told = {} /\ DOMAIN incoming = {}
  <2>1. <<>> \o <<>> = <<>>
    BY ConcatEmptySeq, EmptySeq
  <2> QED
    BY <2>1 DEF Init, Told, Range
<1>2. NotesIn(incoming) = {}
  BY <1>1 DEF NotesIn
<1>3. 1..notes = {}
  BY DEF Init
<1> QED
  BY <1>1, <1>2, <1>3 DEF Init, Kept, NotesAreKept, Rising, InOrder

LEMMA EditorKeeps == TypeOK /\ Kept /\ Editor => Kept'
<1> SUFFICES ASSUME TypeOK, Kept, Editor PROVE Kept'
  OBVIOUS
<1> USE DEF callVars, noteVars
<1>a. Told' = Told /\ pc' = pc /\ stash' = stash
  BY DEF Editor, Answers, Notifies, Requests, HangsUp, Told
<1>b. incoming \in Seq(Messages) /\ InOrder(incoming) /\ notes \in Nat
  BY RpcAssumption DEF TypeOK, Kept, NotesAreKept
<1>1. ASSUME NEW r \in asked, NEW ok \in BOOLEAN, Answers(r, ok)
      PROVE  Kept'
  <2> DEFINE m == Response(r, ok)
  <2>1. m \in Messages /\ m.kind = "response"
    BY MessageTypes DEF TypeOK, Response
  <2>2. incoming' = Append(incoming, m) /\ notes' = notes /\ lost' = lost
    BY <1>1 DEF Answers
  <2> HIDE DEF m
  <2>4. NotesIn(<<m>>) = {}
    BY <2>1, NotesOfOne
  <2>3. InOrder(incoming') /\ NotesIn(incoming') = NotesIn(incoming)
    BY <1>b, <2>1, <2>2, <2>4, NotesOfAppend
  <2> QED
    BY <1>a, <2>2, <2>3, KeepsTold DEF Kept
<1>2. CASE Notifies
  <2> DEFINE m == Notification(notes + 1)
  <2>1. m \in Messages /\ m.kind = "notification" /\ m.num = notes + 1
    BY <1>b, MessageTypes DEF Notification
  <2>2. incoming' = Append(incoming, m) /\ notes' = notes + 1 /\ lost' = lost
    BY <1>2 DEF Notifies
  <2> HIDE DEF m
  <2>3. \A n \in Range(Told) \cup NotesIn(incoming) : n < notes + 1
    BY <1>b DEF Kept
  <2>10. NotesIn(<<m>>) = {notes + 1}
    BY <2>1, NotesOfOne
  <2>4. InOrder(incoming') /\ NotesIn(incoming') = NotesIn(incoming) \cup {notes + 1}
    BY <1>b, <2>1, <2>2, <2>3, <2>10, NotesOfAppend
  <2>5. \A k \in Range(Told'), n \in NotesIn(incoming') : k < n
    BY <1>a, <2>3, <2>4 DEF Kept, NotesAreKept
  <2>6. \A k \in 1..(notes + 1) : k \in 1..notes \/ k = notes + 1
    BY <1>b
  <2>7. 1..notes' \subseteq lost' \cup Range(Told') \cup NotesIn(incoming')
    BY <1>a, <2>2, <2>4, <2>6 DEF Kept, NotesAreKept
  <2>8. 0..notes \subseteq 0..(notes + 1) /\ notes + 1 \in 0..(notes + 1)
    BY <1>b
  <2>9. Range(Told') \cup NotesIn(incoming') \subseteq 0..notes'
    BY <1>a, <2>2, <2>4, <2>8 DEF Kept
  <2> QED
    BY <1>a, <2>4, <2>5, <2>7, <2>9 DEF Kept, NotesAreKept
<1>3. CASE Requests
  <2>1. Malformed \in Messages /\ Malformed.kind # "notification"
    BY MessageTypes DEF Malformed
  <2>2. incoming' = Append(incoming, Malformed) /\ notes' = notes + 1 /\ lost' = lost \cup {notes + 1}
    BY <1>3 DEF Requests
  <2>8. NotesIn(<<Malformed>>) = {}
    BY <2>1, NotesOfOne
  <2>3. InOrder(incoming') /\ NotesIn(incoming') = NotesIn(incoming)
    BY <1>b, <2>1, <2>2, <2>8, NotesOfAppend
  <2>4. \A k \in 1..(notes + 1) : k \in 1..notes \/ k = notes + 1
    BY <1>b
  <2>5. 1..notes' \subseteq lost' \cup Range(Told') \cup NotesIn(incoming')
    BY <1>a, <2>2, <2>3, <2>4 DEF Kept, NotesAreKept
  <2>6. 0..notes \subseteq 0..(notes + 1)
    BY <1>b
  <2>7. Range(Told') \cup NotesIn(incoming') \subseteq 0..notes'
    BY <1>a, <2>2, <2>3, <2>6 DEF Kept
  <2> QED
    BY <1>a, <2>3, <2>5, <2>7 DEF Kept, NotesAreKept
<1>4. CASE HangsUp
  <2>1. PICK k \in 0..Len(incoming) :
           /\ incoming' = SubSeq(incoming, 1, k)
           /\ lost' = lost \cup NotesIn(SubSeq(incoming, k + 1, Len(incoming)))
    BY <1>4 DEF HangsUp
  <2> DEFINE t == SubSeq(incoming, k + 1, Len(incoming))
  <2>2. incoming' \in Seq(Messages) /\ t \in Seq(Messages) /\ incoming = incoming' \o t
    BY <2>1, PrefixTypes
  <2>3. lost' = lost \cup NotesIn(t) /\ notes' = notes
    BY <1>4, <2>1 DEF HangsUp
  <2> HIDE DEF t
  <2>4. InOrder(incoming') /\ NotesIn(incoming) = NotesIn(incoming') \cup NotesIn(t)
    BY <1>b, <2>2, OrderOfConcat, NotesOfConcat
  <2> QED
    BY <1>a, <2>3, <2>4, KeepsTold DEF Kept
<1> QED
  BY <1>1, <1>2, <1>3, <1>4 DEF Editor

\* Telling of one more, by keeping it or by returning it.
LEMMA TellsOne == TypeOK /\ Kept /\ (CallStashes \/ Hears) => Kept'
<1> SUFFICES ASSUME TypeOK, Kept, CallStashes \/ Hears PROVE Kept'
  OBVIOUS
<1> USE DEF callVars, noteVars, editorVars
<1> DEFINE n == Head(incoming).num
<1>1. n \in Nat
  BY ReadTypes DEF CallStashes, Hears, ReadsMessage, Messages
<1>2. popped \in Seq(Nat) /\ stash \in Seq(Nat) /\ <<n>> \in Seq(Nat)
  BY <1>1 DEF TypeOK
<1>3. CASE CallStashes
  <2>1. stash' = Append(stash, n) /\ popped' = popped /\ lost' = lost /\ notes' = notes
        /\ pc' = "reading" /\ ReadsMessage("notification")
    BY <1>3 DEF CallStashes
  <2> HIDE DEF n
  <2>2. popped \o Append(stash, n) = (popped \o stash) \o <<n>>
    BY <1>1, <1>2, AppendIsConcat, ConcatAssociative
  <2>3. Told' = Append(Told, n)
    <3>1. popped \o stash \in Seq(Nat)
      BY <1>2, ConcatProperties
    <3> QED
      BY <1>1, <2>1, <2>2, <3>1, AppendIsConcat DEF Told
  <2> QED
    BY <2>1, <2>3, TellsNext DEF n
<1>4. CASE Hears
  <2>1. popped' = Append(popped, n) /\ stash' = stash /\ lost' = lost /\ notes' = notes
        /\ pc' = "idle" /\ ReadsMessage("notification") /\ stash = <<>>
    BY <1>4 DEF Hears, Kept
  <2> HIDE DEF n
  <2>2. Append(popped, n) \in Seq(Nat)
    BY <1>1, <1>2, AppendProperties
  <2>3. Told' = Append(Told, n)
    BY <1>2, <2>1, <2>2, ConcatEmptySeq DEF Told
  <2> QED
    BY <2>1, <2>3, TellsNext DEF n
<1> QED
  BY <1>3, <1>4

\* Reading what is no notification, or half of one.
LEMMA ReadKeeps == TypeOK /\ Kept /\ Read => Kept'
<1> SUFFICES ASSUME TypeOK, Kept, Read PROVE Kept'
  OBVIOUS
<1> USE DEF callVars, noteVars, editorVars
<1>1. CASE CallReturns \/ ReadFails
  <2>1. /\ incoming # <<>> /\ incoming' = Tail(incoming) /\ Head(incoming).kind # "notification"
        /\ pc' = "idle" /\ Told' = Told /\ notes' = notes /\ lost' = lost
    BY <1>1 DEF CallReturns, Ends, ReadFails, ReadsMessage, Errs, Told
  <2>2. NotesIn(<<Head(incoming)>>) = {}
    BY <2>1, ReadTypes, NotesOfOne
  <2>3. InOrder(incoming') /\ NotesIn(incoming') = NotesIn(incoming)
    BY <2>1, <2>2, HeadOfIncoming DEF Kept
  <2> QED
    BY <2>1, <2>3, KeepsTold
<1>2. CASE MeetsEof
  <2>1. incoming' = incoming /\ pc' = "idle" /\ Told' = Told /\ notes' = notes /\ lost' = lost
    BY <1>2 DEF MeetsEof, Errs, Told
  <2> QED
    BY <2>1, KeepsTold DEF Kept, NotesAreKept
<1>3. CASE ReadTimesOut
  <2>1. pc' = "idle" /\ Told' = Told /\ notes' = notes
    BY <1>3 DEF ReadTimesOut, TimesOut, Errs, Told
  <2>2. CASE incoming' = incoming /\ lost' = lost
    BY <2>1, <2>2, KeepsTold DEF Kept, NotesAreKept
  <2>3. CASE ~(incoming' = incoming /\ lost' = lost)
    <3> DEFINE h == Head(incoming)
               t == Tail(incoming)
               m == <<Malformed>>
    <3>1. /\ incoming # <<>> /\ incoming' \in {m \o t, <<Malformed, Malformed>> \o t}
          /\ lost' = lost \cup NotesIn(<<h>>)
      BY <1>3, <2>3 DEF ReadTimesOut, TimesOut
    <3>2. <<Malformed, Malformed>> = m \o m
      OBVIOUS
    <3>3. m \in Seq(Messages) /\ NotesIn(m) = {}
      BY MessageTypes, RangeOfOne, NotesOfOne DEF Malformed
    <3>4. InOrder(m)
      <4>1. DOMAIN <<Malformed>> = {1}
        OBVIOUS
      <4> QED
        BY <4>1 DEF InOrder
    <3>5. /\ t \in Seq(Messages) /\ InOrder(t)
          /\ NotesIn(incoming) = NotesIn(<<h>>) \cup NotesIn(t)
      BY <3>1, HeadOfIncoming DEF Kept
    <3> HIDE DEF m, h, t
    <3>6. m \o m \in Seq(Messages) /\ NotesIn(m \o m) = {} /\ InOrder(m \o m)
      <4>1. m \o m \in Seq(Messages)
        BY <3>3, ConcatProperties
      <4>2. NotesIn(m \o m) = NotesIn(m) \cup NotesIn(m)
        BY <3>3, NotesOfConcat
      <4>3. InOrder(m \o m)
        BY <3>3, <3>4, OrderOfConcat
      <4> QED
        BY <3>3, <4>1, <4>2, <4>3
    <3>7. InOrder(m \o t) /\ InOrder((m \o m) \o t)
      BY <3>3, <3>4, <3>5, <3>6, OrderOfConcat
    <3>8. NotesIn(m \o t) = NotesIn(m) \cup NotesIn(t)
          /\ NotesIn((m \o m) \o t) = NotesIn(m \o m) \cup NotesIn(t)
      BY <3>3, <3>5, <3>6, NotesOfConcat
    <3>9. InOrder(incoming') /\ NotesIn(incoming') = NotesIn(t)
      BY <3>1, <3>2, <3>3, <3>6, <3>7, <3>8
    <3> QED
      BY <2>1, <3>1, <3>5, <3>9, KeepsTold
  <2> QED
    BY <2>2, <2>3
<1> QED
  BY <1>1, <1>2, <1>3, TellsOne DEF Read

LEMMA KeptStep == TypeOK /\ Kept /\ [Next]_vars => Kept'
<1> SUFFICES ASSUME TypeOK, Kept, [Next]_vars PROVE Kept'
  OBVIOUS
<1> USE DEF callVars, noteVars, editorVars
<1>1. CASE Pops
  <2> DEFINE n == Head(stash)
             t == Tail(stash)
  <2>1. /\ stash # <<>> /\ popped' = Append(popped, n) /\ stash' = t /\ pc' = "idle"
        /\ incoming' = incoming /\ notes' = notes /\ lost' = lost
    BY <1>1 DEF Pops
  <2>2. popped \in Seq(Nat) /\ n \in Nat /\ t \in Seq(Nat) /\ stash = <<n>> \o t /\ <<n>> \in Seq(Nat)
    BY <2>1, HeadAndRest DEF TypeOK
  <2> HIDE DEF n, t
  <2>3. Append(popped, n) \o t = popped \o stash
    BY <2>2, AppendIsConcat, ConcatAssociative
  <2>4. Told' = Told
    BY <2>1, <2>3 DEF Told
  <2> QED
    BY <2>1, <2>4, KeepsTold DEF Kept, NotesAreKept
<1>2. CASE Listens
  <2>1. Told' = Told /\ stash' = <<>> /\ incoming' = incoming /\ notes' = notes /\ lost' = lost
    BY <1>2 DEF Listens, Told
  <2> QED
    BY <2>1, KeepsTold DEF Kept, NotesAreKept
<1>3. CASE Connect \/ Worker \/ Calls \/ CallOverflows \/ CallNotWritten \/ Drops \/ UNCHANGED vars
  <2>1. /\ Told' = Told /\ incoming' = incoming /\ notes' = notes /\ lost' = lost /\ stash' = stash
        /\ pc' = "listening" => pc = "listening"
    BY <1>3 DEF Connect, Starts, TimePasses, Receives, GivesUp, Connects, Connected,
       Worker, WorkerFinishes, WorkerSends, Calls, Asks, CallOverflows, CallNotWritten, Errs,
       Drops, vars, Told
  <2> QED
    BY <2>1, KeepsTold DEF Kept, NotesAreKept
<1> QED
  BY <1>1, <1>2, <1>3, ReadKeeps, EditorKeeps DEF Next, Use

\* Notifications are neither lost, repeated nor reordered by the calls they
\* arrive between (call, pop_notification, next_notification).
THEOREM NotesKept == Spec => []NotesAreKept
<1>1. Kept => NotesAreKept
  BY DEF Kept
<1> QED
  BY <1>1, KeptInit, KeptStep, TypeCorrect, PTL DEF Spec
=============================================================================
