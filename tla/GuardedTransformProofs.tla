----------------------- MODULE GuardedTransformProofs -----------------------
(***************************************************************************)
(* What every number of transforms, buffers, rows and edits keeps: the     *)
(* invariant IInv of GuardedTransform, and from it that no edit is lost,   *)
(* that one transform at most changes a version of a buffer, and that a    *)
(* transform changes what it captured and says truly whether it did.       *)
(***************************************************************************)
EXTENDS GuardedTransform, TLAPS

(***************************************************************************)
(* Frames: what groups of actions leave alone.                             *)
(***************************************************************************)
LEMMA UserFrame ==
    User => UNCHANGED <<args, pc, request, reply, snapshot, result, outcome, wrote>>
BY DEF User, UserEdits, UserUnloads, UserReloads, UserSwitches,
       UserTogglesModifiable, UserInterrupts, rpcVars, editorVars

LEMMA ClosureFrame ==
    ASSUME NEW c \in Commands, Closure(c)
    PROVE  UNCHANGED <<text, tick, loaded, modifiable, current, unmade, args,
                       request, reply, snapshot, signal, wrote>>
BY DEF Closure, ClosureReturns, ClosureFails, rpcVars, editorVars

LEMMA CommandFrame ==
    ASSUME NEW c \in Commands, Command(c)
    PROVE  UNCHANGED <<text, tick, loaded, modifiable, current, unmade, args,
                       snapshot, result, signal, wrote>>
BY DEF Command, SendCapture, ReceiveCapture, ReceiveError, CheckFails, Previews,
       SendApply, ReceiveApplied, GivesUp, rpcVars, editorVars

\* An editor step for c that is neither a capture nor an apply.
LEMMA IdleEditorFrame ==
    ASSUME NEW c \in Commands, EditorRefuses(c) \/ EditorDiscards(c)
    PROVE  UNCHANGED <<text, tick, loaded, modifiable, current, unmade, args,
                       pc, snapshot, result, signal, outcome, wrote>>
BY DEF EditorRefuses, EditorDiscards, editorVars

-----------------------------------------------------------------------------
(***************************************************************************)
(* Types.                                                                  *)
(***************************************************************************)
LEMMA UpdateType ==
    ASSUME NEW S, NEW T, NEW f \in [S -> T], NEW x \in S, NEW y \in T
    PROVE  [f EXCEPT ![x] = y] \in [S -> T]
OBVIOUS

LEMMA TypeUser == TypeOK /\ User => TypeOK'
<1> SUFFICES ASSUME TypeOK, User PROVE TypeOK'
    OBVIOUS
<1>1. ASSUME NEW b \in Buffers, NEW r \in Rows, NEW e \in Edits, UserEdits(b, r, e)
      PROVE  TypeOK'
      BY <1>1 DEF TypeOK, UserEdits, rpcVars
<1>2. ASSUME NEW b \in Buffers, UserUnloads(b) PROVE TypeOK'
      BY <1>2 DEF TypeOK, UserUnloads, rpcVars
<1>3. ASSUME NEW b \in Buffers, UserReloads(b) PROVE TypeOK'
      BY <1>3 DEF TypeOK, UserReloads, rpcVars
<1>4. ASSUME NEW b \in Buffers, UserSwitches(b) PROVE TypeOK'
      BY <1>4 DEF TypeOK, UserSwitches, rpcVars
<1>5. ASSUME NEW b \in Buffers, UserTogglesModifiable(b) PROVE TypeOK'
      BY <1>5 DEF TypeOK, UserTogglesModifiable, rpcVars
<1>6. ASSUME NEW c \in Commands, UserInterrupts(c) PROVE TypeOK'
      BY <1>6 DEF TypeOK, UserInterrupts, rpcVars, editorVars
<1> QED
    BY <1>1, <1>2, <1>3, <1>4, <1>5, <1>6 DEF User

LEMMA TargetType ==
    ASSUME TypeOK, NEW c \in Commands
    PROVE  Target(c) \in Buffers /\ (args[c].target \in Buffers => Target(c) = args[c].target)
BY TransformAssumption DEF TypeOK, Target

LEMMA VerdictType ==
    ASSUME NEW c \in Commands
    PROVE  /\ Verdict(c) \in Replies \ {"none"}
           /\ Verdict(c) = "ok" => /\ loaded[snapshot[c].buffer]
                                   /\ tick[snapshot[c].buffer] = snapshot[c].tick
                                   /\ result[c] # "multiline"
BY DEF Verdict, Replies

LEMMA TypeEditor ==
    ASSUME TypeOK, NEW c \in Commands, Exchange(c), Editor(c)
    PROVE  TypeOK'
<1>1. CASE EditorCaptures(c)
  <2>1. [buffer |-> Target(c), text |-> text[Target(c)], tick |-> tick[Target(c)]]
            \in Snapshot
        BY TargetType DEF TypeOK, Snapshot
  <2> QED
      BY <1>1, <2>1 DEF TypeOK, EditorCaptures, editorVars, Replies
<1>2. CASE EditorRefuses(c)
      BY <1>2 DEF TypeOK, EditorRefuses, editorVars, Replies
<1>3. CASE EditorApplies(c)
  <2>1. snapshot[c] \in Snapshot
        BY <1>3 DEF Exchange, EditorApplies, Captured
  <2>2. reply' \in [Commands -> Replies]
        BY <1>3, VerdictType DEF TypeOK, EditorApplies
  <2>3. CASE Verdict(c) = "ok"
    <3> DEFINE b == snapshot[c].buffer
               rows == [r \in Rows |-> IF r \in args[c].span
                                      THEN snapshot[c].text[r] \cup {c}
                                      ELSE text[b][r]]
    <3>0. b \in Buffers /\ rows \in [Rows -> SUBSET (Commands \cup Edits)]
          BY <2>1 DEF TypeOK, Snapshot
    <3>a. text' = [text EXCEPT ![b] = rows]
          BY <1>3, <2>3 DEF EditorApplies, Writes
    <3>1. text' \in [Buffers -> [Rows -> SUBSET (Commands \cup Edits)]]
      <4>1. text \in [Buffers -> [Rows -> SUBSET (Commands \cup Edits)]]
            BY DEF TypeOK
      <4> HIDE DEF b, rows
      <4> QED BY <3>0, <3>a, <4>1, UpdateType
    <3>2. tick' = [tick EXCEPT ![b] = @ + 1] /\ wrote' = wrote \cup {c}
          BY <1>3, <2>3 DEF EditorApplies, Writes
    <3>3. tick' \in [Buffers -> Nat] /\ wrote' \subseteq Commands
      <4> HIDE DEF b, rows
      <4> QED BY <3>0, <3>2 DEF TypeOK
    <3> QED
        BY <1>3, <2>2, <3>1, <3>3 DEF TypeOK, EditorApplies
  <2>4. CASE Verdict(c) # "ok"
        BY <1>3, <2>2, <2>4 DEF TypeOK, EditorApplies
  <2> QED
      BY <2>3, <2>4
<1>4. CASE EditorDiscards(c)
      BY <1>4 DEF TypeOK, EditorDiscards, editorVars
<1> QED
    BY <1>1, <1>2, <1>3, <1>4 DEF Editor

LEMMA TypeClosure ==
    ASSUME TypeOK, NEW c \in Commands, Closure(c)
    PROVE  TypeOK'
<1>1. ASSUME NEW value \in {"text", "multiline", "other"}, ClosureReturns(c, value)
      PROVE  TypeOK'
      BY <1>1 DEF TypeOK, ClosureReturns, rpcVars, editorVars
<1>2. CASE ClosureFails(c)
      BY <1>2 DEF TypeOK, ClosureFails, Ends, rpcVars, editorVars, Rejections
<1> QED
    BY <1>1, <1>2 DEF Closure

LEMMA TypeCommand ==
    ASSUME TypeOK, NEW c \in Commands, Command(c)
    PROVE  TypeOK'
<1>1. CASE SendCapture(c)
      BY <1>1 DEF TypeOK, SendCapture, Sends, editorVars, Replies
<1>2. CASE ReceiveCapture(c)
      BY <1>2 DEF TypeOK, ReceiveCapture, rpcVars, editorVars
<1>3. CASE ReceiveError(c)
      BY <1>3 DEF TypeOK, ReceiveError, Ends, rpcVars, editorVars, Rejections
<1>4. CASE CheckFails(c)
      BY <1>4 DEF TypeOK, CheckFails, Ends, rpcVars, editorVars, Rejections
<1>5. CASE Previews(c)
      BY <1>5 DEF TypeOK, Previews, Ends, rpcVars, editorVars, Rejections
<1>6. CASE SendApply(c)
      BY <1>6 DEF TypeOK, SendApply, Sends, editorVars, Replies
<1>7. CASE ReceiveApplied(c)
      BY <1>7 DEF TypeOK, ReceiveApplied, Ends, rpcVars, editorVars
<1>8. CASE GivesUp(c)
      BY <1>8 DEF TypeOK, GivesUp, Ends, rpcVars, editorVars
<1> QED
    BY <1>1, <1>2, <1>3, <1>4, <1>5, <1>6, <1>7, <1>8 DEF Command

-----------------------------------------------------------------------------
(***************************************************************************)
(* Each command's exchange with the editor.                                *)
(***************************************************************************)
Step(c) == Editor(c) \/ Closure(c) \/ Command(c)

Own(d) == <<pc[d], request[d], reply[d], snapshot[d], result[d], outcome[d]>>

\* A step of a command, or of the editor for it, leaves the others alone.
LEMMA OthersFrame ==
    ASSUME TypeOK, NEW c \in Commands, Step(c), NEW d \in Commands, d # c
    PROVE  /\ Own(d)' = Own(d)
           /\ d \in wrote' <=> d \in wrote
           /\ args' = args
<1>1. CASE Editor(c)
      BY <1>1 DEF TypeOK, Own, Editor, EditorCaptures, EditorRefuses,
                  EditorApplies, EditorDiscards, Writes, editorVars
<1>2. CASE Closure(c)
      BY <1>2 DEF TypeOK, Own, Closure, ClosureReturns, ClosureFails, Ends,
                  rpcVars, editorVars
<1>3. CASE Command(c)
      BY <1>3 DEF TypeOK, Own, Command, SendCapture, ReceiveCapture,
                  ReceiveError, CheckFails, Previews, SendApply, ReceiveApplied,
                  GivesUp, Sends, Ends, rpcVars, editorVars
<1> QED
    BY <1>1, <1>2, <1>3 DEF Step

\* What each command's own step keeps of its exchange.
LEMMA ExchangeStep ==
    ASSUME TypeOK, NEW c \in Commands, Exchange(c), Step(c)
    PROVE  Exchange(c)'
<1> USE DEF Exchange, Captured
<1>1. CASE EditorCaptures(c)
  <2>1. [buffer |-> Target(c), text |-> text[Target(c)], tick |-> tick[Target(c)]]
            \in Snapshot
        BY TargetType DEF TypeOK, Snapshot
  <2> QED
      BY <1>1, <2>1 DEF TypeOK, EditorCaptures
<1>2. CASE EditorRefuses(c)
      BY <1>2 DEF TypeOK, EditorRefuses
<1>3. CASE EditorApplies(c)
      BY <1>3, VerdictType DEF TypeOK, EditorApplies
<1>4. CASE EditorDiscards(c)
      BY <1>4 DEF TypeOK, EditorDiscards
<1>5. CASE Closure(c)
      BY <1>5 DEF TypeOK, Closure, ClosureReturns, ClosureFails, Ends, rpcVars
<1>6. CASE SendCapture(c) \/ ReceiveCapture(c) \/ SendApply(c)
      BY <1>6 DEF TypeOK, SendCapture, ReceiveCapture, SendApply, Sends, rpcVars
<1>7. CASE ReceiveError(c) \/ CheckFails(c) \/ Previews(c) \/ ReceiveApplied(c)
             \/ GivesUp(c)
      BY <1>7 DEF TypeOK, ReceiveError, CheckFails, Previews, ReceiveApplied,
                  GivesUp, Ends, rpcVars
<1> QED
    BY <1>1, <1>2, <1>3, <1>4, <1>5, <1>6, <1>7 DEF Step, Editor, Command

LEMMA AskingStep ==
    ASSUME TypeOK, NEW c \in Commands, Exchange(c), Asking(c), Step(c)
    PROVE  Asking(c)'
<1>1. CASE Editor(c)
      BY <1>1 DEF TypeOK, Asking, Editor, EditorCaptures, EditorRefuses,
                  EditorApplies, EditorDiscards, editorVars
<1>2. CASE Closure(c)
      BY <1>2 DEF TypeOK, Asking, Exchange, Closure, ClosureReturns,
                  ClosureFails, Ends, rpcVars
<1>3. CASE SendApply(c)
      BY <1>3 DEF TypeOK, Asking, SendApply, Sends
<1>4. CASE Command(c) /\ ~SendApply(c)
      BY <1>4 DEF TypeOK, Asking, Command, SendCapture, ReceiveCapture,
                  ReceiveError, CheckFails, Previews, ReceiveApplied, GivesUp,
                  Sends, Ends, rpcVars
<1> QED
    BY <1>1, <1>2, <1>3, <1>4 DEF Step

LEMMA MarkingStep ==
    ASSUME TypeOK, NEW c \in Commands, Exchange(c), Marking(c), Step(c)
    PROVE  Marking(c)'
<1> USE DEF Exchange, Marking, Captured
<1>1. CASE EditorCaptures(c)
      BY <1>1 DEF TypeOK, EditorCaptures
<1>2. CASE EditorRefuses(c) \/ EditorDiscards(c)
      BY <1>2 DEF TypeOK, EditorRefuses, EditorDiscards
<1>3. CASE EditorApplies(c)
  <2>1. request'[c] = "none" /\ reply'[c] = Verdict(c)
        BY <1>3 DEF TypeOK, EditorApplies
  <2>2. wrote' = IF Verdict(c) = "ok" THEN wrote \cup {c} ELSE wrote
        BY <1>3 DEF EditorApplies, Writes
  <2> QED
      BY <1>3, <2>1, <2>2 DEF EditorApplies
<1>4. CASE Closure(c)
      BY <1>4 DEF TypeOK, Closure, ClosureReturns, ClosureFails, Ends, rpcVars
<1>5. CASE SendCapture(c) \/ ReceiveCapture(c) \/ SendApply(c)
      BY <1>5 DEF TypeOK, SendCapture, ReceiveCapture, SendApply, Sends, rpcVars
<1>6. CASE ReceiveError(c) \/ CheckFails(c) \/ Previews(c) \/ ReceiveApplied(c)
             \/ GivesUp(c)
      BY <1>6 DEF TypeOK, ReceiveError, CheckFails, Previews, ReceiveApplied,
                  GivesUp, Ends, rpcVars
<1> QED
    BY <1>1, <1>2, <1>3, <1>4, <1>5, <1>6 DEF Step, Editor, Command

-----------------------------------------------------------------------------
(***************************************************************************)
(* The versions of the buffers.                                            *)
(***************************************************************************)

\* A user's step changes the text of a loaded buffer only by adding to it, and
\* any change of a text shows in its tick.
LEMMA UserVersions ==
    ASSUME TypeOK, User, NEW b \in Buffers
    PROVE  /\ tick'[b] \in Nat /\ tick[b] <= tick'[b]
           /\ (loaded'[b] /\ tick'[b] = tick[b]) => loaded[b] /\ text'[b] = text[b]
           /\ loaded[b] => \A r \in Rows : text[b][r] \subseteq text'[b][r]
           /\ \A r \in Rows : text'[b][r] \cap Commands \subseteq text[b][r]
<1>1. ASSUME NEW a \in Buffers, NEW r \in Rows, NEW e \in Edits, UserEdits(a, r, e)
      PROVE  /\ tick' = [tick EXCEPT ![a] = @ + 1]
             /\ text' = [text EXCEPT ![a][r] = @ \cup {e}]
             /\ loaded' = loaded
      BY <1>1 DEF UserEdits
<1>2. ASSUME NEW a \in Buffers, UserUnloads(a)
      PROVE  /\ tick' = tick /\ text' = text
             /\ loaded' = [loaded EXCEPT ![a] = FALSE]
      BY <1>2 DEF UserUnloads
<1>3. ASSUME NEW a \in Buffers, UserReloads(a)
      PROVE  /\ tick' = [tick EXCEPT ![a] = @ + 1]
             /\ text' = [text EXCEPT ![a] = [r \in Rows |-> {}]]
             /\ ~loaded[a] /\ loaded' = [loaded EXCEPT ![a] = TRUE]
      BY <1>3 DEF UserReloads
<1>4. \/ \E a \in Buffers, r \in Rows, e \in Edits : UserEdits(a, r, e)
      \/ \E a \in Buffers : UserUnloads(a)
      \/ \E a \in Buffers : UserReloads(a)
      \/ UNCHANGED <<tick, text, loaded>>
      BY DEF User, UserSwitches, UserTogglesModifiable, UserInterrupts, editorVars
<1>5. CASE \E a \in Buffers, r \in Rows, e \in Edits : UserEdits(a, r, e)
  <2> PICK a \in Buffers, r \in Rows, e \in Edits : UserEdits(a, r, e)
      BY <1>5
  <2>1. e \notin Commands
        BY TransformAssumption
  <2>2. /\ text \in [Buffers -> [Rows -> SUBSET (Commands \cup Edits)]]
        /\ tick \in [Buffers -> Nat]
        BY DEF TypeOK
  <2>3. /\ tick' = [tick EXCEPT ![a] = @ + 1]
        /\ text' = [text EXCEPT ![a][r] = @ \cup {e}]
        /\ loaded' = loaded
        BY <1>1
  <2>4. /\ b # a => tick'[b] = tick[b] /\ text'[b] = text[b]
        /\ b = a => tick'[b] = tick[b] + 1
        BY <2>2, <2>3
  <2>5. \A q \in Rows : \/ text'[b][q] = text[b][q]
                        \/ text'[b][q] = text[b][q] \cup {e}
        BY <2>2, <2>3
  <2>6. \A q \in Rows : /\ text[b][q] \subseteq text'[b][q]
                        /\ text'[b][q] \cap Commands \subseteq text[b][q]
        BY <2>1, <2>5
  <2>7. tick[b] \in Nat
        BY <2>2
  <2> QED
      BY <2>3, <2>4, <2>6, <2>7
<1>6. CASE \E a \in Buffers : UserUnloads(a)
      BY <1>2, <1>6 DEF TypeOK
<1>7. CASE \E a \in Buffers : UserReloads(a)
      BY <1>3, <1>7 DEF TypeOK
<1>8. CASE UNCHANGED <<tick, text, loaded>>
      BY <1>8 DEF TypeOK
<1> QED
    BY <1>4, <1>5, <1>6, <1>7, <1>8

\* What the apply chunk does to a buffer.
LEMMA ApplyVersions ==
    ASSUME TypeOK, NEW c \in Commands, Exchange(c), EditorApplies(c),
           NEW b \in Buffers
    PROVE  /\ snapshot[c] \in Snapshot
           /\ loaded' = loaded /\ tick'[b] \in Nat
           /\ Verdict(c) # "ok" => UNCHANGED <<text, tick, wrote>>
           /\ Verdict(c) = "ok" =>
                 /\ loaded[snapshot[c].buffer]
                 /\ tick[snapshot[c].buffer] = snapshot[c].tick
                 /\ result[c] # "multiline"
                 /\ wrote' = wrote \cup {c}
                 /\ b # snapshot[c].buffer =>
                       tick'[b] = tick[b] /\ text'[b] = text[b]
                 /\ b = snapshot[c].buffer =>
                       /\ tick'[b] = tick[b] + 1
                       /\ \A r \in Rows :
                            text'[b][r] = IF r \in args[c].span
                                          THEN snapshot[c].text[r] \cup {c}
                                          ELSE text[b][r]
<1>1. snapshot[c] \in Snapshot
      BY DEF Exchange, Captured, EditorApplies
<1>2. CASE Verdict(c) # "ok"
      BY <1>1, <1>2 DEF TypeOK, EditorApplies
<1>3. CASE Verdict(c) = "ok"
  <2>1. Writes(c, snapshot[c].buffer) /\ loaded' = loaded
        BY <1>3 DEF EditorApplies
  <2>2. snapshot[c].buffer \in Buffers /\ tick[b] \in Nat
        BY <1>1 DEF Snapshot, TypeOK
  <2>3. text \in [Buffers -> [Rows -> SUBSET (Commands \cup Edits)]]
        BY DEF TypeOK
  <2>4. tick \in [Buffers -> Nat]
        BY DEF TypeOK
  <2> QED
      BY <1>1, <1>3, <2>1, <2>2, <2>3, <2>4, VerdictType DEF Writes
<1> QED
    BY <1>2, <1>3

\* What the capture chunk does.
LEMMA CaptureVersions ==
    ASSUME TypeOK, NEW c \in Commands, EditorCaptures(c)
    PROVE  /\ UNCHANGED <<text, tick, loaded, args, wrote>>
           /\ Target(c) \in Buffers
           /\ loaded[Target(c)]
           /\ snapshot'[c] = [buffer |-> Target(c), text |-> text[Target(c)],
                              tick |-> tick[Target(c)]]
BY TargetType DEF TypeOK, EditorCaptures, editorVars

\* All other steps of a command leave buffers and snapshots alone.
LEMMA QuietFrame ==
    ASSUME NEW c \in Commands, Step(c), ~EditorCaptures(c), ~EditorApplies(c)
    PROVE  UNCHANGED <<text, tick, loaded, args, snapshot, wrote>>
BY ClosureFrame, CommandFrame, IdleEditorFrame DEF Step, Editor

VersionOf(c) ==
    Captured(c) =>
        LET s == snapshot[c] IN
        /\ s.tick <= tick[s.buffer]
        /\ c \in wrote => s.tick < tick[s.buffer]
        /\ (loaded[s.buffer] /\ s.tick = tick[s.buffer])
                => text[s.buffer] = s.text
        /\ args[c].target \in Buffers => s.buffer = args[c].target

LEMMA VersionsUser ==
    ASSUME TypeOK, User, NEW d \in Commands, VersionOf(d)
    PROVE  VersionOf(d)'
<1> SUFFICES ASSUME Captured(d)' PROVE VersionOf(d)'
    BY DEF VersionOf
<1> DEFINE b == snapshot[d].buffer
<1>1. UNCHANGED <<args, snapshot, wrote>> /\ Captured(d)
      BY UserFrame DEF Captured
<1>2. b \in Buffers /\ snapshot[d].tick \in Nat /\ tick[b] \in Nat
      BY <1>1 DEF Captured, Snapshot, TypeOK
<1>3. /\ tick'[b] \in Nat /\ tick[b] <= tick'[b]
      /\ (loaded'[b] /\ tick'[b] = tick[b]) => loaded[b] /\ text'[b] = text[b]
      BY <1>2, UserVersions
<1> QED
    BY <1>1, <1>2, <1>3 DEF VersionOf

LEMMA VersionsCapture ==
    ASSUME TypeOK, NEW c \in Commands, Marking(c), EditorCaptures(c),
           NEW d \in Commands, VersionOf(d)
    PROVE  VersionOf(d)'
<1>1. CASE d = c
  <2>1. c \notin wrote
        BY DEF Marking, EditorCaptures
  <2>2. tick[Target(c)] \in Nat
        BY CaptureVersions DEF TypeOK
  <2>3. /\ UNCHANGED <<text, tick, loaded, args, wrote>>
        /\ snapshot'[c] = [buffer |-> Target(c), text |-> text[Target(c)],
                           tick |-> tick[Target(c)]]
        BY CaptureVersions
  <2>4. args[c].target \in Buffers => Target(c) = args[c].target
        BY TargetType
  <2>5. /\ snapshot'[c].buffer = Target(c) /\ snapshot'[c].tick = tick[Target(c)]
        /\ snapshot'[c].text = text[Target(c)]
        BY <2>3
  <2> QED
      BY <1>1, <2>1, <2>2, <2>3, <2>4, <2>5 DEF VersionOf
<1>2. CASE d # c
      BY <1>2, CaptureVersions DEF TypeOK, EditorCaptures, VersionOf, Captured
<1> QED
    BY <1>1, <1>2

LEMMA VersionsApply ==
    ASSUME TypeOK, NEW c \in Commands, Exchange(c), EditorApplies(c),
           NEW d \in Commands, VersionOf(d)
    PROVE  VersionOf(d)'
<1> SUFFICES ASSUME Captured(d)' PROVE VersionOf(d)'
    BY DEF VersionOf
<1> DEFINE b == snapshot[d].buffer
<1>1. UNCHANGED <<args, snapshot, loaded>> /\ Captured(d)
      BY DEF Captured, EditorApplies
<1>2. b \in Buffers /\ snapshot[d].tick \in Nat /\ tick[b] \in Nat
      BY <1>1 DEF Captured, Snapshot, TypeOK
<1>3. CASE Verdict(c) # "ok"
      BY <1>1, <1>2, <1>3, ApplyVersions DEF VersionOf
<1>4. CASE Verdict(c) = "ok"
  <2>1. wrote' = wrote \cup {c}
        BY <1>2, <1>4, ApplyVersions
  <2>2. CASE b = snapshot[c].buffer
    <3>1. tick'[b] = tick[b] + 1 /\ tick[b] = snapshot[c].tick
          BY <1>2, <1>4, <2>2, ApplyVersions
    <3> QED
        BY <1>1, <1>2, <2>1, <3>1 DEF VersionOf
  <2>3. CASE b # snapshot[c].buffer
    <3>1. tick'[b] = tick[b] /\ text'[b] = text[b]
          BY <1>2, <1>4, <2>3, ApplyVersions
    <3>2. d # c
          BY <2>3
    <3> QED
        BY <1>1, <1>2, <2>1, <3>1, <3>2 DEF VersionOf
  <2> QED
      BY <2>2, <2>3
<1> QED
    BY <1>3, <1>4

-----------------------------------------------------------------------------
(***************************************************************************)
(* What a command wrote, and what it says of it.                           *)
(***************************************************************************)
GoodOf(c) ==
    c \in wrote => /\ ~args[c].preview /\ result[c] = "text"
                   /\ pc[c] \in {"applying", "done", "failed"}

LEMMA GoodStep ==
    ASSUME TypeOK, NEW c \in Commands, Exchange(c), Asking(c), Marking(c),
           GoodOf(c), Step(c)
    PROVE  GoodOf(c)'
<1>1. CASE EditorApplies(c)
  <2>1. UNCHANGED <<args, result, pc>> /\ request[c] = "apply"
        BY <1>1 DEF EditorApplies
  <2>2. wrote' = IF Verdict(c) = "ok" THEN wrote \cup {c} ELSE wrote
        BY <1>1 DEF EditorApplies, Writes
  <2> QED
      BY <2>1, <2>2, VerdictType DEF GoodOf, Asking, Exchange
<1>2. CASE EditorCaptures(c) \/ EditorRefuses(c) \/ EditorDiscards(c)
      BY <1>2 DEF GoodOf, EditorCaptures, EditorRefuses, EditorDiscards, editorVars
<1>3. CASE Closure(c)
  <2>1. c \notin wrote /\ wrote' = wrote
        BY <1>3, ClosureFrame DEF Marking, Closure, ClosureReturns, ClosureFails
  <2> QED
      BY <2>1 DEF GoodOf
<1>4. CASE Command(c)
  <2>1. UNCHANGED <<args, result, wrote>>
        BY <1>4, CommandFrame
  <2>2. ASSUME c \in wrote PROVE pc'[c] \in {"applying", "done", "failed"}
        BY <1>4, <2>2 DEF TypeOK, Marking, Command, SendCapture, ReceiveCapture,
                          ReceiveError, CheckFails, Previews, SendApply,
                          ReceiveApplied, GivesUp, Sends, Ends
  <2> QED
      BY <2>1, <2>2 DEF GoodOf
<1> QED
    BY <1>1, <1>2, <1>3, <1>4 DEF Step, Editor

TruthOf(c) ==
    /\ outcome[c] = "applied" => c \in wrote
    /\ outcome[c] \in Rejections => c \notin wrote /\ request[c] = "none"

LEMMA TruthStep ==
    ASSUME TypeOK, NEW c \in Commands, Exchange(c), Marking(c), TruthOf(c), Step(c)
    PROVE  TruthOf(c)'
<1>1. CASE EditorApplies(c)
  <2>1. UNCHANGED outcome /\ request[c] = "apply" /\ request'[c] = "none"
        BY <1>1 DEF TypeOK, EditorApplies
  <2>2. wrote \subseteq wrote'
        BY <1>1 DEF EditorApplies, Writes
  <2> QED
      BY <2>1, <2>2 DEF TruthOf
<1>2. CASE EditorCaptures(c) \/ EditorRefuses(c) \/ EditorDiscards(c)
      BY <1>2 DEF TypeOK, TruthOf, EditorCaptures, EditorRefuses, EditorDiscards,
                  editorVars
<1>3. CASE Closure(c)
      BY <1>3 DEF TypeOK, TruthOf, Exchange, Marking, Closure, ClosureReturns,
                  ClosureFails, Ends, rpcVars, Rejections
<1>4. CASE SendCapture(c) \/ ReceiveCapture(c) \/ SendApply(c)
      BY <1>4 DEF TypeOK, TruthOf, Exchange, Marking, SendCapture,
                  ReceiveCapture, SendApply, Sends, rpcVars, Rejections
<1>5. CASE ReceiveError(c) \/ ReceiveApplied(c) \/ GivesUp(c)
      BY <1>5 DEF TypeOK, TruthOf, Exchange, Marking, ReceiveError,
                  ReceiveApplied, GivesUp, Ends, rpcVars, Rejections
<1>6. CASE CheckFails(c) \/ Previews(c)
      BY <1>6 DEF TypeOK, TruthOf, Exchange, Marking, CheckFails, Previews,
                  Ends, rpcVars, Rejections
<1> QED
    BY <1>1, <1>2, <1>3, <1>4, <1>5, <1>6 DEF Step, Editor, Command

-----------------------------------------------------------------------------
(***************************************************************************)
(* Where a command's output is, and one writer for each version.           *)
(***************************************************************************)
PlacedAt(c, r) ==
    /\ \A b \in Buffers : c \in text[b][r] =>
           c \in wrote /\ b = snapshot[c].buffer /\ r \in args[c].span
    /\ \A d \in Commands : (Captured(d) /\ c \in snapshot[d].text[r]) =>
           /\ c \in wrote /\ snapshot[d].buffer = snapshot[c].buffer
           /\ r \in args[c].span

LEMMA PlacedUser ==
    ASSUME TypeOK, User, NEW c \in Commands, NEW r \in Rows, PlacedAt(c, r)
    PROVE  PlacedAt(c, r)'
<1>1. UNCHANGED <<args, snapshot, wrote>>
      BY UserFrame
<1>2. ASSUME NEW b \in Buffers, c \in text'[b][r] PROVE c \in text[b][r]
      BY <1>2, UserVersions
<1> QED
    BY <1>1, <1>2 DEF PlacedAt, Captured

LEMMA PlacedCapture ==
    ASSUME TypeOK, NEW a \in Commands, Marking(a), EditorCaptures(a),
           NEW c \in Commands, NEW r \in Rows, PlacedAt(c, r)
    PROVE  PlacedAt(c, r)'
<1>1. a \notin wrote
      BY DEF Marking, EditorCaptures
<1>2. /\ UNCHANGED <<text, args, wrote>> /\ Target(a) \in Buffers
      /\ snapshot'[a].buffer = Target(a) /\ snapshot'[a].text = text[Target(a)]
  <2>1. snapshot'[a] = [buffer |-> Target(a), text |-> text[Target(a)],
                        tick |-> tick[Target(a)]]
        BY CaptureVersions
  <2>2. UNCHANGED <<text, args, wrote>> /\ Target(a) \in Buffers
        BY CaptureVersions
  <2> QED
      BY <2>1, <2>2
<1>3. \A d \in Commands : d # a => snapshot'[d] = snapshot[d]
      BY DEF TypeOK, EditorCaptures
<1>4. ASSUME NEW b \in Buffers, c \in text'[b][r]
      PROVE  c \in wrote' /\ b = snapshot'[c].buffer /\ r \in args'[c].span
  <2>1. c \in text[b][r]
        BY <1>2, <1>4
  <2>2. c \in wrote /\ b = snapshot[c].buffer /\ r \in args[c].span
        BY <2>1 DEF PlacedAt
  <2>3. c # a /\ snapshot'[c] = snapshot[c]
        BY <1>1, <1>3, <2>2
  <2> QED
      BY <1>2, <2>2, <2>3
<1>5. ASSUME NEW d \in Commands, Captured(d)', c \in snapshot'[d].text[r]
      PROVE  /\ c \in wrote' /\ snapshot'[d].buffer = snapshot'[c].buffer
             /\ r \in args'[c].span
  <2>1. c # a => snapshot'[c] = snapshot[c]
        BY <1>3
  <2>2. CASE d = a
    <3>1. c \in text[Target(a)][r]
          BY <1>2, <1>5, <2>2
    <3> QED
        BY <1>1, <1>2, <2>1, <2>2, <3>1 DEF PlacedAt
  <2>3. CASE d # a
    <3>1. Captured(d) /\ c \in snapshot[d].text[r]
          BY <1>3, <1>5, <2>3 DEF Captured
    <3> QED
        BY <1>1, <1>2, <1>3, <2>1, <2>3, <3>1 DEF PlacedAt
  <2> QED
      BY <2>2, <2>3
<1> QED
    BY <1>4, <1>5 DEF PlacedAt

LEMMA PlacedApply ==
    ASSUME TypeOK, NEW a \in Commands, Exchange(a), EditorApplies(a),
           NEW c \in Commands, NEW r \in Rows, PlacedAt(c, r)
    PROVE  PlacedAt(c, r)'
<1>1. UNCHANGED <<args, snapshot>>
      BY DEF EditorApplies
<1>2. wrote \subseteq wrote'
      BY DEF EditorApplies, Writes
<1>3. Captured(a)
      BY DEF Exchange, EditorApplies
<1>4. ASSUME NEW b \in Buffers, c \in text'[b][r]
      PROVE  c \in wrote' /\ b = snapshot[c].buffer /\ r \in args[c].span
  <2>1. CASE c \in text[b][r]
        BY <1>2, <2>1 DEF PlacedAt
  <2>2. CASE c \notin text[b][r]
    <3>1. Verdict(a) = "ok"
          BY <1>4, <2>2 DEF EditorApplies
    <3>2. b = snapshot[a].buffer /\ r \in args[a].span
      <4>1. b = snapshot[a].buffer
            BY <1>4, <2>2, <3>1, ApplyVersions
      <4>2. text'[b][r] = IF r \in args[a].span
                          THEN snapshot[a].text[r] \cup {a} ELSE text[b][r]
            BY <3>1, <4>1, ApplyVersions
      <4> QED
          BY <1>4, <2>2, <4>1, <4>2
    <3>3. text'[b][r] = snapshot[a].text[r] \cup {a} /\ wrote' = wrote \cup {a}
          BY <3>1, <3>2, ApplyVersions
    <3>4. c = a \/ c \in snapshot[a].text[r]
          BY <1>4, <3>3
    <3> QED
        BY <1>3, <3>2, <3>3, <3>4 DEF PlacedAt
  <2> QED
      BY <2>1, <2>2
<1> QED
    BY <1>1, <1>2, <1>4 DEF PlacedAt, Captured

\* Two writers of one buffer captured different versions of it.
LEMMA WriterApply ==
    ASSUME TypeOK, NEW a \in Commands, Exchange(a), EditorApplies(a),
           \A c \in Commands : VersionOf(c), \A c \in Commands : Marking(c),
           OneWriterPerVersion
    PROVE  OneWriterPerVersion'
<1>1. UNCHANGED snapshot
      BY DEF EditorApplies
<1>2. CASE Verdict(a) # "ok"
  <2>1. wrote' = wrote
        BY <1>2 DEF EditorApplies
  <2> QED
      BY <1>1, <2>1 DEF OneWriterPerVersion
<1>3. CASE Verdict(a) = "ok"
  <2>1. wrote' = wrote \cup {a} /\ tick[snapshot[a].buffer] = snapshot[a].tick
        BY <1>3, VerdictType DEF EditorApplies, Writes
  <2>2. ASSUME NEW d \in wrote, snapshot[d].buffer = snapshot[a].buffer
        PROVE  snapshot[d].tick # snapshot[a].tick
    <3>1. d \in Commands
          BY DEF TypeOK
    <3>2. Captured(d) /\ snapshot[d].tick < tick[snapshot[d].buffer]
          BY <3>1 DEF Marking, VersionOf
    <3>3. snapshot[d].tick \in Nat
          BY <3>2 DEF Captured, Snapshot
    <3> QED
        BY <2>1, <2>2, <3>2, <3>3
  <2> QED
      BY <1>1, <2>1, <2>2 DEF OneWriterPerVersion
<1> QED
    BY <1>2, <1>3

-----------------------------------------------------------------------------
(***************************************************************************)
(* The invariant.                                                          *)
(***************************************************************************)

\* IInv, command by command.
AllOf(c) ==
    /\ Exchange(c) /\ Asking(c) /\ Marking(c) /\ VersionOf(c) /\ GoodOf(c)
    /\ TruthOf(c) /\ \A r \in Rows : PlacedAt(c, r)

EachCommand == \A c \in Commands : AllOf(c)

LEMMA PerCommand == TypeOK => (IInv <=> EachCommand /\ OneWriterPerVersion)
<1> SUFFICES ASSUME TypeOK PROVE IInv <=> EachCommand /\ OneWriterPerVersion
    OBVIOUS
<1>1. wrote \subseteq Commands
      BY DEF TypeOK
<1>2. Versions <=> \A c \in Commands : VersionOf(c)
      BY DEF Versions, VersionOf
<1>3. Places <=> \A c \in Commands, r \in Rows : PlacedAt(c, r)
      BY DEF Places, PlacedAt
<1>4. OnlyGoodResults <=> \A c \in Commands : GoodOf(c)
      BY <1>1 DEF OnlyGoodResults, GoodOf
<1>5. Truthful <=> \A c \in Commands : TruthOf(c)
      BY DEF Truthful, TruthOf
<1> QED
    BY <1>2, <1>3, <1>4, <1>5 DEF IInv, AllOf, EachCommand

LEMMA InvInit == Init => IInv
<1> SUFFICES ASSUME Init PROVE IInv
    OBVIOUS
<1>1. TypeOK
      BY DEF Init, TypeOK, Replies, Rejections
<1>2. ASSUME NEW c \in Commands PROVE ~Captured(c)
  <2>1. snapshot[c] = NoSnapshot
        BY DEF Init
  <2>2. ASSUME NoSnapshot \in Snapshot PROVE FALSE
    <3>1. NoSnapshot.buffer \in Buffers
          BY <2>2 DEF Snapshot
    <3> QED
        BY <3>1, TransformAssumption DEF NoSnapshot
  <2> QED
      BY <2>1, <2>2 DEF Captured
<1>3. ASSUME NEW c \in Commands PROVE AllOf(c)
      BY <1>2 DEF Init, AllOf, Exchange, Asking, Marking, VersionOf, GoodOf,
                  TruthOf, PlacedAt, Rejections
<1>4. OneWriterPerVersion
      BY DEF Init, OneWriterPerVersion
<1> QED
    BY <1>1, <1>3, <1>4, PerCommand DEF EachCommand

LEMMA InvUser == IInv /\ User => IInv'
<1> SUFFICES ASSUME IInv, User PROVE IInv'
    OBVIOUS
<1>1. TypeOK /\ TypeOK'
      BY TypeUser DEF IInv
<1>2. UNCHANGED <<args, pc, request, reply, snapshot, result, outcome, wrote>>
      BY UserFrame
<1>3. (\A c \in Commands : AllOf(c)) /\ OneWriterPerVersion
      BY <1>1, PerCommand DEF EachCommand
<1>4. ASSUME NEW c \in Commands PROVE AllOf(c)'
  <2>1. Exchange(c)' /\ Asking(c)' /\ Marking(c)' /\ GoodOf(c)' /\ TruthOf(c)'
        BY <1>2, <1>3 DEF AllOf, Exchange, Asking, Marking, GoodOf, TruthOf,
                          Captured
  <2>2. VersionOf(c)'
        BY <1>1, <1>3, VersionsUser DEF AllOf
  <2>3. ASSUME NEW r \in Rows PROVE PlacedAt(c, r)'
        BY <1>1, <1>3, PlacedUser DEF AllOf
  <2> QED
      BY <2>1, <2>2, <2>3 DEF AllOf
<1>5. OneWriterPerVersion'
      BY <1>2, <1>3 DEF OneWriterPerVersion
<1>6. EachCommand'
      BY <1>4 DEF EachCommand
<1> QED
    BY <1>1, <1>5, <1>6, PerCommand, PTL

LEMMA InvStep ==
    ASSUME IInv, NEW c \in Commands, Step(c)
    PROVE  IInv'
<1>1. TypeOK
      BY DEF IInv
<1>2. (\A d \in Commands : AllOf(d)) /\ OneWriterPerVersion
      BY <1>1, PerCommand DEF EachCommand
<1>3. TypeOK'
      BY <1>1, <1>2, TypeEditor, TypeClosure, TypeCommand DEF Step, AllOf
<1>4. ASSUME NEW d \in Commands
      PROVE  Exchange(d)' /\ Asking(d)' /\ Marking(d)' /\ GoodOf(d)' /\ TruthOf(d)'
  <2>1. CASE d = c
        BY <1>1, <1>2, <2>1, ExchangeStep, AskingStep, MarkingStep, GoodStep,
           TruthStep DEF AllOf
  <2>2. CASE d # c
        BY <1>1, <1>2, <2>2, OthersFrame
           DEF AllOf, Own, Exchange, Asking, Marking, GoodOf, TruthOf, Captured
  <2> QED
      BY <2>1, <2>2
<1>5. ASSUME NEW d \in Commands PROVE VersionOf(d)'
  <2>1. CASE EditorCaptures(c)
        BY <1>1, <1>2, <2>1, VersionsCapture DEF AllOf
  <2>2. CASE EditorApplies(c)
        BY <1>1, <1>2, <2>2, VersionsApply DEF AllOf
  <2>3. CASE ~EditorCaptures(c) /\ ~EditorApplies(c)
        BY <1>2, <2>3, QuietFrame DEF AllOf, VersionOf, Captured
  <2> QED
      BY <2>1, <2>2, <2>3
<1>6. ASSUME NEW d \in Commands, NEW r \in Rows PROVE PlacedAt(d, r)'
  <2>1. CASE EditorCaptures(c)
        BY <1>1, <1>2, <2>1, PlacedCapture DEF AllOf
  <2>2. CASE EditorApplies(c)
        BY <1>1, <1>2, <2>2, PlacedApply DEF AllOf
  <2>3. CASE ~EditorCaptures(c) /\ ~EditorApplies(c)
        BY <1>2, <2>3, QuietFrame DEF AllOf, PlacedAt, Captured
  <2> QED
      BY <2>1, <2>2, <2>3
<1>7. OneWriterPerVersion'
  <2>1. CASE EditorCaptures(c)
    <3>1. c \notin wrote
          BY <1>2, <2>1 DEF AllOf, Marking, EditorCaptures
    <3>2. wrote' = wrote /\ \A d \in wrote : snapshot'[d] = snapshot[d]
          BY <1>1, <2>1, <3>1 DEF TypeOK, EditorCaptures
    <3> QED
        BY <1>2, <3>2 DEF OneWriterPerVersion
  <2>2. CASE EditorApplies(c)
        BY <1>1, <1>2, <2>2, WriterApply DEF AllOf
  <2>3. CASE ~EditorCaptures(c) /\ ~EditorApplies(c)
        BY <1>2, <2>3, QuietFrame DEF OneWriterPerVersion
  <2> QED
      BY <2>1, <2>2, <2>3
<1>8. EachCommand'
      BY <1>4, <1>5, <1>6 DEF AllOf, EachCommand
<1> QED
    BY <1>3, <1>7, <1>8, PerCommand, PTL

LEMMA InvNext == IInv /\ [Next]_vars => IInv'
<1> SUFFICES ASSUME IInv, [Next]_vars PROVE IInv'
    OBVIOUS
<1>1. CASE User
      BY <1>1, InvUser
<1>2. ASSUME NEW c \in Commands, Editor(c) \/ Closure(c) \/ Command(c)
      PROVE  IInv'
      BY <1>2, InvStep DEF Step
<1>3. CASE UNCHANGED vars
      BY <1>3 DEF vars, editorVars, rpcVars, IInv, TypeOK, Exchange, Asking,
                  Marking, Versions, Places, Captured, OneWriterPerVersion,
                  OnlyGoodResults, Truthful
<1> QED
    BY <1>1, <1>2, <1>3 DEF Next

\* The inductive invariant of the transforms: it ties each command's control
\* state to its exchange with the editor, and changedtick to the texts.
THEOREM Invariance == Spec => []IInv
BY InvInit, InvNext, PTL DEF Spec

\* Every variable keeps its type.
THEOREM TypeCorrect == Spec => []TypeOK
<1>1. IInv => TypeOK
      BY DEF IInv
<1> QED
    BY <1>1, Invariance, PTL

\* Of the commands that captured one version of a buffer at most one changes it.
THEOREM OneWriter == Spec => []OneWriterPerVersion
<1>1. IInv => OneWriterPerVersion
      BY DEF IInv
<1> QED
    BY <1>1, Invariance, PTL

\* A preview, a failed closure or one that returns no text writes nothing.
THEOREM GoodResults == Spec => []OnlyGoodResults
<1>1. IInv => OnlyGoodResults
      BY DEF IInv
<1> QED
    BY <1>1, Invariance, PTL

\* What a command reports of its edit is so.
THEOREM ReportsAreTrue == Spec => []Truthful
<1>1. IInv => Truthful
      BY DEF IInv
<1> QED
    BY <1>1, Invariance, PTL

\* A command's output is only in the buffer and the rows it captured.
THEOREM StaysOnTarget == Spec => []OnTarget
<1>1. IInv => OnTarget
      BY DEF IInv, OnTarget, Places, Versions, Marking
<1> QED
    BY <1>1, Invariance, PTL

\* No step of any command, and of the user only the loading of an unloaded
\* buffer, takes an edit out of a buffer.
THEOREM EditsAreKept == Spec => NoLostUpdate
<1> DEFINE Kept == \A b \in Buffers :
        ~loaded[b] \/ \A r \in Rows : text[b][r] \subseteq text'[b][r]
<1>1. ASSUME IInv, User PROVE Kept
      BY <1>1, UserVersions DEF IInv
<1>2. ASSUME IInv, NEW c \in Commands, Step(c) PROVE Kept
  <2>1. CASE EditorApplies(c) /\ Verdict(c) = "ok"
    <3>1. TypeOK /\ Exchange(c) /\ Versions
          BY <1>2 DEF IInv
    <3>2. Captured(c)
          BY <2>1, <3>1 DEF Exchange, EditorApplies
    <3>3. text[snapshot[c].buffer] = snapshot[c].text
          BY <2>1, <3>1, <3>2, VerdictType DEF Versions
    <3> SUFFICES ASSUME NEW b \in Buffers, NEW r \in Rows
                 PROVE  text[b][r] \subseteq text'[b][r]
        OBVIOUS
    <3>4. CASE b = snapshot[c].buffer
      <4>1. text'[b][r] = IF r \in args[c].span
                          THEN snapshot[c].text[r] \cup {c} ELSE text[b][r]
            BY <2>1, <3>1, <3>4, ApplyVersions
      <4> QED
          BY <3>3, <3>4, <4>1
    <3>5. CASE b # snapshot[c].buffer
          BY <2>1, <3>1, <3>5, ApplyVersions
    <3> QED
        BY <3>4, <3>5
  <2>2. CASE EditorApplies(c) /\ Verdict(c) # "ok"
        BY <2>2 DEF EditorApplies
  <2>3. CASE EditorCaptures(c)
        BY <2>3 DEF EditorCaptures, editorVars
  <2>4. CASE ~EditorCaptures(c) /\ ~EditorApplies(c)
        BY <1>2, <2>4, QuietFrame
  <2> QED
      BY <2>1, <2>2, <2>3, <2>4
<1>3. IInv /\ [Next]_vars => [Kept]_vars
      BY <1>1, <1>2 DEF Next, Step
<1> QED
    BY <1>3, Invariance, PTL DEF Spec, NoLostUpdate

\* A command that an interruption has doomed: it has no apply call under way and
\* will send none.
Doomed(c) == signal[c] /\ c \notin wrote /\ request[c] # "apply" /\ pc[c] # "applying"

\* Nothing that the user, the editor or any command does undoes that.
LEMMA DoomedStep ==
    ASSUME TypeOK, [Next]_vars, NEW c \in Commands, Doomed(c)
    PROVE  Doomed(c)'
<1>1. CASE User
      BY <1>1 DEF TypeOK, User, UserEdits, UserUnloads, UserReloads, UserSwitches,
                  UserTogglesModifiable, UserInterrupts, Doomed, rpcVars, editorVars
<1>2. ASSUME NEW d \in Commands, Step(d)
      PROVE  Doomed(c)'
  <2>1. CASE Editor(d)
        BY <2>1 DEF TypeOK, Editor, EditorCaptures, EditorRefuses, EditorApplies,
                    EditorDiscards, Writes, Doomed, editorVars
  <2>2. CASE Closure(d)
        BY <2>2 DEF TypeOK, Closure, ClosureReturns, ClosureFails, Ends, Doomed,
                    rpcVars, editorVars
  <2>3. CASE Command(d)
        BY <2>3 DEF TypeOK, Command, SendCapture, ReceiveCapture, ReceiveError,
                    CheckFails, Previews, SendApply, ReceiveApplied, GivesUp, Sends,
                    Ends, Doomed, rpcVars, editorVars
  <2> QED
      BY <1>2, <2>1, <2>2, <2>3 DEF Step
<1>3. CASE UNCHANGED vars
      BY <1>3 DEF vars, rpcVars, editorVars, Doomed
<1> QED
    BY <1>1, <1>2, <1>3 DEF Next, Step

\* An interruption that comes before the closure's output is looked at keeps the
\* command from changing anything, then and later.
THEOREM EarlyInterruptHolds == Spec => EarlyInterruptPreventsApply
<1> SUFFICES ASSUME NEW c \in Commands
             PROVE  Spec => [](signal[c] /\ pc[c] \in {"start", "capturing", "closure", "check"}
                                  => [](c \notin wrote))
    BY DEF EarlyInterruptPreventsApply
<1> DEFINE Early == signal[c] /\ pc[c] \in {"start", "capturing", "closure", "check"}
<1>1. IInv /\ Early => Doomed(c)
      BY DEF IInv, Exchange, Marking, Doomed
<1>2. IInv /\ Doomed(c) /\ [Next]_vars => Doomed(c)'
      BY DoomedStep DEF IInv
<1>3. Doomed(c) => c \notin wrote
      BY DEF Doomed
<1> HIDE DEF Early
<1> QED
    BY <1>1, <1>2, <1>3, Invariance, PTL DEF Spec, Early

=============================================================================
