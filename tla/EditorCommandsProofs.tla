------------------------ MODULE EditorCommandsProofs ------------------------
(***************************************************************************)
(* Proofs of the safety properties of EditorCommands, for any number of    *)
(* commands, buffers, windows and user actions.                            *)
(***************************************************************************)
EXTENDS EditorCommands, TLAPS

(***************************************************************************)
(* What a step of someone else does to a command.                          *)
(***************************************************************************)

\* The locals of d are left alone.
Untouched(d) ==
    /\ pc'[d] = pc[d] /\ buf'[d] = buf[d] /\ win'[d] = win[d] /\ rest'[d] = rest[d]
    /\ paths'[d] = paths[d] /\ seen'[d] = seen[d] /\ report'[d] = report[d] /\ acted'[d] = acted[d]
    /\ args'[d] = args[d]

\* changedtick grows, and a version keeps its 'modified'.
Versioned ==
    \A b \in Buffers :
        /\ tick[b] <= tick'[b]
        /\ (tick'[b] = tick[b] /\ life'[b] # "wiped")
               => life[b] # "wiped" /\ (b \in unsaved' <=> b \in unsaved)

\* The focus stays, or d is told that it moved.
Told(d) ==
    \/ moved'[d] = moved[d] /\ Here' = Here /\ curwin' = curwin
    \/ pc[d] # "start" /\ moved'[d] = TRUE
    \/ pc[d] = "start" /\ moved'[d] = moved[d]

\* A step that leaves the locals of a command alone, keeps the versions and
\* tells it of a move of the focus keeps what the invariant says of it.
LEMMA Bystander ==
    ASSUME NEW d \in Commands, TypeOK, TypeOK', CommandInv(d),
           Untouched(d), Versioned, Told(d)
    PROVE  CommandInv(d)'
<1>1. /\ args[d] \in Arguments /\ args'[d] = args[d]
      /\ pc[d] \in Labels /\ buf[d] \in Buffers \cup {None}
      /\ report[d] \in SUBSET Entries
      /\ moved[d] \in BOOLEAN /\ moved'[d] \in BOOLEAN
      /\ seen[d].tick \in Nat /\ acted[d].tick \in Nat
      /\ tick \in [Buffers -> Nat] /\ tick' \in [Buffers -> Nat]
  BY DEF TypeOK, Untouched
<1>2. Locals(d)'
  <2>1. pc[d] = "modified" => seen[d].tick <= tick'[buf[d]]
    <3>. SUFFICES ASSUME pc[d] = "modified" PROVE seen[d].tick <= tick'[buf[d]]
      OBVIOUS
    <3>1. buf[d] \in Buffers /\ seen[d].tick <= tick[buf[d]]
      BY DEF CommandInv, Locals, Fields
    <3>2. tick[buf[d]] <= tick'[buf[d]]
      BY <3>1 DEF Versioned
    <3>. QED BY <3>1, <3>2, <1>1
  <2>2. pc[d] = "start" => ~moved'[d]
    BY <1>1 DEF CommandInv, Locals, Told
  <2>. QED BY <2>1, <2>2 DEF CommandInv, Locals, Untouched
<1>3. Past(d)'
  BY <1>1 DEF CommandInv, Past, Untouched, Versioned, Entries
<1>4. Edited(d)'
  BY <1>1 DEF CommandInv, Edited, Untouched, Told, Saving, Fields
<1>5. Placed(d)'
  BY <1>1 DEF CommandInv, Placed, Untouched, Told
<1>6. Focused(d)'
  BY <1>1 DEF CommandInv, Focused, Untouched, Told, Fields
<1>7. Fresh(d)'
  <2>. SUFFICES ASSUME NEW r \in report[d],
                       r.what \in {"saved", "unsaved"}, r.place \in Buffers,
                       life'[r.place] # "wiped", r.tick = tick'[r.place]
                PROVE  r.what = "unsaved" <=> r.place \in unsaved'
    BY DEF Fresh, Untouched
  <2>1. r.tick <= tick[r.place] /\ tick[r.place] <= tick'[r.place]
    BY DEF CommandInv, Past, Versioned
  <2>2. tick[r.place] \in Nat /\ tick'[r.place] \in Nat
    BY <1>1
  <2>3. tick'[r.place] = tick[r.place]
    BY <2>1, <2>2
  <2>. QED BY <2>3 DEF CommandInv, Fresh, Versioned
<1>8. OnTarget(d)'
  BY <1>1 DEF CommandInv, OnTarget, Untouched, Told
<1>9. InFocus(d)'
  BY <1>1 DEF CommandInv, InFocus, Untouched, Told
<1>. QED BY <1>2, <1>3, <1>4, <1>5, <1>6, <1>7, <1>8, <1>9 DEF CommandInv

-----------------------------------------------------------------------------
(***************************************************************************)
(* What the editor's own steps do.                                         *)
(***************************************************************************)
LEMMA LoadingEffect ==
    ASSUME TypeOK, NEW b \in Buffers, Exists(b), LoadsBuffer(b)
    PROVE  /\ Versioned
           /\ life' \in [Buffers -> {"none", "unloaded", "loaded", "wiped"}]
           /\ tick' \in [Buffers -> Nat]
           /\ unsaved' \subseteq {d \in Buffers : life'[d] = "loaded"}
           /\ life'[b] = "loaded"
           /\ \A d \in Buffers : life[d] = "loaded" => life'[d] = "loaded"
<1>1. CASE life[b] = "loaded"
  BY <1>1 DEF LoadsBuffer, TypeOK, Versioned, bufferVars
<1>2. CASE life[b] # "loaded"
  <2>1. /\ life' = [life EXCEPT ![b] = "loaded"]
        /\ tick' = [tick EXCEPT ![b] = @ + 1]
        /\ unsaved' = unsaved \ {b}
    BY <1>2 DEF LoadsBuffer
  <2>2. tick \in [Buffers -> Nat] /\ life[b] # "wiped"
    BY DEF TypeOK, Exists
  <2>3. tick' \in [Buffers -> Nat] /\ Versioned
    BY <2>1, <2>2 DEF Versioned, TypeOK
  <2>. QED BY <2>1, <2>3 DEF TypeOK
<1>. QED BY <1>1, <1>2

LEMMA EditingEffect ==
    ASSUME TypeOK, NEW b \in Buffers, Exists(b), EditsBuffer(b)
    PROVE  /\ Versioned
           /\ life' \in [Buffers -> {"none", "unloaded", "loaded", "wiped"}]
           /\ tick' \in [Buffers -> Nat]
           /\ unsaved' \subseteq {d \in Buffers : life'[d] = "loaded"}
           /\ tick'[b] = TickAfterEdit(b) /\ TickAfterEdit(b) \in Nat
           /\ \A d \in Buffers : life[d] = "loaded" => life'[d] = "loaded"
<1>1. TickAfterEdit(b) \in Nat /\ TickAfterEdit(b) > tick[b]
  BY DEF TickAfterEdit, TypeOK
<1>2. /\ life' = [life EXCEPT ![b] = "loaded"]
      /\ tick' = [tick EXCEPT ![b] = TickAfterEdit(b)]
      /\ unsaved' = unsaved \cup {b}
  BY DEF EditsBuffer
<1>3. tick \in [Buffers -> Nat] /\ life[b] # "wiped"
  BY DEF TypeOK, Exists
<1>4. tick' \in [Buffers -> Nat] /\ tick'[b] = TickAfterEdit(b)
  BY <1>1, <1>2, <1>3
<1>5. Versioned
  BY <1>1, <1>2, <1>3, <1>4 DEF Versioned, TypeOK
<1>6. /\ life' \in [Buffers -> {"none", "unloaded", "loaded", "wiped"}]
      /\ unsaved' \subseteq {d \in Buffers : life'[d] = "loaded"}
      /\ \A d \in Buffers : life[d] = "loaded" => life'[d] = "loaded"
  BY <1>2 DEF TypeOK
<1>. QED BY <1>1, <1>4, <1>5, <1>6

LEMMA ShowingEffect ==
    ASSUME TypeOK, NEW b \in Buffers, NEW by, ShowsBuffer(b, by)
    PROVE  /\ Versioned
           /\ life' \in [Buffers -> {"none", "unloaded", "loaded", "wiped"}]
           /\ tick' \in [Buffers -> Nat]
           /\ unsaved' \subseteq {d \in Buffers : life'[d] = "loaded"}
           /\ windows' = windows /\ curwin' = curwin
           /\ shown' \in [Windows -> Buffers]
           /\ \A w \in windows : life'[shown'[w]] = "loaded"
           /\ moved' \in [Commands -> BOOLEAN]
           /\ Here' = b
           /\ \A d \in Commands \ by : Told(d)
           /\ \A d \in Commands \cap by : moved'[d] = moved[d]
<1>1. Exists(b) /\ LoadsBuffer(b) /\ UNCHANGED <<windows, curwin>>
  BY DEF ShowsBuffer
<1>2. shown' \in [Windows -> Buffers] /\ Here' = b
  BY <1>1 DEF ShowsBuffer, TypeOK, Here
<1>3. \A w \in windows : life'[shown'[w]] = "loaded"
  BY <1>1, LoadingEffect DEF ShowsBuffer, TypeOK
<1>4. /\ moved' \in [Commands -> BOOLEAN]
      /\ \A d \in Commands : moved'[d] = (moved[d] \/ (d \notin by /\ pc[d] # "start"))
  BY DEF ShowsBuffer, FocusMoves, TypeOK
<1>5. \A d \in Commands \ by : Told(d)
  BY <1>4 DEF Told, TypeOK
<1>6. \A d \in Commands \cap by : moved'[d] = moved[d]
  BY <1>4 DEF TypeOK
<1>. QED BY <1>1, <1>2, <1>3, <1>4, <1>5, <1>6, LoadingEffect

-----------------------------------------------------------------------------
(***************************************************************************)
(* The user.                                                               *)
(***************************************************************************)
LEMMA FocusTells ==
    ASSUME TypeOK, FocusMoves({})
    PROVE  moved' \in [Commands -> BOOLEAN] /\ \A d \in Commands : Told(d)
BY DEF FocusMoves, TypeOK, Told

LEMMA UserFrame ==
    ASSUME TypeOK, UserActs
    PROVE  /\ left' \in 0..MaxUser /\ UNCHANGED <<args, pc, localVars>>
           /\ \A d \in Commands : Untouched(d)
<1>1. left' \in 0..MaxUser
  <2>1. left \in 0..MaxUser /\ left > 0 /\ left' = left - 1
    BY DEF TypeOK, UserActs
  <2>2. MaxUser \in Nat
    BY CommandsAssumption
  <2>. QED BY <2>1, <2>2
<1>2. UNCHANGED <<args, pc, localVars>>
  BY DEF UserActs
<1>. QED BY <1>1, <1>2 DEF Untouched, localVars

\* What is left of TypeOK' when the locals are unchanged.
LEMMA UserStep ==
    ASSUME TypeOK, User
    PROVE  TypeOK' /\ Versioned /\ \A d \in Commands : Untouched(d) /\ Told(d)
<1>1. CASE \E b \in Buffers : UserEdits(b)
  <2> PICK b \in Buffers : UserEdits(b) BY <1>1
  <2>1. Exists(b) /\ EditsBuffer(b) /\ UserActs /\ UNCHANGED focusVars
    BY DEF UserEdits, Exists
  <2>2. \A d \in Commands : Told(d)
    BY <2>1 DEF Told, focusVars, Here
  <2>3. TypeOK'
    BY <2>1, EditingEffect, UserFrame DEF TypeOK, focusVars, localVars
  <2>. QED BY <2>1, <2>2, <2>3, EditingEffect, UserFrame
<1>2. CASE \E b \in Buffers : UserSaves(b)
  <2> PICK b \in Buffers : UserSaves(b) BY <1>2
  <2>1. UserActs /\ UNCHANGED focusVars BY DEF UserSaves
  <2>2. \A d \in Commands : Told(d)
    BY <2>1 DEF Told, focusVars, Here
  <2>3. Versioned /\ tick' \in [Buffers -> Nat]
    BY DEF UserSaves, Versioned, TypeOK
  <2>4. TypeOK'
    BY <2>1, <2>3, UserFrame DEF UserSaves, TypeOK, focusVars, localVars
  <2>. QED BY <2>1, <2>2, <2>3, <2>4, UserFrame
<1>3. CASE \E b \in Buffers : UserShows(b)
  <2> PICK b \in Buffers : UserShows(b) BY <1>3
  <2>1. ShowsBuffer(b, {}) /\ UserActs BY DEF UserShows
  <2>2. TypeOK'
    BY <2>1, ShowingEffect, UserFrame DEF TypeOK, localVars
  <2>. QED BY <2>1, <2>2, ShowingEffect, UserFrame
<1>4. CASE \E b \in Buffers : UserWipes(b)
  <2> PICK b \in Buffers : UserWipes(b) BY <1>4
  <2>1. UserActs /\ UNCHANGED focusVars /\ UNCHANGED tick BY DEF UserWipes
  <2>2. \A d \in Commands : Told(d)
    BY <2>1 DEF Told, focusVars, Here
  <2>3. Versioned
    BY DEF UserWipes, Versioned, TypeOK, Exists
  <2>4. TypeOK'
    BY <2>1, UserFrame DEF UserWipes, TypeOK, focusVars, localVars
  <2>. QED BY <2>1, <2>2, <2>3, <2>4, UserFrame
<1>5. CASE \E w \in Windows : UserEnters(w)
  <2> PICK w \in Windows : UserEnters(w) BY <1>5
  <2>1. UserActs /\ FocusMoves({}) /\ UNCHANGED <<bufferVars, windows, shown>>
    BY DEF UserEnters
  <2>2. Versioned
    BY <2>1 DEF Versioned, bufferVars, TypeOK
  <2>3. TypeOK'
    BY <2>1, FocusTells, UserFrame DEF UserEnters, TypeOK, bufferVars, localVars
  <2>. QED BY <2>1, <2>2, <2>3, FocusTells, UserFrame
<1>6. CASE \E w \in Windows : UserCloses(w)
  <2> PICK w \in Windows : UserCloses(w) BY <1>6
  <2>1. UserActs /\ FocusMoves({}) /\ UNCHANGED <<bufferVars, shown>>
    BY DEF UserCloses
  <2>2. Versioned
    BY <2>1 DEF Versioned, bufferVars, TypeOK
  <2>3. windows' \subseteq windows /\ curwin' \in windows'
    BY DEF UserCloses, TypeOK
  <2>4. TypeOK'
    BY <2>1, <2>3, FocusTells, UserFrame DEF TypeOK, bufferVars, localVars
  <2>. QED BY <2>1, <2>2, <2>4, FocusTells, UserFrame
<1>. QED BY <1>1, <1>2, <1>3, <1>4, <1>5, <1>6 DEF User
-----------------------------------------------------------------------------
(***************************************************************************)
(* The commands' own steps.                                                *)
(***************************************************************************)

\* A step of c, as the other commands see it.
Elsewhere(c) ==
    Versioned /\ \A d \in Commands \ {c} : Untouched(d) /\ Told(d)

LEMMA Reading ==
    ASSUME TypeOK, OnlyReads
    PROVE  /\ Versioned /\ \A d \in Commands : Told(d)
           /\ UNCHANGED <<life, tick, unsaved, windows, shown, curwin, moved, left, args>>
<1>1. UNCHANGED <<life, tick, unsaved, windows, shown, curwin, moved, left, args>>
  BY DEF OnlyReads, bufferVars, focusVars
<1>. QED BY <1>1 DEF Versioned, Told, Here, TypeOK

LEMMA Update ==
    ASSUME NEW S, NEW T, NEW f \in [S -> T], NEW x \in S, NEW y \in T
    PROVE  /\ [f EXCEPT ![x] = y] \in [S -> T]
           /\ [f EXCEPT ![x] = y][x] = y
           /\ \A z \in S \ {x} : [f EXCEPT ![x] = y][z] = f[z]
OBVIOUS

LEMMA ArgumentTypes ==
    ASSUME TypeOK, NEW c \in Commands
    PROVE  /\ args[c].kind \in Kinds /\ args[c].buffer \in Buffers \cup {None}
           /\ args[c].selection \in BOOLEAN /\ args[c].paths \in Nat
           /\ args[c].kind = "buffer use" => args[c].buffer \in Buffers
<1>1. args[c] \in Arguments
  BY DEF TypeOK
<1>2. args[c] \in [kind : Kinds, buffer : Buffers \cup {None}, selection : BOOLEAN, paths : Nat]
  BY <1>1, CommandsAssumption
<1>3. args[c].kind = "buffer use" => args[c].buffer # None
  BY <1>1, CommandsAssumption
<1>. QED BY <1>2, <1>3

LEMMA StartStep ==
    ASSUME TypeOK, NEW c \in Commands, CommandInv(c), Start(c)
    PROVE  TypeOK' /\ CommandInv(c)' /\ Elsewhere(c)
<1>1. /\ pc[c] = "start" /\ pc' = [pc EXCEPT ![c] = pc'[c]]
      /\ pc'[c] \in {"failed", Entry(args[c])}
      /\ buf' = [buf EXCEPT ![c] = args[c].buffer]
      /\ paths' = [paths EXCEPT ![c] = args[c].paths]
      /\ UNCHANGED <<win, rest, seen, report, acted>>
  BY DEF Start, TypeOK
<1>2. /\ UNCHANGED <<life, tick, unsaved, windows, shown, curwin, moved, left, args>>
      /\ OnlyReads
  BY Reading DEF Start
<1>3. /\ args[c].kind \in Kinds /\ args[c].buffer \in Buffers \cup {None}
      /\ args[c].paths \in Nat /\ args[c].selection \in BOOLEAN
      /\ args[c].kind = "buffer use" => args[c].buffer \in Buffers
  BY ArgumentTypes
<1>4. Entry(args[c]) \in LabelsOf(args[c].kind) \ {"failed", "start", "done", "name", "tick", "modified"}
  BY <1>3 DEF Entry, LabelsOf, Kinds
<1>5. TypeOK'
  <2>1. pc'[c] \in Labels
    BY <1>1, <1>3 DEF Entry, Labels, Kinds
  <2>2. /\ pc \in [Commands -> Labels] /\ buf \in [Commands -> Buffers \cup {None}]
        /\ paths \in [Commands -> Nat]
    BY DEF TypeOK
  <2>3. pc' \in [Commands -> Labels]
    BY <1>1, <2>1, <2>2, Update
  <2>4. buf' \in [Commands -> Buffers \cup {None}]
    BY <1>1, <1>3, <2>2, Update
  <2>5. paths' \in [Commands -> Nat]
    BY <1>1, <1>3, <2>2, Update
  <2>. QED BY <1>1, <1>2, <2>3, <2>4, <2>5 DEF TypeOK
<1>6. Elsewhere(c)
  BY <1>1, <1>2, Reading DEF Elsewhere, Untouched, TypeOK
<1>7. ~moved[c] /\ report[c] = {} /\ acted[c] = Nowhere /\ (rest[c] # {} => args[c].kind = "buffers")
  BY <1>1 DEF CommandInv, Locals
<1>8a. buf'[c] = args[c].buffer /\ pc'[c] \notin Fields \cup {"start", "done", "load", "dress"}
  <2>1. buf'[c] = args[c].buffer
    BY <1>1, <1>3 DEF TypeOK
  <2>. QED BY <2>1, <1>1, <1>3 DEF Entry, Fields, Kinds
<1>8b. Locals(c)'
  <2>1. pc'[c] \in LabelsOf(args[c].kind)
    BY <1>1, <1>4 DEF LabelsOf
  <2>2. pc'[c] \in {"write", "focus", "lines"} => args[c].buffer \in Buffers
    BY <1>1, <1>3 DEF Entry, Kinds
  <2>3. args[c].kind \in {"context", "command"} => pc'[c] \in {"failed", "buf", "ex"}
    BY <1>1 DEF Entry
  <2>4. pc'[c] = "add" => paths'[c] > 0
    <3>1. pc'[c] = IF Rejected(args[c]) THEN "failed" ELSE Entry(args[c])
      BY DEF Start, TypeOK
    <3>2. pc'[c] = "add" => args[c].kind = "open" /\ args[c].paths # 0
      <4>1. pc'[c] = "add" => Entry(args[c]) = "add" /\ ~Rejected(args[c])
        BY <3>1
      <4>2. Entry(args[c]) = "add" => args[c].kind = "open"
        BY <1>3 DEF Entry, Kinds
      <4>. QED BY <4>1, <4>2 DEF Rejected
    <3>3. paths'[c] = args[c].paths
      BY <1>1, <1>3 DEF TypeOK
    <3>4. args[c].paths # 0 => args[c].paths > 0
      <4>1. args[c].paths \in Nat
        BY <1>3
      <4>2. \A n \in Nat : n # 0 => n > 0
        OBVIOUS
      <4>. QED BY <4>1, <4>2
    <3>. QED BY <3>2, <3>3, <3>4
  <2>. QED BY <1>8a, <1>1, <1>2, <1>7, <2>1, <2>2, <2>3, <2>4 DEF Locals, Fields
<1>9. Past(c)' /\ Fresh(c)' /\ OnTarget(c)' /\ InFocus(c)'
  BY <1>1, <1>2, <1>4, <1>7 DEF CommandInv, Past, Fresh, OnTarget, InFocus, Entry
<1>10. Edited(c)'
  <2>1. pc'[c] = "write" => ~(args[c].kind = "replace" /\ args[c].selection)
    <3>1. pc'[c] = IF Rejected(args[c]) THEN "failed" ELSE Entry(args[c])
      BY DEF Start, TypeOK
    <3>. QED BY <3>1, <1>3 DEF Entry, Rejected
  <2>2. args[c].kind \in Saving => pc'[c] \notin {"focus", "lines"}
    BY <1>1, <1>3 DEF Entry, Saving
  <2>. QED BY <1>8a, <1>1, <1>2, <2>1, <2>2 DEF Edited, Fields
<1>11. Placed(c)'
  <2>1. args[c].kind = "cursor set" => pc'[c] \in {"failed", "own win"}
    BY <1>1 DEF Entry
  <2>2. acted'[c].tick = 0 /\ args' = args
    BY <1>1, <1>2, <1>7 DEF Nowhere
  <2>. QED BY <2>1, <2>2 DEF Placed
<1>12. Focused(c)'
  BY <1>8a, <1>1, <1>2, <1>7 DEF Focused
<1>. QED BY <1>5, <1>6, <1>8b, <1>9, <1>10, <1>11, <1>12 DEF CommandInv

(***************************************************************************)
(* Steps that only read the editor.                                        *)
(***************************************************************************)
LEMMA Places ==
    None \notin Buffers /\ None \notin Windows /\ Buffers \cap Windows = {}
BY CommandsAssumption

\* A step changes the locals of no command but c, to values of their types.
LocalStep(c) ==
    /\ pc' = [pc EXCEPT ![c] = pc'[c]] /\ pc'[c] \in Labels
    /\ buf' = [buf EXCEPT ![c] = buf'[c]] /\ buf'[c] \in Buffers \cup {None}
    /\ win' = [win EXCEPT ![c] = win'[c]] /\ win'[c] \in Windows \cup {None}
    /\ rest' = [rest EXCEPT ![c] = rest'[c]] /\ rest'[c] \in SUBSET Buffers
    /\ paths' = [paths EXCEPT ![c] = paths'[c]] /\ paths'[c] \in Nat
    /\ seen' = [seen EXCEPT ![c] = seen'[c]]
    /\ seen'[c] \in [tick : Nat, what : {"saved", "unsaved"}]
    /\ report' = [report EXCEPT ![c] = report'[c]] /\ report'[c] \in SUBSET Entries
    /\ acted' = [acted EXCEPT ![c] = acted'[c]]
    /\ acted'[c] \in [place : Buffers \cup Windows \cup {None}, tick : Nat]
    /\ args' = args

LEMMA Kept ==
    ASSUME TypeOK, NEW c \in Commands
    PROVE  /\ pc = [pc EXCEPT ![c] = pc[c]] /\ pc[c] \in Labels
           /\ buf = [buf EXCEPT ![c] = buf[c]] /\ buf[c] \in Buffers \cup {None}
           /\ win = [win EXCEPT ![c] = win[c]] /\ win[c] \in Windows \cup {None}
           /\ rest = [rest EXCEPT ![c] = rest[c]] /\ rest[c] \in SUBSET Buffers
           /\ paths = [paths EXCEPT ![c] = paths[c]] /\ paths[c] \in Nat
           /\ seen = [seen EXCEPT ![c] = seen[c]] /\ seen[c] \in [tick : Nat, what : {"saved", "unsaved"}]
           /\ report = [report EXCEPT ![c] = report[c]] /\ report[c] \in SUBSET Entries
           /\ acted = [acted EXCEPT ![c] = acted[c]] /\ acted[c] \in [place : Buffers \cup Windows \cup {None}, tick : Nat]
BY DEF TypeOK

LEMMA LocalTypes ==
    ASSUME TypeOK, NEW c \in Commands, LocalStep(c)
    PROVE  /\ args' \in [Commands -> Arguments]
           /\ pc' \in [Commands -> Labels]
           /\ buf' \in [Commands -> Buffers \cup {None}]
           /\ win' \in [Commands -> Windows \cup {None}]
           /\ rest' \in [Commands -> SUBSET Buffers]
           /\ paths' \in [Commands -> Nat]
           /\ seen' \in [Commands -> [tick : Nat, what : {"saved", "unsaved"}]]
           /\ report' \in [Commands -> SUBSET Entries]
           /\ acted' \in [Commands -> [place : Buffers \cup Windows \cup {None}, tick : Nat]]
           /\ \A d \in Commands \ {c} : Untouched(d)
<1>1. args' \in [Commands -> Arguments]
  BY DEF TypeOK, LocalStep
<1>2. /\ pc' \in [Commands -> Labels]
      /\ \A d \in Commands \ {c} : pc'[d] = pc[d]
  <2>1. pc \in [Commands -> Labels]
    BY DEF TypeOK
  <2>2. pc' = [pc EXCEPT ![c] = pc'[c]] /\ pc'[c] \in Labels
    BY DEF LocalStep
  <2>. QED BY <2>1, <2>2, Update
<1>3. /\ buf' \in [Commands -> Buffers \cup {None}]
      /\ \A d \in Commands \ {c} : buf'[d] = buf[d]
  <2>1. buf \in [Commands -> Buffers \cup {None}]
    BY DEF TypeOK
  <2>2. buf' = [buf EXCEPT ![c] = buf'[c]] /\ buf'[c] \in Buffers \cup {None}
    BY DEF LocalStep
  <2>. QED BY <2>1, <2>2, Update
<1>4. /\ win' \in [Commands -> Windows \cup {None}]
      /\ \A d \in Commands \ {c} : win'[d] = win[d]
  <2>1. win \in [Commands -> Windows \cup {None}]
    BY DEF TypeOK
  <2>2. win' = [win EXCEPT ![c] = win'[c]] /\ win'[c] \in Windows \cup {None}
    BY DEF LocalStep
  <2>. QED BY <2>1, <2>2, Update
<1>5. /\ rest' \in [Commands -> SUBSET Buffers]
      /\ \A d \in Commands \ {c} : rest'[d] = rest[d]
  <2>1. rest \in [Commands -> SUBSET Buffers]
    BY DEF TypeOK
  <2>2. rest' = [rest EXCEPT ![c] = rest'[c]] /\ rest'[c] \in SUBSET Buffers
    BY DEF LocalStep
  <2>. QED BY <2>1, <2>2, Update
<1>6. /\ paths' \in [Commands -> Nat]
      /\ \A d \in Commands \ {c} : paths'[d] = paths[d]
  <2>1. paths \in [Commands -> Nat]
    BY DEF TypeOK
  <2>2. paths' = [paths EXCEPT ![c] = paths'[c]] /\ paths'[c] \in Nat
    BY DEF LocalStep
  <2>. QED BY <2>1, <2>2, Update
<1>7. /\ seen' \in [Commands -> [tick : Nat, what : {"saved", "unsaved"}]]
      /\ \A d \in Commands \ {c} : seen'[d] = seen[d]
  <2>1. seen \in [Commands -> [tick : Nat, what : {"saved", "unsaved"}]]
    BY DEF TypeOK
  <2>2. seen' = [seen EXCEPT ![c] = seen'[c]] /\ seen'[c] \in [tick : Nat, what : {"saved", "unsaved"}]
    BY DEF LocalStep
  <2>. QED BY <2>1, <2>2, Update
<1>8. /\ report' \in [Commands -> SUBSET Entries]
      /\ \A d \in Commands \ {c} : report'[d] = report[d]
  <2>1. report \in [Commands -> SUBSET Entries]
    BY DEF TypeOK
  <2>2. report' = [report EXCEPT ![c] = report'[c]] /\ report'[c] \in SUBSET Entries
    BY DEF LocalStep
  <2>. QED BY <2>1, <2>2, Update
<1>9. /\ acted' \in [Commands -> [place : Buffers \cup Windows \cup {None}, tick : Nat]]
      /\ \A d \in Commands \ {c} : acted'[d] = acted[d]
  <2>1. acted \in [Commands -> [place : Buffers \cup Windows \cup {None}, tick : Nat]]
    BY DEF TypeOK
  <2>2. acted' = [acted EXCEPT ![c] = acted'[c]] /\ acted'[c] \in [place : Buffers \cup Windows \cup {None}, tick : Nat]
    BY DEF LocalStep
  <2>. QED BY <2>1, <2>2, Update
<1>. QED BY <1>1, <1>2, <1>3, <1>4, <1>5, <1>6, <1>7, <1>8, <1>9 DEF Untouched, LocalStep

LEMMA ReadStep ==
    ASSUME TypeOK, NEW c \in Commands, OnlyReads, LocalStep(c)
    PROVE  /\ TypeOK' /\ Elsewhere(c) /\ Versioned
           /\ UNCHANGED <<life, tick, unsaved, windows, shown, curwin, moved, left, args, Here>>
<1>1. UNCHANGED <<life, tick, unsaved, windows, shown, curwin, moved, left, args, Here>>
  BY Reading DEF Here
<1>2. TypeOK'
  BY <1>1, LocalTypes DEF TypeOK
<1>. QED BY <1>1, <1>2, Reading, LocalTypes DEF Elsewhere

\* What a command has reported stays true of the versions it read.
LEMMA StillFresh ==
    ASSUME TypeOK, TypeOK', NEW c \in Commands, CommandInv(c), Versioned,
           NEW r \in report[c], r.place \in Buffers
    PROVE  /\ r.tick <= tick'[r.place]
           /\ (/\ r.what \in {"saved", "unsaved"}
               /\ life'[r.place] # "wiped"
               /\ r.tick = tick'[r.place]) => (r.what = "unsaved" <=> r.place \in unsaved')
<1>1. r.tick \in Nat /\ tick[r.place] \in Nat /\ tick'[r.place] \in Nat
  BY DEF TypeOK, Entries
<1>2. r.tick <= tick[r.place] /\ tick[r.place] <= tick'[r.place]
  BY DEF CommandInv, Past, Versioned
<1>3. r.tick = tick'[r.place] => tick'[r.place] = tick[r.place]
  BY <1>1, <1>2
<1>. QED BY <1>1, <1>2, <1>3 DEF CommandInv, Fresh, Versioned

LEMMA StillPast ==
    ASSUME TypeOK, TypeOK', NEW c \in Commands, CommandInv(c), Versioned,
           report'[c] = report[c], acted'[c] = acted[c]
    PROVE  Past(c)' /\ Fresh(c)'
<1>1. Fresh(c)'
  BY StillFresh DEF Fresh
<1>2. acted[c].place \in Buffers => acted[c].tick <= tick'[acted[c].place]
  <2>. SUFFICES ASSUME acted[c].place \in Buffers PROVE acted[c].tick <= tick'[acted[c].place]
    OBVIOUS
  <2>1. /\ acted[c].tick \in Nat /\ tick[acted[c].place] \in Nat
        /\ tick'[acted[c].place] \in Nat
    BY DEF TypeOK
  <2>2. acted[c].tick <= tick[acted[c].place] /\ tick[acted[c].place] <= tick'[acted[c].place]
    BY DEF CommandInv, Past, Versioned
  <2>. QED BY <2>1, <2>2
<1>3. Past(c)'
  BY <1>2, StillFresh DEF Past
<1>. QED BY <1>1, <1>3

\* A command that has failed is asked for little.
LEMMA Failing ==
    ASSUME NEW c \in Commands, pc'[c] = "failed", args' = args,
           Past(c)', Fresh(c)',
           rest'[c] # {} => args[c].kind = "buffers",
           args[c].kind = "cursor set" => acted'[c].tick = 0,
           InFocus(c)'
    PROVE  CommandInv(c)'
<1>1. Locals(c)'
  BY DEF Locals, LabelsOf, Fields
<1>2. Edited(c)' /\ Placed(c)' /\ Focused(c)'
  BY DEF Edited, Placed, Focused, Fields
<1>. QED BY <1>1, <1>2 DEF CommandInv, OnTarget

\* A command that fails and moves nothing leaves the focus where it has put it.
LEMMA FailingInFocus ==
    ASSUME NEW c \in Commands, CommandInv(c), pc'[c] = "failed",
           UNCHANGED <<args, acted, moved, Here>>
    PROVE  InFocus(c)'
<1>. SUFFICES ASSUME ~moved[c], args[c].kind \in {"buffer use", "open"}, acted[c] # Nowhere
              PROVE  Here = acted[c].place
  BY DEF InFocus
<1>1. CASE pc[c] \in {"done", "failed"}
  BY <1>1 DEF CommandInv, InFocus
<1>2. CASE pc[c] \notin {"done", "failed"}
  <2>1. pc[c] # "start"
    BY DEF CommandInv, Locals
  <2>2. pc[c] \in {"add", "load", "focus"} \cup Fields
    BY <1>2, <2>1 DEF CommandInv, Locals, LabelsOf
  <2>3. pc[c] \in {"add", "load"} => args[c].kind = "open"
    BY DEF CommandInv, Locals, LabelsOf, Fields
  <2>. QED BY <2>2, <2>3 DEF CommandInv, Focused, Focusing
<1>. QED BY <1>1, <1>2

LEMMA FailsStep ==
    ASSUME TypeOK, NEW c \in Commands, CommandInv(c), CallFails(c)
    PROVE  TypeOK' /\ CommandInv(c)' /\ Elsewhere(c)
<1>1. LocalStep(c) /\ pc'[c] = "failed"
  BY DEF CallFails, TypeOK, LocalStep, localVars, OnlyReads, Labels
<1>2. TypeOK' /\ Elsewhere(c) /\ Versioned /\ args' = args
  BY <1>1, ReadStep DEF CallFails
<1>3. /\ Past(c)' /\ Fresh(c)'
      /\ rest'[c] # {} => args[c].kind = "buffers"
      /\ args[c].kind = "cursor set" => acted'[c].tick = 0
  BY <1>2, StillPast DEF CallFails, localVars, CommandInv, Locals, Placed
<1>4. InFocus(c)'
  BY <1>1, <1>2, ReadStep, FailingInFocus DEF CallFails, localVars
<1>. QED BY <1>1, <1>2, <1>3, <1>4, Failing

LEMMA GetBufStep ==
    ASSUME TypeOK, NEW c \in Commands, CommandInv(c), GetBuf(c)
    PROVE  TypeOK' /\ CommandInv(c)' /\ Elsewhere(c)
<1>1. args[c].kind \in {"context", "text", "edit", "replace", "command"} /\ pc[c] = "buf"
  BY DEF CommandInv, Locals, LabelsOf, Fields, GetBuf
<1>2. LocalStep(c) /\ pc'[c] \in {AfterBuf(args[c]), "failed"}
      /\ buf'[c] = Here /\ Here \in Buffers
      /\ UNCHANGED <<win, rest, seen, report, acted>>
  BY <1>1, Kept DEF GetBuf, Replied, AfterBuf, Here, TypeOK, LocalStep, OnlyReads, Labels
<1>3. /\ TypeOK' /\ Elsewhere(c) /\ Versioned
      /\ UNCHANGED <<life, tick, unsaved, windows, shown, curwin, moved, args, Here>>
  BY <1>2, ReadStep DEF GetBuf
<1>4. Past(c)' /\ Fresh(c)'
  BY <1>2, <1>3, StillPast
<1>5. CASE pc'[c] = "failed"
  <2>1. InFocus(c)'
    BY <1>1, <1>3, <1>5 DEF InFocus
  <2>. QED BY <1>1, <1>2, <1>3, <1>4, <1>5, <2>1, Failing DEF CommandInv, Locals, Placed
<1>6. CASE pc'[c] = AfterBuf(args[c])
  <2>1. pc'[c] \in LabelsOf(args[c].kind) /\ pc'[c] \in {"win", "lines", "write"}
    BY <1>1, <1>2, <1>3, <1>6 DEF AfterBuf, LabelsOf
  <2>2. Locals(c)'
    BY <1>1, <1>2, <1>3, <1>6, <2>1 DEF CommandInv, Locals, Fields, Saving
  <2>3. Edited(c)'
    BY <1>1, <1>2, <1>3, <1>6, <2>1 DEF AfterBuf, Edited, Fields, Saving
  <2>4. Placed(c)' /\ Focused(c)'
    BY <1>1, <1>2, <1>3, <1>6 DEF Placed, Focused, Focusing
  <2>5. OnTarget(c)' /\ InFocus(c)'
    BY <1>1, <1>2, <1>3, <1>6, <2>1 DEF OnTarget, InFocus
  <2>. QED BY <2>1, <2>2, <2>3, <2>4, <2>5, <1>3, <1>4 DEF CommandInv
<1>. QED BY <1>2, <1>3, <1>5, <1>6

LEMMA GetWinStep ==
    ASSUME TypeOK, NEW c \in Commands, CommandInv(c), GetWin(c)
    PROVE  TypeOK' /\ CommandInv(c)' /\ Elsewhere(c)
<1>1. args[c].kind \in {"context", "cursor", "cursor set", "command"} /\ pc[c] \in {"win", "own win"}
  BY DEF CommandInv, Locals, LabelsOf, Fields, GetWin
<1>2. LocalStep(c) /\ pc'[c] \in {IF pc[c] = "win" THEN "cursor" ELSE "set cursor", "failed"}
      /\ win'[c] = curwin /\ curwin \in Windows
      /\ UNCHANGED <<buf, rest, seen, report, acted>>
  <2>1. /\ win' = [win EXCEPT ![c] = win'[c]] /\ win'[c] = curwin
        /\ curwin \in Windows
    BY DEF GetWin, TypeOK
  <2>2. /\ pc' = [pc EXCEPT ![c] = pc'[c]] /\ pc'[c] \in Labels
        /\ pc'[c] \in {IF pc[c] = "win" THEN "cursor" ELSE "set cursor", "failed"}
    BY DEF GetWin, Replied, TypeOK, Labels
  <2>. QED BY <2>1, <2>2, Kept DEF GetWin, LocalStep, OnlyReads
<1>3. /\ TypeOK' /\ Elsewhere(c) /\ Versioned
      /\ UNCHANGED <<life, tick, unsaved, windows, shown, curwin, moved, args, Here>>
  BY <1>2, ReadStep DEF GetWin
<1>4. Past(c)' /\ Fresh(c)'
  BY <1>2, <1>3, StillPast
<1>5. CASE pc'[c] = "failed"
  <2>1. InFocus(c)'
    BY <1>1, <1>3, <1>5 DEF InFocus
  <2>. QED BY <1>1, <1>2, <1>3, <1>4, <1>5, <2>1, Failing DEF CommandInv, Locals, Placed
<1>6. CASE pc'[c] = IF pc[c] = "win" THEN "cursor" ELSE "set cursor"
  <2>1. pc'[c] \in LabelsOf(args[c].kind) /\ pc'[c] \in {"cursor", "set cursor"}
    BY <1>1, <1>2, <1>3, <1>6 DEF CommandInv, Locals, LabelsOf, Fields
  <2>2. Locals(c)'
    BY <1>1, <1>2, <1>3, <1>6, <2>1 DEF CommandInv, Locals, Fields, Saving
  <2>3. Edited(c)' /\ Focused(c)'
    BY <1>1, <1>2, <1>3, <1>6, <2>1 DEF Edited, Focused, Focusing, Fields, Saving
  <2>4. Placed(c)'
    BY <1>1, <1>2, <1>3, <1>6, <2>1 DEF CommandInv, Placed
  <2>5. OnTarget(c)' /\ InFocus(c)'
    BY <1>1, <1>2, <1>3, <1>6, <2>1 DEF OnTarget, InFocus
  <2>. QED BY <2>1, <2>2, <2>3, <2>4, <2>5, <1>3, <1>4 DEF CommandInv
<1>. QED BY <1>2, <1>3, <1>5, <1>6

LEMMA SetCursorStep ==
    ASSUME TypeOK, NEW c \in Commands, CommandInv(c), SetCursor(c)
    PROVE  TypeOK' /\ CommandInv(c)' /\ Elsewhere(c)
<1>1. args[c].kind = "cursor set" /\ pc[c] = "set cursor"
  BY DEF CommandInv, Locals, LabelsOf, Fields, SetCursor
<1>2. LocalStep(c) /\ pc'[c] \in {"win", "failed"}
      /\ acted'[c].place = win[c] /\ acted'[c].tick = 0 /\ win[c] \in windows /\ windows \subseteq Windows
      /\ UNCHANGED <<buf, win, rest, seen, report>>
  <2>1. win[c] \in windows /\ windows \subseteq Windows
    BY DEF SetCursor, TypeOK
  <2>2. /\ acted' = [acted EXCEPT ![c] = acted'[c]] /\ acted'[c] = [place |-> win[c], tick |-> 0]
    BY DEF SetCursor, TypeOK
  <2>3. pc' = [pc EXCEPT ![c] = pc'[c]] /\ pc'[c] \in Labels /\ pc'[c] \in {"win", "failed"}
    BY DEF SetCursor, Replied, TypeOK, Labels
  <2>4. acted'[c] \in [place : Buffers \cup Windows \cup {None}, tick : Nat]
    BY <2>1, <2>2
  <2>5. acted'[c].place = win[c] /\ acted'[c].tick = 0
    BY <2>2
  <2>. QED BY <2>1, <2>2, <2>3, <2>4, <2>5, Kept DEF SetCursor, LocalStep, OnlyReads
<1>3. /\ TypeOK' /\ Elsewhere(c) /\ Versioned
      /\ UNCHANGED <<life, tick, unsaved, windows, shown, curwin, moved, args, Here>>
  BY <1>2, ReadStep DEF SetCursor
<1>4. Past(c)' /\ Fresh(c)'
  <2>1. acted'[c].place \notin Buffers
    BY <1>2, Places
  <2>. QED BY <1>2, <1>3, <2>1, StillFresh DEF Past, Fresh
<1>5. CASE pc'[c] = "failed"
  <2>1. InFocus(c)'
    BY <1>1, <1>3, <1>5 DEF InFocus
  <2>. QED BY <1>1, <1>2, <1>3, <1>4, <1>5, <2>1, Failing DEF CommandInv, Locals, Placed
<1>6. CASE pc'[c] = "win"
  <2>1. Locals(c)'
    BY <1>1, <1>2, <1>3, <1>6 DEF CommandInv, Locals, LabelsOf, Fields, Saving
  <2>2. Edited(c)' /\ Focused(c)'
    BY <1>1, <1>2, <1>3, <1>6 DEF Edited, Focused, Focusing, Fields, Saving
  <2>3. ~moved[c] => win[c] = curwin
    BY <1>1 DEF CommandInv, Placed
  <2>4. Placed(c)'
    BY <1>1, <1>2, <1>3, <1>6, <2>3 DEF Placed
  <2>5. OnTarget(c)' /\ InFocus(c)'
    BY <1>1, <1>2, <1>3, <1>6 DEF OnTarget, InFocus
  <2>. QED BY <2>1, <2>2, <2>3, <2>4, <2>5, <1>3, <1>4 DEF CommandInv
<1>. QED BY <1>2, <1>3, <1>5, <1>6

LEMMA GetCursorStep ==
    ASSUME TypeOK, NEW c \in Commands, CommandInv(c), GetCursor(c)
    PROVE  TypeOK' /\ CommandInv(c)' /\ Elsewhere(c)
<1>1. args[c].kind \in {"context", "cursor", "cursor set", "command"} /\ pc[c] = "cursor"
  BY DEF CommandInv, Locals, LabelsOf, Fields, GetCursor
<1>2. LocalStep(c) /\ pc'[c] \in {IF args[c].kind \in {"context", "command"} THEN "name" ELSE "done", "failed"}
      /\ report'[c] = report[c] \cup {[place |-> win[c], tick |-> 0, what |-> "cursor"]}
      /\ win[c] \in windows /\ windows \subseteq Windows
      /\ UNCHANGED <<buf, win, rest, seen, acted>>
  <2>1. win[c] \in windows /\ windows \subseteq Windows
    BY DEF GetCursor, TypeOK
  <2>2. [place |-> win[c], tick |-> 0, what |-> "cursor"] \in Entries
    BY <2>1 DEF Entries
  <2>3. report' = [report EXCEPT ![c] = @ \cup {[place |-> win[c], tick |-> 0, what |-> "cursor"]}]
    BY DEF GetCursor, Reports
  <2>4. /\ report'[c] = report[c] \cup {[place |-> win[c], tick |-> 0, what |-> "cursor"]}
        /\ report' = [report EXCEPT ![c] = report'[c]] /\ report'[c] \in SUBSET Entries
    BY <2>2, <2>3 DEF TypeOK
  <2>5. /\ pc' = [pc EXCEPT ![c] = pc'[c]] /\ pc'[c] \in Labels
        /\ pc'[c] \in {IF args[c].kind \in {"context", "command"} THEN "name" ELSE "done", "failed"}
    BY <1>1 DEF GetCursor, Replied, TypeOK, Labels, Fields
  <2>. QED BY <1>1, <2>5, Kept, <2>1, <2>4 DEF GetCursor, LocalStep, OnlyReads
<1>3. /\ TypeOK' /\ Elsewhere(c) /\ Versioned
      /\ UNCHANGED <<life, tick, unsaved, windows, shown, curwin, moved, args, Here>>
  BY <1>2, ReadStep DEF GetCursor
<1>4. Past(c)' /\ Fresh(c)'
  <2>1. win[c] \notin Buffers
    BY <1>2, Places
  <2>2. acted[c].place \in Buffers => acted[c].tick <= tick[acted[c].place]
    BY DEF CommandInv, Past
  <2>. QED BY <1>2, <1>3, <2>1, <2>2, StillFresh DEF Past, Fresh
<1>5. CASE pc'[c] = "failed"
  <2>1. InFocus(c)'
    BY <1>1, <1>3, <1>5 DEF InFocus
  <2>. QED BY <1>1, <1>2, <1>3, <1>4, <1>5, <2>1, Failing DEF CommandInv, Locals, Placed
<1>6. CASE pc'[c] = IF args[c].kind \in {"context", "command"} THEN "name" ELSE "done"
  <2>1. args[c].kind \in {"context", "command"} => buf[c] \in Buffers
    BY <1>1 DEF CommandInv, Locals
  <2>2. Locals(c)'
    BY <1>1, <1>2, <1>3, <1>6, <2>1 DEF CommandInv, Locals, LabelsOf, Fields, Saving
  <2>3. Edited(c)' /\ Focused(c)'
    BY <1>1, <1>2, <1>3, <1>6 DEF Edited, Focused, Focusing, Fields, Saving
  <2>4. Placed(c)'
    BY <1>1, <1>2, <1>3, <1>6 DEF CommandInv, Placed
  <2>5. args[c].kind = "cursor set" => (report[c] = {} /\ acted[c].tick = 0 /\ (~moved[c] => acted[c].place = win[c]))
    BY <1>1 DEF CommandInv, Locals, Placed
  <2>6. 0 >= 0
    OBVIOUS
  <2>7. OnTarget(c)'
    <3>. SUFFICES ASSUME args[c].kind = "cursor set", NEW r \in report'[c]
                  PROVE  (r.place = acted[c].place /\ r.tick >= acted[c].tick) \/ moved[c]
      BY <1>1, <1>2, <1>3 DEF OnTarget
    <3>1. report[c] = {} /\ acted[c].tick = 0
      BY <2>5
    <3>2. r = [place |-> win[c], tick |-> 0, what |-> "cursor"]
      BY <1>2, <3>1
    <3>3. r.place = win[c] /\ r.tick = 0
      BY <3>2
    <3>4. r.tick >= acted[c].tick
      BY <2>6, <3>1, <3>3
    <3>5. moved[c] \/ acted[c].place = win[c]
      BY <2>5
    <3>. QED BY <3>3, <3>4, <3>5
  <2>8. InFocus(c)'
    BY <1>1, <1>2, <1>3, <1>6 DEF InFocus
  <2>. QED BY <2>2, <2>3, <2>4, <2>7, <2>8, <1>3, <1>4 DEF CommandInv
<1>. QED BY <1>2, <1>3, <1>5, <1>6

LEMMA ListStep ==
    ASSUME TypeOK, NEW c \in Commands, CommandInv(c), List(c)
    PROVE  TypeOK' /\ CommandInv(c)' /\ Elsewhere(c)
<1>1. args[c].kind = "buffers" /\ pc[c] = "list"
  BY DEF CommandInv, Locals, LabelsOf, Fields, List
<1>2. LocalStep(c) /\ pc'[c] \in {"name", "failed"}
      /\ buf'[c] \in Buffers
      /\ UNCHANGED <<win, seen, report, acted>>
  <2>1. PICK b \in Buffers : /\ buf' = [buf EXCEPT ![c] = b]
                            /\ rest' = [rest EXCEPT ![c] = {d \in Buffers : Exists(d)} \ {b}]
    BY DEF List
  <2>2. buf'[c] = b /\ buf' = [buf EXCEPT ![c] = buf'[c]]
    BY <2>1 DEF TypeOK
  <2>3. rest'[c] \in SUBSET Buffers /\ rest' = [rest EXCEPT ![c] = rest'[c]]
    BY <2>1 DEF TypeOK
  <2>5. /\ pc' = [pc EXCEPT ![c] = pc'[c]] /\ pc'[c] \in Labels
        /\ pc'[c] \in {"name", "failed"}
    BY <1>1 DEF List, Replied, TypeOK, Labels, Fields
  <2>. QED BY <1>1, <2>5, Kept, <2>2, <2>3 DEF List, LocalStep, OnlyReads
<1>3. /\ TypeOK' /\ Elsewhere(c) /\ Versioned
      /\ UNCHANGED <<life, tick, unsaved, windows, shown, curwin, moved, args, Here>>
  BY <1>2, ReadStep DEF List
<1>4. Past(c)' /\ Fresh(c)'
  BY <1>2, <1>3, StillPast
<1>5. CASE pc'[c] = "failed"
  <2>1. InFocus(c)'
    BY <1>1, <1>3, <1>5 DEF InFocus
  <2>. QED BY <1>1, <1>2, <1>3, <1>4, <1>5, <2>1, Failing DEF CommandInv, Locals, Placed
<1>6. CASE pc'[c] = "name"
  <2>1. Locals(c)'
    BY <1>1, <1>2, <1>3, <1>6 DEF CommandInv, Locals, LabelsOf, Fields, Saving
  <2>2. Edited(c)' /\ Focused(c)' /\ Placed(c)'
    BY <1>1, <1>2, <1>3, <1>6 DEF Edited, Focused, Placed, Focusing, Saving
  <2>3. OnTarget(c)' /\ InFocus(c)'
    BY <1>1, <1>2, <1>3, <1>6 DEF OnTarget, InFocus
  <2>. QED BY <2>1, <2>2, <2>3, <1>3, <1>4 DEF CommandInv
<1>. QED BY <1>2, <1>3, <1>5, <1>6

LEMMA DressStep ==
    ASSUME TypeOK, NEW c \in Commands, CommandInv(c), Dress(c)
    PROVE  TypeOK' /\ CommandInv(c)' /\ Elsewhere(c)
<1>1. args[c].kind = "scratch" /\ pc[c] = "dress"
  BY DEF CommandInv, Locals, LabelsOf, Fields, Dress
<1>2. LocalStep(c) /\ pc'[c] \in {"focus", "failed"}
      /\ UNCHANGED <<buf, win, rest, seen, report, acted>>
  BY <1>1, Kept DEF Dress, Replied, localVars, TypeOK, LocalStep, OnlyReads, Labels
<1>3. /\ TypeOK' /\ Elsewhere(c) /\ Versioned
      /\ UNCHANGED <<life, tick, unsaved, windows, shown, curwin, moved, args, Here>>
  BY <1>2, ReadStep DEF Dress
<1>4. Past(c)' /\ Fresh(c)'
  BY <1>2, <1>3, StillPast
<1>5. CASE pc'[c] = "failed"
  <2>1. InFocus(c)'
    BY <1>1, <1>3, <1>5 DEF InFocus
  <2>. QED BY <1>1, <1>2, <1>3, <1>4, <1>5, <2>1, Failing DEF CommandInv, Locals, Placed
<1>6. CASE pc'[c] = "focus"
  <2>1. Locals(c)'
    BY <1>1, <1>2, <1>3, <1>6 DEF CommandInv, Locals, LabelsOf, Fields, Saving
  <2>2. Edited(c)'
    BY <1>1, <1>2, <1>3, <1>6 DEF CommandInv, Edited, Fields, Saving
  <2>3. Focused(c)' /\ Placed(c)'
    BY <1>1, <1>2, <1>3, <1>6 DEF Focused, Placed, Focusing, Fields
  <2>4. OnTarget(c)' /\ InFocus(c)'
    BY <1>1, <1>2, <1>3, <1>6 DEF OnTarget, InFocus
  <2>. QED BY <2>1, <2>2, <2>3, <2>4, <1>3, <1>4 DEF CommandInv
<1>. QED BY <1>2, <1>3, <1>5, <1>6

LEMMA ReadSizeStep ==
    ASSUME TypeOK, NEW c \in Commands, CommandInv(c), ReadSize(c)
    PROVE  TypeOK' /\ CommandInv(c)' /\ Elsewhere(c)
<1>1. args[c].kind \in {"context", "command"} /\ pc[c] = "size"
  BY DEF CommandInv, Locals, LabelsOf, Fields, ReadSize
<1>2. LocalStep(c) /\ pc'[c] \in {"done", "failed"}
      /\ UNCHANGED <<buf, win, rest, seen, report, acted>>
  BY <1>1, Kept DEF ReadSize, Replied, localVars, TypeOK, LocalStep, OnlyReads, Labels
<1>3. /\ TypeOK' /\ Elsewhere(c) /\ Versioned
      /\ UNCHANGED <<life, tick, unsaved, windows, shown, curwin, moved, args, Here>>
  BY <1>2, ReadStep DEF ReadSize
<1>4. Past(c)' /\ Fresh(c)'
  BY <1>2, <1>3, StillPast
<1>5. CASE pc'[c] = "failed"
  <2>1. InFocus(c)'
    BY <1>1, <1>3, <1>5 DEF InFocus
  <2>. QED BY <1>1, <1>2, <1>3, <1>4, <1>5, <2>1, Failing DEF CommandInv, Locals, Placed
<1>6. CASE pc'[c] = "done"
  <2>1. Locals(c)'
    BY <1>1, <1>2, <1>3, <1>6 DEF CommandInv, Locals, LabelsOf, Fields, Saving
  <2>2. Edited(c)'
    BY <1>1, <1>2, <1>3, <1>6 DEF Edited, Fields, Saving
  <2>3. Focused(c)' /\ Placed(c)'
    BY <1>1, <1>2, <1>3, <1>6 DEF Focused, Placed, Focusing, Fields
  <2>4. OnTarget(c)' /\ InFocus(c)'
    BY <1>1, <1>2, <1>3, <1>6 DEF OnTarget, InFocus
  <2>. QED BY <2>1, <2>2, <2>3, <2>4, <1>3, <1>4 DEF CommandInv
<1>. QED BY <1>2, <1>3, <1>5, <1>6

LEMMA GetLinesStep ==
    ASSUME TypeOK, NEW c \in Commands, CommandInv(c), GetLines(c)
    PROVE  TypeOK' /\ CommandInv(c)' /\ Elsewhere(c)
<1>1. args[c].kind \in {"text", "replace"} /\ pc[c] = "lines"
  BY DEF CommandInv, Locals, LabelsOf, Fields, GetLines
<1>2. LocalStep(c) /\ pc'[c] \in {"done", "failed"} /\ buf[c] \in Buffers /\ tick[buf[c]] \in Nat
      /\ report'[c] = report[c] \cup {[place |-> buf[c], tick |-> tick[buf[c]], what |-> "lines"]}
      /\ UNCHANGED <<buf, win, rest, seen, acted>>
  <2>1. buf[c] \in Buffers /\ tick[buf[c]] \in Nat
    BY <1>1 DEF CommandInv, Locals, TypeOK
  <2>2. [place |-> buf[c], tick |-> tick[buf[c]], what |-> "lines"] \in Entries
    BY <2>1 DEF Entries
  <2>3. report' = [report EXCEPT ![c] = @ \cup {[place |-> buf[c], tick |-> tick[buf[c]], what |-> "lines"]}]
    BY DEF GetLines, Reports
  <2>4. /\ report'[c] = report[c] \cup {[place |-> buf[c], tick |-> tick[buf[c]], what |-> "lines"]}
        /\ report' = [report EXCEPT ![c] = report'[c]] /\ report'[c] \in SUBSET Entries
    BY <2>2, <2>3 DEF TypeOK
  <2>5. /\ pc' = [pc EXCEPT ![c] = pc'[c]] /\ pc'[c] \in Labels
        /\ pc'[c] \in {"done", "failed"}
    BY <1>1 DEF GetLines, Replied, TypeOK, Labels, Fields
  <2>. QED BY <1>1, <2>5, Kept, <2>1, <2>4 DEF GetLines, LocalStep, OnlyReads
<1>3. /\ TypeOK' /\ Elsewhere(c) /\ Versioned
      /\ UNCHANGED <<life, tick, unsaved, windows, shown, curwin, moved, args, Here>>
  BY <1>2, ReadStep DEF GetLines
<1>4. Past(c)' /\ Fresh(c)'
  <2>1. acted[c].place \in Buffers => acted[c].tick <= tick[acted[c].place]
    BY DEF CommandInv, Past
  <2>2. Fresh(c)'
    BY <1>2, <1>3, StillFresh DEF Fresh
  <2>. QED BY <1>2, <1>3, <2>1, <2>2, StillFresh DEF Past
<1>5. CASE pc'[c] = "failed"
  <2>1. InFocus(c)'
    BY <1>1, <1>3, <1>5 DEF InFocus
  <2>. QED BY <1>1, <1>2, <1>3, <1>4, <1>5, <2>1, Failing DEF CommandInv, Locals, Placed
<1>6. CASE pc'[c] = "done"
  <2>1. Locals(c)'
    BY <1>1, <1>2, <1>3, <1>6 DEF CommandInv, Locals, LabelsOf, Fields, Saving
  <2>2. Edited(c)' /\ Focused(c)' /\ Placed(c)'
    BY <1>1, <1>2, <1>3, <1>6 DEF Edited, Focused, Placed, Focusing, Fields, Saving
  <2>3. args[c].kind = "replace" => report[c] = {}
    BY <1>1 DEF CommandInv, Locals, Saving
  <2>4. args[c].kind = "replace" =>
           (acted[c].place = buf[c] /\ tick[buf[c]] >= acted[c].tick) \/ (moved[c] /\ args[c].selection)
    BY <1>1, <1>2 DEF CommandInv, Edited, Past, Saving, TypeOK
  <2>5. OnTarget(c)'
    <3>. SUFFICES ASSUME args[c].kind = "replace", NEW r \in report'[c]
                  PROVE  \/ r.place = acted[c].place /\ r.tick >= acted[c].tick
                         \/ moved[c] /\ args[c].selection
      BY <1>1, <1>2, <1>3 DEF OnTarget
    <3>1. r.place = buf[c] /\ r.tick = tick[buf[c]]
      BY <1>2, <2>3
    <3>. QED BY <3>1, <2>4
  <2>6. InFocus(c)'
    BY <1>1, <1>2, <1>3, <1>6 DEF InFocus
  <2>. QED BY <2>1, <2>2, <2>3, <2>4, <2>5, <2>6, <1>3, <1>4 DEF CommandInv
<1>. QED BY <1>2, <1>3, <1>5, <1>6

\* What each call of buffer_record reads.
LEMMA GotTypes ==
    ASSUME TypeOK, NEW c \in Commands, CommandInv(c), ReadField(c)
    PROVE  /\ args[c].kind \in {"context", "buffers", "buffer use", "open", "edit", "scratch", "command"}
           /\ pc[c] \in Fields /\ buf[c] \in Buffers
           /\ Got(c) \in [tick : Nat, what : {"saved", "unsaved"}]
           /\ tick[buf[c]] \in Nat
           /\ pc[c] = "tick" => Got(c).tick = tick[buf[c]]
           /\ pc[c] = "modified" =>
                 /\ Got(c).tick = seen[c].tick /\ Got(c).tick <= tick[buf[c]]
                 /\ Got(c).what = "unsaved" <=> buf[c] \in unsaved
<1>1. pc[c] \in Fields /\ buf[c] \in Buffers /\ pc[c] \in LabelsOf(args[c].kind)
  BY DEF ReadField, CommandInv, Locals
<1>2. args[c].kind \in {"context", "buffers", "buffer use", "open", "edit", "scratch", "command"}
  BY <1>1 DEF LabelsOf, Fields
<1>3. /\ seen[c] \in [tick : Nat, what : {"saved", "unsaved"}] /\ tick[buf[c]] \in Nat
  BY <1>1 DEF TypeOK
<1>4. CASE pc[c] = "name"
  BY <1>1, <1>2, <1>3, <1>4 DEF Got
<1>5. CASE pc[c] = "tick"
  <2>1. Got(c) = [seen[c] EXCEPT !.tick = tick[buf[c]]]
    BY <1>5 DEF Got
  <2>. QED BY <1>1, <1>2, <1>3, <1>5, <2>1
<1>6. CASE pc[c] = "modified"
  <2>1. Got(c) = [seen[c] EXCEPT !.what = IF buf[c] \in unsaved THEN "unsaved" ELSE "saved"]
    BY <1>6 DEF Got
  <2>2. seen[c].tick <= tick[buf[c]]
    BY <1>6 DEF CommandInv, Locals
  <2>. QED BY <1>1, <1>2, <1>3, <1>6, <2>1, <2>2
<1>. QED BY <1>1, <1>4, <1>5, <1>6 DEF Fields

LEMMA FieldStep ==
    ASSUME TypeOK, NEW c \in Commands, CommandInv(c), ReadField(c), pc[c] # "modified"
    PROVE  TypeOK' /\ CommandInv(c)' /\ Elsewhere(c)
<1>1. /\ args[c].kind \in {"context", "buffers", "buffer use", "open", "edit", "scratch", "command"}
      /\ pc[c] \in {"name", "tick"} /\ buf[c] \in Buffers
      /\ Got(c) \in [tick : Nat, what : {"saved", "unsaved"}]
      /\ tick[buf[c]] \in Nat /\ (pc[c] = "tick" => Got(c).tick = tick[buf[c]])
  BY GotTypes DEF Fields
<1>2. /\ LocalStep(c) /\ seen'[c] = Got(c)
      /\ pc'[c] \in {NextField(pc[c]), "failed"}
      /\ UNCHANGED <<buf, win, rest, report, acted>>
  <2>1. seen' = [seen EXCEPT ![c] = Got(c)] /\ seen \in [Commands -> [tick : Nat, what : {"saved", "unsaved"}]]
    BY DEF ReadField, TypeOK
  <2>2. seen'[c] = Got(c) /\ seen' = [seen EXCEPT ![c] = seen'[c]]
    BY <1>1, <2>1
  <2>3. NextField(pc[c]) \in {"tick", "modified"}
    BY <1>1 DEF NextField
  <2>4. Replied(c, NextField(pc[c])) /\ UNCHANGED <<buf, win, rest, paths, report, acted>> /\ args' = args
    BY <2>3, Reading DEF ReadField
  <2>5. /\ pc' = [pc EXCEPT ![c] = pc'[c]] /\ pc'[c] \in Labels
        /\ pc'[c] \in {NextField(pc[c]), "failed"}
    BY <2>3, <2>4 DEF Replied, TypeOK, Labels, Fields
  <2>. QED BY <1>1, <2>2, <2>4, <2>5, Kept DEF LocalStep
<1>3. /\ TypeOK' /\ Elsewhere(c) /\ Versioned
      /\ UNCHANGED <<life, tick, unsaved, windows, shown, curwin, moved, args, Here>>
  BY <1>2, ReadStep DEF ReadField
<1>4. Past(c)' /\ Fresh(c)'
  BY <1>2, <1>3, StillPast
<1>5. CASE pc'[c] = "failed"
  <2>1. InFocus(c)'
    BY <1>2, <1>3, <1>4, <1>5, FailingInFocus
  <2>. QED BY <1>1, <1>2, <1>3, <1>4, <1>5, <2>1, Failing DEF CommandInv, Locals, Placed
<1>6. CASE pc'[c] = NextField(pc[c])
  <2>1. /\ pc'[c] \in {"tick", "modified"} /\ pc'[c] \in LabelsOf(args[c].kind)
        /\ pc'[c] = "modified" => pc[c] = "tick"
    BY <1>1, <1>6 DEF NextField, LabelsOf, Fields
  <2>2. pc'[c] = "modified" => seen'[c].tick = tick[buf[c]]
    BY <1>1, <1>2, <2>1
  <2>3. Locals(c)'
    <3>1. pc'[c] = "modified" => seen'[c].tick <= tick'[buf'[c]]
      <4>1. tick'[buf'[c]] = tick[buf[c]] /\ tick[buf[c]] \in Nat
        BY <1>1, <1>2, <1>3
      <4>2. tick[buf[c]] <= tick[buf[c]]
        BY <4>1
      <4>. QED BY <2>2, <4>1, <4>2
    <3>2. /\ rest[c] # {} => args[c].kind = "buffers"
          /\ ~(report[c] # {} /\ args[c].kind \in Saving \cup {"buffer use", "cursor set"})
      BY <1>1 DEF CommandInv, Locals
    <3>. QED BY <1>1, <1>2, <1>3, <2>1, <3>1, <3>2 DEF Locals
  <2>4. args[c].kind \in Saving => acted[c].place = buf[c] /\ acted[c].tick <= tick[buf[c]]
    BY <1>1 DEF CommandInv, Edited, Past, Saving, Fields
  <2>5. Edited(c)'
    <3>1. (args[c].kind \in Saving /\ pc'[c] = "modified") => seen'[c].tick >= acted'[c].tick
      <4>. SUFFICES ASSUME args[c].kind \in Saving, pc'[c] = "modified"
                    PROVE  seen'[c].tick >= acted'[c].tick
        OBVIOUS
      <4>1. acted[c].tick \in Nat /\ acted[c].tick <= tick[buf[c]]
        BY <2>4 DEF TypeOK
      <4>. QED BY <1>1, <1>2, <2>2, <4>1
    <3>. QED BY <1>2, <1>3, <2>1, <2>4, <3>1 DEF Edited
  <2>6. Placed(c)' /\ Focused(c)'
    BY <1>1, <1>2, <1>3, <2>1 DEF CommandInv, Placed, Focused, Fields
  <2>7. OnTarget(c)' /\ InFocus(c)'
    BY <1>2, <1>3, <2>1 DEF OnTarget, InFocus
  <2>. QED BY <2>3, <2>5, <2>6, <2>7, <1>3, <1>4 DEF CommandInv
<1>. QED BY <1>2, <1>3, <1>5, <1>6


LEMMA RecordStep ==
    ASSUME TypeOK, NEW c \in Commands, CommandInv(c), ReadField(c), pc[c] = "modified"
    PROVE  TypeOK' /\ CommandInv(c)' /\ Elsewhere(c)
<1>. DEFINE rec == [place |-> buf[c], tick |-> Got(c).tick, what |-> Got(c).what]
<1>1. /\ args[c].kind \in {"context", "buffers", "buffer use", "open", "edit", "scratch", "command"}
      /\ buf[c] \in Buffers /\ Got(c) \in [tick : Nat, what : {"saved", "unsaved"}]
      /\ Got(c).tick = seen[c].tick /\ Got(c).tick <= tick[buf[c]]
      /\ Got(c).what = "unsaved" <=> buf[c] \in unsaved
  BY GotTypes
<1>2. /\ LocalStep(c) /\ report'[c] = report[c] \cup {rec}
      /\ UNCHANGED <<win, paths, acted>>
      /\ \/ rest[c] = {} /\ pc'[c] \in {AfterRecord(c), "failed"} /\ UNCHANGED <<buf, rest>>
         \/ /\ rest[c] # {} /\ pc'[c] \in {"name", "failed"}
            /\ buf'[c] \in Buffers /\ rest'[c] \subseteq rest[c]
  <2>1. seen' = [seen EXCEPT ![c] = Got(c)] /\ seen \in [Commands -> [tick : Nat, what : {"saved", "unsaved"}]]
    BY DEF ReadField, TypeOK
  <2>2. seen' = [seen EXCEPT ![c] = seen'[c]] /\ seen'[c] \in [tick : Nat, what : {"saved", "unsaved"}]
    BY <1>1, <2>1
  <2>3. rec \in Entries
    BY <1>1 DEF Entries
  <2>4. RecordDone(c) /\ UNCHANGED <<win, paths, acted>> /\ args' = args
    BY Reading DEF ReadField, NextField
  <2>5. report' = [report EXCEPT ![c] = @ \cup {rec}] /\ report \in [Commands -> SUBSET Entries]
    BY <2>4 DEF RecordDone, Reports, TypeOK
  <2>6. /\ report'[c] = report[c] \cup {rec}
        /\ report' = [report EXCEPT ![c] = report'[c]] /\ report'[c] \in SUBSET Entries
    BY <2>3, <2>5
  <2>7. CASE rest[c] = {}
    <3>1. Replied(c, AfterRecord(c)) /\ UNCHANGED <<buf, rest>>
      BY <2>4, <2>7 DEF RecordDone
    <3>2. AfterRecord(c) \in {"add", "size", "done"}
      BY DEF AfterRecord
    <3>3. /\ pc' = [pc EXCEPT ![c] = pc'[c]] /\ pc'[c] \in Labels
          /\ pc'[c] \in {AfterRecord(c), "failed"}
      BY <3>1, <3>2 DEF Replied, TypeOK, Labels
    <3>. QED BY <2>2, <2>4, <2>6, <2>7, <3>1, <3>3, Kept DEF LocalStep
  <2>8. CASE rest[c] # {}
    <3>1. PICK b \in rest[c] : /\ buf' = [buf EXCEPT ![c] = b]
                               /\ rest' = [rest EXCEPT ![c] = @ \ {b}]
                               /\ Replied(c, "name")
      BY <2>4, <2>8 DEF RecordDone
    <3>2. /\ pc' = [pc EXCEPT ![c] = pc'[c]] /\ pc'[c] \in Labels /\ pc'[c] \in {"name", "failed"}
      BY <3>1 DEF Replied, TypeOK, Labels, Fields
    <3>3. /\ buf' = [buf EXCEPT ![c] = buf'[c]] /\ buf'[c] \in Buffers /\ buf'[c] \in Buffers \cup {None}
          /\ rest' = [rest EXCEPT ![c] = rest'[c]] /\ rest'[c] \in SUBSET Buffers /\ rest'[c] \subseteq rest[c]
      BY <3>1 DEF TypeOK
    <3>. QED BY <2>2, <2>4, <2>6, <2>8, <3>2, <3>3, Kept DEF LocalStep
  <2>. QED BY <2>7, <2>8
<1>3. /\ TypeOK' /\ Elsewhere(c) /\ Versioned
      /\ UNCHANGED <<life, tick, unsaved, windows, shown, curwin, moved, args, Here>>
  BY <1>2, ReadStep DEF ReadField
<1>4. Past(c)' /\ Fresh(c)'
  <2>1. acted[c].place \in Buffers => acted[c].tick <= tick[acted[c].place]
    BY DEF CommandInv, Past
  <2>2. rec.place = buf[c] /\ rec.tick <= tick[buf[c]] /\ (rec.what = "unsaved" <=> buf[c] \in unsaved)
    BY <1>1
  <2>3. \A r \in report'[c] : r = rec \/ r \in report[c]
    BY <1>2
  <2>4. Fresh(c)'
    BY <1>3, <2>2, <2>3, StillFresh DEF Fresh
  <2>5. \A r \in report'[c] : r.place \in Buffers => r.tick <= tick'[r.place]
    BY <1>3, <2>2, <2>3, StillFresh
  <2>. QED BY <1>2, <1>3, <2>1, <2>4, <2>5 DEF Past
<1>5. CASE pc'[c] = "failed"
  <2>1. InFocus(c)'
    BY <1>2, <1>3, <1>4, <1>5, FailingInFocus
  <2>. QED BY <1>1, <1>2, <1>3, <1>4, <1>5, <2>1, Failing DEF CommandInv, Locals, Placed
<1>6. CASE pc'[c] # "failed"
  <2>1. rest[c] # {} => args[c].kind = "buffers"
    BY DEF CommandInv, Locals
  <2>2. /\ pc'[c] \in LabelsOf(args[c].kind) /\ pc'[c] \in {"add", "size", "done", "name"}
        /\ pc'[c] = "name" => args[c].kind = "buffers" /\ buf'[c] \in Buffers
        /\ pc'[c] = "add" => args[c].kind = "open" /\ paths'[c] > 0
        /\ pc'[c] = "size" => args[c].kind \in {"context", "command"}
    BY <1>1, <1>2, <1>6, <2>1 DEF AfterRecord, LabelsOf, Fields
  <2>3. Locals(c)'
    <3>1. rest'[c] # {} => args[c].kind = "buffers"
      BY <1>2, <2>1
    <3>. QED BY <1>3, <2>2, <3>1 DEF Locals, Saving, Fields
  <2>4. Edited(c)' /\ Placed(c)'
    BY <1>1, <1>3, <2>2 DEF Edited, Placed, Saving, Fields
  <2>5. args[c].kind \in Focusing => moved[c] \/ Here = acted[c].place
    BY <1>1 DEF CommandInv, Focused, Fields
  <2>6. rec \in report'[c]
    BY <1>2
  <2>7. Focused(c)' /\ InFocus(c)'
    BY <1>2, <1>3, <2>2, <2>5, <2>6 DEF Focused, InFocus, Focusing, Fields
  <2>8. args[c].kind \in {"edit", "scratch"} =>
           report[c] = {} /\ acted[c].place = buf[c] /\ seen[c].tick >= acted[c].tick
    BY <1>1 DEF CommandInv, Locals, Edited, Saving, Fields
  <2>9. OnTarget(c)'
    <3>1. rec.place = buf[c] /\ rec.tick = seen[c].tick
      BY <1>1
    <3>2. args[c].kind \in {"edit", "scratch"} =>
             \A r \in report'[c] : r.place = acted[c].place /\ r.tick >= acted[c].tick
      <4>. SUFFICES ASSUME args[c].kind \in {"edit", "scratch"}
                    PROVE  \A r \in report'[c] : r.place = acted[c].place /\ r.tick >= acted[c].tick
        OBVIOUS
      <4>1. report'[c] = {rec}
        BY <1>2, <2>8
      <4>2. rec.place = acted[c].place /\ rec.tick >= acted[c].tick
        BY <2>8, <3>1
      <4>. QED BY <4>1, <4>2
    <3>. QED BY <1>1, <1>2, <1>3, <3>2 DEF OnTarget
  <2>. QED BY <2>3, <2>4, <2>7, <2>9, <1>3, <1>4 DEF CommandInv
<1>. QED BY <1>2, <1>3, <1>5, <1>6

LEMMA ReadFieldStep ==
    ASSUME TypeOK, NEW c \in Commands, CommandInv(c), ReadField(c)
    PROVE  TypeOK' /\ CommandInv(c)' /\ Elsewhere(c)
BY FieldStep, RecordStep


(***************************************************************************)
(* Steps that change the editor.                                          *)
(***************************************************************************)
LEMMA ActStep ==
    ASSUME TypeOK, NEW c \in Commands, LocalStep(c), Versioned, left' = left,
           life' \in [Buffers -> {"none", "unloaded", "loaded", "wiped"}],
           tick' \in [Buffers -> Nat],
           unsaved' \subseteq {b \in Buffers : life'[b] = "loaded"},
           windows' = windows, curwin' = curwin, shown' \in [Windows -> Buffers],
           \A w \in windows : life'[shown'[w]] = "loaded",
           moved' \in [Commands -> BOOLEAN],
           \A d \in Commands \ {c} : Told(d)
    PROVE  TypeOK' /\ Elsewhere(c) /\ args' = args
<1>1. left' \in 0..MaxUser /\ windows' \subseteq Windows /\ curwin' \in windows'
  BY DEF TypeOK
<1>2. TypeOK'
  BY <1>1, LocalTypes DEF TypeOK
<1>. QED BY <1>2, LocalTypes DEF Elsewhere, LocalStep

\* A step of c that leaves the focus alone.
LEMMA FocusKept ==
    ASSUME TypeOK, UNCHANGED focusVars
    PROVE  /\ UNCHANGED <<windows, curwin, shown, moved, Here>>
           /\ windows \subseteq Windows /\ shown \in [Windows -> Buffers]
           /\ moved \in [Commands -> BOOLEAN]
           /\ \A d \in Commands : Told(d)
<1>1. UNCHANGED <<windows, curwin, shown, moved>>
  BY DEF focusVars
<1>2. UNCHANGED Here
  BY <1>1 DEF Here
<1>. QED BY <1>1, <1>2 DEF Told, TypeOK

LEMMA CreateStep ==
    ASSUME TypeOK, NEW c \in Commands, CommandInv(c), Create(c)
    PROVE  TypeOK' /\ CommandInv(c)' /\ Elsewhere(c)
<1>1. args[c].kind = "scratch" /\ pc[c] = "create"
  BY DEF CommandInv, Locals, LabelsOf, Fields, Create
<1>2. UNCHANGED <<windows, curwin, shown, moved, Here, left, args, win, rest, paths, seen, report, acted>>
  BY FocusKept DEF Create
<1>3. PICK b \in Buffers : /\ life[b] = "none"
                           /\ life' = [life EXCEPT ![b] = "loaded"]
                           /\ tick' = [tick EXCEPT ![b] = @ + 1]
                           /\ buf' = [buf EXCEPT ![c] = b]
                           /\ unsaved' = unsaved
  BY DEF Create
<1>4. LocalStep(c) /\ pc'[c] \in {"write", "failed"} /\ buf'[c] = b
  <2>1. buf' = [buf EXCEPT ![c] = buf'[c]] /\ buf'[c] = b
    BY <1>3 DEF TypeOK
  <2>2. pc' = [pc EXCEPT ![c] = pc'[c]] /\ pc'[c] \in Labels /\ pc'[c] \in {"write", "failed"}
    BY DEF Create, Replied, TypeOK, Labels
  <2>. QED BY <1>2, <2>1, <2>2, Kept DEF LocalStep
<1>5. TypeOK' /\ Elsewhere(c) /\ Versioned
  <2>1. /\ tick \in [Buffers -> Nat]
        /\ life \in [Buffers -> {"none", "unloaded", "loaded", "wiped"}]
        /\ unsaved \subseteq {d \in Buffers : life[d] = "loaded"}
        /\ \A w \in windows : life[shown[w]] = "loaded"
    BY DEF TypeOK
  <2>2. /\ tick' \in [Buffers -> Nat]
        /\ life' \in [Buffers -> {"none", "unloaded", "loaded", "wiped"}]
    BY <1>3, <2>1
  <2>3. Versioned
    BY <1>3, <2>1, <2>2 DEF Versioned
  <2>4. /\ unsaved' \subseteq {d \in Buffers : life'[d] = "loaded"}
        /\ \A w \in windows : life'[shown'[w]] = "loaded"
    BY <1>2, <1>3, <2>1, FocusKept DEF Create
  <2>. QED BY <1>2, <1>4, <2>2, <2>3, <2>4, ActStep, FocusKept DEF Create
<1>6. Past(c)' /\ Fresh(c)'
  BY <1>2, <1>5, StillPast
<1>7. CASE pc'[c] = "failed"
  <2>1. InFocus(c)'
    BY <1>1, <1>2, <1>7 DEF InFocus
  <2>. QED BY <1>1, <1>2, <1>5, <1>6, <1>7, <2>1, Failing DEF CommandInv, Locals
<1>8. CASE pc'[c] = "write"
  <2>1. Locals(c)'
    BY <1>1, <1>2, <1>3, <1>4, <1>8 DEF CommandInv, Locals, LabelsOf, Fields, Saving
  <2>2. Edited(c)' /\ Placed(c)' /\ Focused(c)'
    BY <1>1, <1>2, <1>8 DEF Edited, Placed, Focused, Fields
  <2>3. OnTarget(c)' /\ InFocus(c)'
    BY <1>8 DEF OnTarget, InFocus
  <2>. QED BY <1>5, <1>6, <2>1, <2>2, <2>3 DEF CommandInv
<1>. QED BY <1>4, <1>5, <1>7, <1>8

LEMMA AddStep ==
    ASSUME TypeOK, NEW c \in Commands, CommandInv(c), Add(c)
    PROVE  TypeOK' /\ CommandInv(c)' /\ Elsewhere(c)
<1>1. args[c].kind = "open" /\ pc[c] = "add"
  BY DEF CommandInv, Locals, LabelsOf, Fields, Add
<1>2. UNCHANGED <<windows, curwin, shown, moved, Here, left, args, win, rest, seen, report, acted>>
  BY FocusKept DEF Add
<1>3. PICK b \in Buffers : /\ life[b] # "wiped"
                           /\ life' = [life EXCEPT ![b] = IF @ = "none" THEN "unloaded" ELSE @]
                           /\ buf' = [buf EXCEPT ![c] = b]
                           /\ tick' = tick /\ unsaved' = unsaved
  BY DEF Add
<1>4. LocalStep(c) /\ pc'[c] \in {"load", "failed"} /\ buf'[c] = b
  <2>1. buf' = [buf EXCEPT ![c] = buf'[c]] /\ buf'[c] = b
    BY <1>3 DEF TypeOK
  <2>2. pc' = [pc EXCEPT ![c] = pc'[c]] /\ pc'[c] \in Labels /\ pc'[c] \in {"load", "failed"}
    BY DEF Add, Replied, TypeOK, Labels
  <2>3. paths' = [paths EXCEPT ![c] = paths'[c]] /\ paths'[c] \in Nat
    BY <1>1 DEF Add, CommandInv, Locals, TypeOK
  <2>. QED BY <1>2, <2>1, <2>2, <2>3, Kept DEF LocalStep
<1>5. TypeOK' /\ Elsewhere(c) /\ Versioned
  <2>1. /\ tick \in [Buffers -> Nat]
        /\ life \in [Buffers -> {"none", "unloaded", "loaded", "wiped"}]
        /\ unsaved \subseteq {d \in Buffers : life[d] = "loaded"}
        /\ \A w \in windows : life[shown[w]] = "loaded"
    BY DEF TypeOK
  <2>2. /\ tick' \in [Buffers -> Nat]
        /\ life' \in [Buffers -> {"none", "unloaded", "loaded", "wiped"}]
        /\ \A d \in Buffers : /\ life[d] = "loaded" => life'[d] = "loaded"
                              /\ life[d] = "wiped" => life'[d] = "wiped"
    BY <1>3, <2>1
  <2>3. Versioned
    BY <1>3, <2>1, <2>2 DEF Versioned
  <2>4. /\ unsaved' \subseteq {d \in Buffers : life'[d] = "loaded"}
        /\ \A w \in windows : life'[shown'[w]] = "loaded"
    BY <1>2, <1>3, <2>1, <2>2, FocusKept DEF Add
  <2>. QED BY <1>2, <1>4, <2>2, <2>3, <2>4, ActStep, FocusKept DEF Add
<1>6. Past(c)' /\ Fresh(c)'
  BY <1>2, <1>5, StillPast
<1>7. CASE pc'[c] = "failed"
  <2>1. InFocus(c)'
    BY <1>2, <1>5, <1>6, <1>7, FailingInFocus
  <2>. QED BY <1>1, <1>2, <1>5, <1>6, <1>7, <2>1, Failing DEF CommandInv, Locals
<1>8. CASE pc'[c] = "load"
  <2>1. Locals(c)'
    BY <1>1, <1>2, <1>3, <1>4, <1>8 DEF CommandInv, Locals, LabelsOf, Fields, Saving
  <2>2. Edited(c)' /\ Placed(c)'
    BY <1>1, <1>2, <1>8 DEF Edited, Placed, Saving
  <2>3. Focused(c)'
    BY <1>1, <1>2, <1>8 DEF CommandInv, Focused, Focusing, Fields
  <2>4. OnTarget(c)' /\ InFocus(c)'
    BY <1>8 DEF OnTarget, InFocus
  <2>. QED BY <1>5, <1>6, <2>1, <2>2, <2>3, <2>4 DEF CommandInv
<1>. QED BY <1>4, <1>5, <1>7, <1>8


LEMMA LoadStep ==
    ASSUME TypeOK, NEW c \in Commands, CommandInv(c), Load(c)
    PROVE  TypeOK' /\ CommandInv(c)' /\ Elsewhere(c)
<1>1. args[c].kind = "open" /\ pc[c] = "load" /\ buf[c] \in Buffers
  BY DEF CommandInv, Locals, LabelsOf, Fields, Load
<1>2. UNCHANGED <<windows, curwin, shown, moved, Here, left, args, buf, win, rest, paths, seen, report, acted>>
  BY FocusKept DEF Load, localVars
<1>3. /\ LocalStep(c)
      /\ pc'[c] \in {IF report[c] = {} THEN "focus" ELSE "name", "failed"}
  <2>1. /\ pc' = [pc EXCEPT ![c] = pc'[c]] /\ pc'[c] \in Labels
        /\ pc'[c] \in {IF report[c] = {} THEN "focus" ELSE "name", "failed"}
    BY DEF Load, Replied, TypeOK, Labels, Fields
  <2>. QED BY <1>2, <2>1, Kept DEF LocalStep
<1>4. TypeOK' /\ Elsewhere(c) /\ Versioned
  <2>1. Exists(buf[c]) /\ LoadsBuffer(buf[c]) /\ UNCHANGED focusVars
    BY DEF Load
  <2>2. \A w \in windows : life'[shown'[w]] = "loaded"
    BY <1>1, <1>2, <2>1, LoadingEffect DEF TypeOK
  <2>. QED BY <1>1, <1>2, <1>3, <2>1, <2>2, LoadingEffect, ActStep, FocusKept
<1>5. Past(c)' /\ Fresh(c)'
  BY <1>2, <1>4, StillPast
<1>6. CASE pc'[c] = "failed"
  <2>1. InFocus(c)'
    BY <1>2, <1>4, <1>5, <1>6, FailingInFocus
  <2>. QED BY <1>1, <1>2, <1>4, <1>5, <1>6, <2>1, Failing DEF CommandInv, Locals
<1>7. CASE pc'[c] = IF report[c] = {} THEN "focus" ELSE "name"
  <2>1. Locals(c)'
    BY <1>1, <1>2, <1>7 DEF CommandInv, Locals, LabelsOf, Fields, Saving
  <2>2. Edited(c)' /\ Placed(c)'
    BY <1>1, <1>2 DEF Edited, Placed, Saving
  <2>3. Focused(c)'
    BY <1>1, <1>2, <1>7 DEF CommandInv, Focused, Focusing, Fields
  <2>4. OnTarget(c)' /\ InFocus(c)'
    BY <1>7 DEF OnTarget, InFocus
  <2>. QED BY <1>4, <1>5, <2>1, <2>2, <2>3, <2>4 DEF CommandInv
<1>. QED BY <1>3, <1>6, <1>7

LEMMA FocusStep ==
    ASSUME TypeOK, NEW c \in Commands, CommandInv(c), Focus(c)
    PROVE  TypeOK' /\ CommandInv(c)' /\ Elsewhere(c)
<1>1. args[c].kind \in Focusing /\ pc[c] = "focus" /\ buf[c] \in Buffers
  BY DEF CommandInv, Locals, LabelsOf, Fields, Focus, Focusing
<1>2. UNCHANGED <<left, args, buf, win, rest, paths, seen, report>> /\ ShowsBuffer(buf[c], {c})
  BY DEF Focus
<1>3. moved'[c] = moved[c] /\ Here' = buf[c] /\ \A d \in Commands \ {c} : Told(d)
  BY <1>1, <1>2, ShowingEffect
<1>4. /\ LocalStep(c) /\ pc'[c] \in {"name", "failed"}
      /\ \/ acted'[c] = [place |-> buf[c], tick |-> 0] /\ acted[c].place = None
         \/ acted'[c] = acted[c] /\ acted[c].place # None
  <2>1. acted' = [acted EXCEPT ![c] = IF @.place = None THEN [place |-> buf[c], tick |-> 0] ELSE @]
    BY DEF Focus
  <2>2. acted \in [Commands -> [place : Buffers \cup Windows \cup {None}, tick : Nat]]
    BY DEF TypeOK
  <2>3. /\ acted' = [acted EXCEPT ![c] = acted'[c]]
        /\ acted'[c] = IF acted[c].place = None THEN [place |-> buf[c], tick |-> 0] ELSE acted[c]
    BY <2>1, <2>2
  <2>4. [place |-> buf[c], tick |-> 0] \in [place : Buffers \cup Windows \cup {None}, tick : Nat]
    BY <1>1
  <2>5. acted'[c] \in [place : Buffers \cup Windows \cup {None}, tick : Nat]
    BY <2>2, <2>3, <2>4
  <2>6. pc' = [pc EXCEPT ![c] = pc'[c]] /\ pc'[c] \in Labels /\ pc'[c] \in {"name", "failed"}
    BY DEF Focus, Replied, TypeOK, Labels, Fields
  <2>7. LocalStep(c)
    BY <1>2, <2>3, <2>5, <2>6, Kept DEF LocalStep
  <2>. QED BY <2>3, <2>6, <2>7
<1>5. TypeOK' /\ Elsewhere(c) /\ Versioned
  BY <1>1, <1>2, <1>3, <1>4, ShowingEffect, ActStep
<1>6. Past(c)' /\ Fresh(c)'
  <2>1. Fresh(c)' /\ \A r \in report'[c] : r.place \in Buffers => r.tick <= tick'[r.place]
    BY <1>2, <1>5, StillFresh DEF Fresh
  <2>2. acted'[c].place \in Buffers => acted'[c].tick <= tick'[acted'[c].place]
    <3>1. CASE acted'[c] = [place |-> buf[c], tick |-> 0]
      <4>1. tick'[buf[c]] \in Nat
        BY <1>1, <1>5 DEF TypeOK
      <4>2. 0 <= tick'[buf[c]]
        BY <4>1
      <4>3. acted'[c].tick = 0 /\ acted'[c].place = buf[c]
        BY <3>1
      <4>. QED BY <4>2, <4>3
    <3>2. CASE acted'[c] = acted[c]
      <4>. SUFFICES ASSUME acted[c].place \in Buffers PROVE acted[c].tick <= tick'[acted[c].place]
        BY <3>2
      <4>1. /\ acted[c].tick \in Nat /\ tick[acted[c].place] \in Nat
            /\ tick'[acted[c].place] \in Nat
        BY <1>5 DEF TypeOK
      <4>2. acted[c].tick <= tick[acted[c].place] /\ tick[acted[c].place] <= tick'[acted[c].place]
        BY <1>5 DEF CommandInv, Past, Versioned
      <4>. QED BY <4>1, <4>2
    <3>. QED BY <1>4, <3>1, <3>2
  <2>. QED BY <2>1, <2>2 DEF Past
<1>7. acted'[c].place = buf[c]
  <2>1. args[c].kind = "scratch" => acted[c].place = buf[c] /\ acted'[c] = acted[c]
    <3>1. args[c].kind = "scratch" => acted[c].place = buf[c]
      BY <1>1 DEF CommandInv, Edited, Saving
    <3>. QED BY <1>1, <1>4, <3>1, Places
  <2>2. args[c].kind \in {"open", "buffer use"} => acted'[c] = [place |-> buf[c], tick |-> 0]
    <3>1. args[c].kind \in {"open", "buffer use"} => acted[c] = Nowhere
      BY <1>1 DEF CommandInv, Focused, Focusing
    <3>2. args[c].kind \in {"open", "buffer use"} => acted[c].place = None
      <4>1. Nowhere.place = None
        BY DEF Nowhere
      <4>. QED BY <3>1, <4>1
    <3>. QED BY <1>4, <3>2
  <2>3. CASE args[c].kind = "scratch"
    BY <2>1, <2>3
  <2>4. CASE args[c].kind \in {"open", "buffer use"}
    <3>1. acted'[c] = [place |-> buf[c], tick |-> 0]
      BY <2>2, <2>4
    <3>. QED BY <3>1
  <2>. QED BY <1>1, <2>3, <2>4 DEF Focusing
<1>8. CASE pc'[c] = "failed"
  <2>1. InFocus(c)'
    BY <1>3, <1>7 DEF InFocus
  <2>. QED BY <1>1, <1>2, <1>5, <1>6, <1>8, <2>1, Failing DEF CommandInv, Locals, Focusing
<1>9. CASE pc'[c] = "name"
  <2>1. Locals(c)'
    BY <1>1, <1>2, <1>9 DEF CommandInv, Locals, LabelsOf, Fields, Saving, Focusing
  <2>2. Edited(c)' /\ Placed(c)'
    BY <1>1, <1>2, <1>7, <1>9 DEF Edited, Placed, Saving, Focusing
  <2>3. Focused(c)'
    BY <1>2, <1>3, <1>7, <1>9 DEF Focused, Fields
  <2>4. OnTarget(c)' /\ InFocus(c)'
    BY <1>9 DEF OnTarget, InFocus
  <2>. QED BY <1>5, <1>6, <2>1, <2>2, <2>3, <2>4 DEF CommandInv
<1>. QED BY <1>4, <1>8, <1>9

LEMMA WriteStep ==
    ASSUME TypeOK, NEW c \in Commands, CommandInv(c), Write(c)
    PROVE  TypeOK' /\ CommandInv(c)' /\ Elsewhere(c)
<1>. DEFINE b == Written(c)
<1>1. args[c].kind \in Saving /\ pc[c] = "write" /\ buf[c] \in Buffers
  BY DEF CommandInv, Locals, LabelsOf, Fields, Write, Saving
<1>2. UNCHANGED <<windows, curwin, shown, moved, Here, left, args, buf, win, rest, paths, seen, report>>
  BY FocusKept DEF Write
<1>3. b \in Buffers /\ Exists(b) /\ EditsBuffer(b)
  <2>1. Here \in Buffers
    BY DEF Here, TypeOK
  <2>2. b \in Buffers
    BY <1>1, <2>1 DEF Written
  <2>. QED BY <2>2 DEF Write
<1>4. tick'[b] = TickAfterEdit(b) /\ TickAfterEdit(b) \in Nat
  BY <1>3, EditingEffect
<1>5. /\ LocalStep(c) /\ pc'[c] \in {"name", "lines", "dress", "focus", "failed"}
      /\ pc'[c] # "failed" => pc'[c] \in AfterWrite(args[c])
      /\ acted'[c].place = b /\ acted'[c].tick = TickAfterEdit(b)
  <2>1. acted' = [acted EXCEPT ![c] = [place |-> b, tick |-> TickAfterEdit(b)]]
    BY DEF Write
  <2>2. acted' = [acted EXCEPT ![c] = acted'[c]] /\ acted'[c] = [place |-> b, tick |-> TickAfterEdit(b)]
    BY <2>1 DEF TypeOK
  <2>3. acted'[c] \in [place : Buffers \cup Windows \cup {None}, tick : Nat]
    BY <1>3, <1>4, <2>2
  <2>4. acted'[c].place = b /\ acted'[c].tick = TickAfterEdit(b)
    BY <2>2
  <2>5. PICK next \in AfterWrite(args[c]) : Replied(c, next)
    BY DEF Write
  <2>6. next \in {"name", "lines", "dress", "focus"}
    BY DEF AfterWrite
  <2>7. pc' = [pc EXCEPT ![c] = pc'[c]] /\ pc'[c] \in Labels /\ pc'[c] \in {next, "failed"}
    BY <2>5, <2>6 DEF Replied, TypeOK, Labels, Fields
  <2>8. LocalStep(c)
    BY <1>2, <2>2, <2>3, <2>7, Kept DEF LocalStep
  <2>. QED BY <2>4, <2>6, <2>7, <2>8
<1>6. TypeOK' /\ Elsewhere(c) /\ Versioned
  <2>1. UNCHANGED focusVars
    BY DEF Write
  <2>2. \A w \in windows : life'[shown'[w]] = "loaded"
    BY <1>2, <1>3, EditingEffect DEF TypeOK
  <2>. QED BY <1>2, <1>3, <1>5, <2>1, <2>2, EditingEffect, ActStep, FocusKept
<1>7. Past(c)' /\ Fresh(c)'
  <2>1. Fresh(c)' /\ \A r \in report'[c] : r.place \in Buffers => r.tick <= tick'[r.place]
    BY <1>2, <1>6, StillFresh DEF Fresh
  <2>2. acted'[c].tick <= tick'[acted'[c].place]
    <3>1. TickAfterEdit(b) <= TickAfterEdit(b)
      BY <1>4
    <3>. QED BY <1>4, <1>5, <3>1
  <2>. QED BY <2>1, <2>2 DEF Past
<1>8. CASE pc'[c] = "failed"
  <2>1. InFocus(c)'
    BY <1>1, <1>2, <1>8 DEF InFocus, Saving
  <2>. QED BY <1>1, <1>2, <1>6, <1>7, <1>8, <2>1, Failing DEF CommandInv, Locals, Saving
<1>9. CASE pc'[c] # "failed"
  <2>1. \/ args[c].kind = "edit" /\ pc'[c] = "name"
        \/ args[c].kind = "replace" /\ pc'[c] = "lines"
        \/ args[c].kind = "scratch" /\ pc'[c] \in {"dress", "focus"}
    BY <1>1, <1>5, <1>9 DEF AfterWrite, Saving
  <2>2. Locals(c)'
    BY <1>1, <1>2, <2>1 DEF CommandInv, Locals, LabelsOf, Fields, Saving
  <2>3. b = buf[c] \/ (moved[c] /\ args[c].kind = "replace" /\ args[c].selection)
    <3>1. CASE args[c].selection /\ args[c].kind = "replace"
      <4>1. b = Here
        BY <3>1 DEF Written
      <4>2. moved[c] \/ buf[c] = Here
        BY <1>1, <3>1 DEF CommandInv, Edited
      <4>. QED BY <3>1, <4>1, <4>2
    <3>2. CASE ~(args[c].selection /\ args[c].kind = "replace")
      BY <3>2 DEF Written
    <3>. QED BY <3>1, <3>2
  <2>4. Edited(c)'
    <3>1. acted'[c].place = buf'[c] \/ (moved'[c] /\ args'[c].kind = "replace" /\ args'[c].selection)
      BY <1>2, <1>5, <2>3
    <3>2. pc'[c] # "write" /\ pc'[c] # "modified"
      BY <2>1
    <3>. QED BY <3>1, <3>2 DEF Edited
  <2>5. Placed(c)'
    BY <1>2, <2>1 DEF Placed
  <2>6. Focused(c)'
    BY <1>2, <2>1 DEF Focused, Focusing, Fields
  <2>7. OnTarget(c)' /\ InFocus(c)'
    BY <2>1 DEF OnTarget, InFocus
  <2>. QED BY <1>6, <1>7, <2>2, <2>4, <2>5, <2>6, <2>7 DEF CommandInv
<1>. QED BY <1>8, <1>9

LEMMA ExStep ==
    ASSUME TypeOK, NEW c \in Commands, CommandInv(c), Ex(c)
    PROVE  TypeOK' /\ CommandInv(c)' /\ Elsewhere(c)
<1>1. args[c].kind \in {"command", "lua"} /\ pc[c] = "ex"
  <2>1. args[c].kind \in Kinds
    BY ArgumentTypes
  <2>. QED BY <2>1 DEF CommandInv, Locals, LabelsOf, Fields, Ex, Kinds
<1>2. UNCHANGED <<left, args, buf, win, rest, paths, seen, report, acted>>
  BY DEF Ex, localVars
<1>3. LocalStep(c) /\ pc'[c] \in {IF args[c].kind = "command" THEN "buf" ELSE "done", "failed"}
  <2>1. /\ pc' = [pc EXCEPT ![c] = pc'[c]] /\ pc'[c] \in Labels
        /\ pc'[c] \in {IF args[c].kind = "command" THEN "buf" ELSE "done", "failed"}
    BY DEF Ex, Replied, TypeOK, Labels
  <2>. QED BY <1>2, <2>1, Kept DEF LocalStep
<1>4. TypeOK' /\ Elsewhere(c) /\ Versioned
  <2>1. CASE UNCHANGED <<bufferVars, focusVars>>
    <3>1. UNCHANGED <<life, tick, unsaved>> /\ UNCHANGED focusVars
      BY <2>1 DEF bufferVars
    <3>2. /\ tick \in [Buffers -> Nat]
          /\ life \in [Buffers -> {"none", "unloaded", "loaded", "wiped"}]
          /\ unsaved \subseteq {b \in Buffers : life[b] = "loaded"}
          /\ \A w \in windows : life[shown[w]] = "loaded"
      BY DEF TypeOK
    <3>3. Versioned
      BY <3>1, <3>2 DEF Versioned
    <3>. QED BY <1>2, <1>3, <3>1, <3>2, <3>3, ActStep, FocusKept
  <2>2. CASE EditsBuffer(Here) /\ UNCHANGED focusVars
    <3>1. Here \in Buffers /\ Exists(Here)
      BY DEF Here, TypeOK, Exists
    <3>2. \A w \in windows : life'[shown'[w]] = "loaded"
      BY <2>2, <3>1, EditingEffect, FocusKept DEF TypeOK
    <3>. QED BY <1>2, <1>3, <2>2, <3>1, <3>2, EditingEffect, ActStep, FocusKept
  <2>3. CASE \E b \in Buffers : ShowsBuffer(b, {c})
    <3>. PICK b \in Buffers : ShowsBuffer(b, {c})
      BY <2>3
    <3>1. \A d \in Commands \ {c} : Told(d)
      BY ShowingEffect
    <3>. QED BY <1>2, <1>3, <3>1, ShowingEffect, ActStep
  <2>. QED BY <2>1, <2>2, <2>3 DEF Ex
<1>5. Past(c)' /\ Fresh(c)'
  BY <1>2, <1>4, StillPast
<1>6. CASE pc'[c] = "failed"
  <2>1. InFocus(c)'
    BY <1>1, <1>2, <1>6 DEF InFocus
  <2>. QED BY <1>1, <1>2, <1>4, <1>5, <1>6, <2>1, Failing DEF CommandInv, Locals
<1>7. CASE pc'[c] = IF args[c].kind = "command" THEN "buf" ELSE "done"
  <2>1. Locals(c)'
    BY <1>1, <1>2, <1>7 DEF CommandInv, Locals, LabelsOf, Fields, Saving
  <2>2. Edited(c)' /\ Placed(c)' /\ Focused(c)'
    BY <1>1, <1>2 DEF Edited, Placed, Focused, Saving, Focusing
  <2>3. OnTarget(c)' /\ InFocus(c)'
    BY <1>1, <1>2 DEF OnTarget, InFocus
  <2>. QED BY <1>4, <1>5, <2>1, <2>2, <2>3 DEF CommandInv
<1>. QED BY <1>3, <1>6, <1>7


(***************************************************************************)
(* Queries.                                                                *)
(***************************************************************************)

\* A query changes nothing but its own locals, and what it reports is no later than
\* the buffer.
LEMMA QueryFrame ==
    ASSUME TypeOK, NEW c \in Commands, CommandInv(c), OnlyReads, LocalStep(c),
           args[c].kind \in {"node", "query"},
           pc'[c] \in LabelsOf(args[c].kind) \ {"start"},
           rest'[c] = rest[c], acted'[c] = acted[c],
           \A r \in report'[c] \ report[c] :
               r.what = "answer" /\ (r.place \in Buffers => r.tick <= tick[r.place])
    PROVE  TypeOK' /\ CommandInv(c)' /\ Elsewhere(c)
<1>1. /\ TypeOK' /\ Elsewhere(c) /\ Versioned
      /\ UNCHANGED <<life, tick, unsaved, windows, shown, curwin, moved, left, args, Here>>
  BY ReadStep
<1>2. pc'[c] \in {"node", "query", "await", "done", "failed"}
  BY DEF LabelsOf
<1>3. Locals(c)'
  BY <1>1, <1>2 DEF CommandInv, Locals, Fields, Saving
<1>4. Past(c)'
  BY <1>1 DEF CommandInv, Past
<1>5. Fresh(c)'
  BY <1>1 DEF CommandInv, Fresh
<1>6. Edited(c)' /\ Placed(c)' /\ Focused(c)'
  BY <1>1 DEF Edited, Placed, Focused, Saving, Focusing
<1>7. OnTarget(c)' /\ InFocus(c)'
  BY <1>1 DEF OnTarget, InFocus
<1>. QED BY <1>1, <1>3, <1>4, <1>5, <1>6, <1>7 DEF CommandInv

\* The buffer a query is about is one of the editor's.
LEMMA QueriedIsThere ==
    ASSUME TypeOK, NEW c \in Commands
    PROVE  Queried(c) \in Buffers /\ tick[Queried(c)] \in Nat
<1>1. args[c] \in Arguments /\ args[c].buffer \in Buffers \cup {None}
  <2>1. args[c] \in Arguments
    BY DEF TypeOK
  <2>2. Arguments \subseteq [kind : Kinds, buffer : Buffers \cup {None},
                             selection : BOOLEAN, paths : Nat]
    BY CommandsAssumption
  <2>. QED BY <2>1, <2>2
<1>2. Here \in Buffers
  BY DEF Here, TypeOK
<1>3. Queried(c) \in Buffers
  BY <1>1, <1>2 DEF Queried
<1>. QED BY <1>3 DEF TypeOK

LEMMA NodeStep ==
    ASSUME TypeOK, NEW c \in Commands, CommandInv(c), Node(c)
    PROVE  TypeOK' /\ CommandInv(c)' /\ Elsewhere(c)
<1>1. args[c].kind = "node"
  BY DEF CommandInv, Locals, LabelsOf, Fields, Node
<1> DEFINE entry == [place |-> Queried(c), tick |-> tick[Queried(c)], what |-> "answer"]
<1>2. Queried(c) \in Buffers /\ entry \in Entries
  BY QueriedIsThere DEF Entries
<1>3. report' = [report EXCEPT ![c] = @ \cup {entry}]
  BY DEF Node, Reports
<1>. HIDE DEF entry
<1>4. /\ report'[c] = report[c] \cup {entry}
      /\ report' = [report EXCEPT ![c] = report'[c]] /\ report'[c] \in SUBSET Entries
  BY <1>2, <1>3 DEF TypeOK
<1>5. /\ pc' = [pc EXCEPT ![c] = pc'[c]] /\ pc'[c] \in Labels
      /\ pc'[c] \in {"done", "failed"}
  BY DEF Node, Replied, TypeOK, Labels
<1>6. /\ buf' = [buf EXCEPT ![c] = buf'[c]] /\ buf'[c] \in Buffers \cup {None}
  BY <1>2 DEF Node, TypeOK
<1>7. LocalStep(c)
  BY <1>4, <1>5, <1>6, Kept DEF Node, LocalStep, OnlyReads
<1>8. entry.what = "answer" /\ entry.tick <= tick[entry.place]
  BY QueriedIsThere DEF entry
<1>9. \A r \in report'[c] \ report[c] : r = entry
  BY <1>4
<1>10. pc'[c] \in LabelsOf(args[c].kind) \ {"start"}
  BY <1>1, <1>5 DEF LabelsOf
<1>. QED BY <1>1, <1>7, <1>8, <1>9, <1>10, QueryFrame DEF Node

LEMMA AskStep ==
    ASSUME TypeOK, NEW c \in Commands, CommandInv(c), Ask(c)
    PROVE  TypeOK' /\ CommandInv(c)' /\ Elsewhere(c)
<1>1. args[c].kind = "query"
  BY DEF CommandInv, Locals, LabelsOf, Fields, Ask
<1>2. Queried(c) \in Buffers /\ tick[Queried(c)] \in Nat
  BY QueriedIsThere
<1>3. /\ pc' = [pc EXCEPT ![c] = pc'[c]] /\ pc'[c] \in Labels /\ pc'[c] = "await"
  BY DEF Ask, TypeOK, Labels
<1>4. /\ buf' = [buf EXCEPT ![c] = buf'[c]] /\ buf'[c] \in Buffers \cup {None}
  BY <1>2 DEF Ask, TypeOK
<1>5. /\ seen' = [seen EXCEPT ![c] = seen'[c]]
      /\ seen'[c] \in [tick : Nat, what : {"saved", "unsaved"}]
  <2>1. seen \in [Commands -> [tick : Nat, what : {"saved", "unsaved"}]]
    BY DEF TypeOK
  <2>2. seen' = [seen EXCEPT ![c].tick = tick[Queried(c)]]
    BY DEF Ask
  <2>. QED BY <1>2, <2>1, <2>2
<1>6. LocalStep(c)
  BY <1>3, <1>4, <1>5, Kept DEF Ask, LocalStep, OnlyReads
<1>7. pc'[c] \in LabelsOf(args[c].kind) \ {"start"}
  BY <1>1, <1>3 DEF LabelsOf
<1>. QED BY <1>1, <1>6, <1>7, QueryFrame DEF Ask

LEMMA AnswerStep ==
    ASSUME TypeOK, NEW c \in Commands, CommandInv(c), QueryInv(c), Answer(c)
    PROVE  /\ TypeOK' /\ CommandInv(c)' /\ Elsewhere(c)
           /\ QueryInv(c)'
<1>1. args[c].kind = "query" /\ pc[c] = "await"
  BY DEF CommandInv, Locals, LabelsOf, Fields, Answer
<1>2. buf[c] \in Buffers /\ tick[buf[c]] \in Nat /\ seen[c].tick \in Nat
  BY <1>1 DEF QueryInv, Awaited, TypeOK
<1>3. PICK version \in seen[c].tick .. tick[buf[c]] : Reports(c, buf[c], version, "answer")
  BY DEF Answer
<1>4. version \in Nat /\ version >= seen[c].tick /\ version <= tick[buf[c]]
  BY <1>2
<1> DEFINE entry == [place |-> buf[c], tick |-> version, what |-> "answer"]
<1>5. entry \in Entries
  BY <1>2, <1>4 DEF Entries
<1>6. report' = [report EXCEPT ![c] = @ \cup {entry}]
  BY <1>3 DEF Reports
<1>7. entry.what = "answer" /\ entry.tick = version /\ entry.place = buf[c]
  OBVIOUS
<1>. HIDE DEF entry
<1>8. /\ report'[c] = report[c] \cup {entry}
      /\ report' = [report EXCEPT ![c] = report'[c]] /\ report'[c] \in SUBSET Entries
  BY <1>5, <1>6 DEF TypeOK
<1>9. LocalStep(c)
  BY <1>8, Kept DEF Answer, LocalStep, OnlyReads
<1>10. \A r \in report'[c] \ report[c] : r = entry
  BY <1>8
<1>11. pc'[c] \in LabelsOf(args[c].kind) \ {"start"} /\ pc'[c] = "await"
  BY <1>1 DEF LabelsOf, Answer
<1>12. TypeOK' /\ CommandInv(c)' /\ Elsewhere(c)
  BY <1>1, <1>4, <1>7, <1>9, <1>10, <1>11, QueryFrame DEF Answer
<1>13. UNCHANGED <<buf, seen, args>>
  BY DEF Answer, OnlyReads
<1>14. Awaited(c)'
  BY <1>1, <1>2, <1>4, <1>7, <1>8, <1>11, <1>13 DEF QueryInv, Awaited
<1>15. Agreed(c)'
  BY <1>11 DEF Agreed
<1>. QED BY <1>12, <1>14, <1>15 DEF QueryInv

LEMMA ReturnStep ==
    ASSUME TypeOK, NEW c \in Commands, CommandInv(c), QueryInv(c), Return(c)
    PROVE  /\ TypeOK' /\ CommandInv(c)' /\ Elsewhere(c)
           /\ QueryInv(c)'
<1>1. args[c].kind = "query" /\ pc[c] = "await"
  BY DEF CommandInv, Locals, LabelsOf, Fields, Return
<1>2. /\ pc' = [pc EXCEPT ![c] = pc'[c]] /\ pc'[c] \in Labels
      /\ pc'[c] \in {"done", "failed"}
  BY DEF Return, Replied, TypeOK, Labels
<1>3. LocalStep(c)
  BY <1>2, Kept DEF Return, LocalStep, OnlyReads, localVars
<1>4. pc'[c] \in LabelsOf(args[c].kind) \ {"start"}
  BY <1>1, <1>2 DEF LabelsOf
<1>5. UNCHANGED <<buf, seen, report, args, rest, acted>>
  BY DEF Return, OnlyReads, localVars
<1>6. TypeOK' /\ CommandInv(c)' /\ Elsewhere(c)
  BY <1>1, <1>3, <1>4, <1>5, QueryFrame DEF Return
<1>7. ASSUME NEW r \in report[c]
      PROVE  r.tick = seen[c].tick
  <2>1. r.place = buf[c] /\ r.tick >= seen[c].tick /\ buf[c] \in Buffers
    BY <1>1 DEF QueryInv, Awaited
  <2>2. r.tick <= tick[buf[c]]
    BY <2>1 DEF CommandInv, Past
  <2>3. tick[buf[c]] = seen[c].tick
    BY DEF Return
  <2>4. r.tick \in Nat /\ seen[c].tick \in Nat
    BY DEF TypeOK, Entries
  <2>. QED BY <2>1, <2>2, <2>3, <2>4
<1>8. Awaited(c)'
  BY <1>2 DEF Awaited
<1>9. Agreed(c)'
  BY <1>5, <1>7 DEF Agreed
<1>. QED BY <1>6, <1>8, <1>9 DEF QueryInv

\* No other step is one of a query that waits.
LEMMA QueryStep ==
    ASSUME TypeOK, NEW c \in Commands, CommandInv(c), QueryInv(c), Command(c),
           ~Answer(c), ~Return(c)
    PROVE  QueryInv(c)'
<1>1. CASE args[c].kind # "query"
  <2>1. args' = args
    BY Reading DEF Command, Start, CallFails, GetBuf, GetWin, SetCursor, GetCursor, List, Create,
       Add, Load, Focus, Write, Dress, GetLines, ReadField, ReadSize, Ex, Node, Ask, OnlyReads
  <2>. QED BY <1>1, <2>1 DEF QueryInv, Awaited, Agreed
<1>2. CASE args[c].kind = "query"
  <2>1. pc[c] \in {"start", "query", "await", "done", "failed"}
    BY <1>2 DEF CommandInv, Locals, LabelsOf
  <2>2. Start(c) \/ CallFails(c) \/ Ask(c)
    BY <2>1 DEF Command, GetBuf, GetWin, SetCursor, GetCursor, List, Create,
       Add, Load, Focus, Write, Dress, GetLines, ReadField, ReadSize, Ex, Node, Fields
  <2>3. CASE Start(c)
    <3>1. /\ pc[c] = "start" /\ report'[c] = report[c]
          /\ pc'[c] \in {"failed", Entry(args[c])} /\ args' = args
      BY <2>3 DEF Start, TypeOK, OnlyReads
    <3>2. Entry(args[c]) = "query"
      BY <1>2 DEF Entry
    <3>. QED BY <1>2, <3>1, <3>2 DEF QueryInv, Awaited, Agreed
  <2>4. CASE CallFails(c)
    <3>1. pc'[c] = "failed"
      BY <2>4 DEF CallFails, TypeOK
    <3>. QED BY <3>1 DEF QueryInv, Awaited, Agreed
  <2>5. CASE Ask(c)
    <3>1. /\ pc[c] = "query" /\ pc'[c] = "await" /\ report'[c] = report[c]
          /\ buf'[c] = Queried(c) /\ Queried(c) \in Buffers /\ args' = args
      BY <2>5, QueriedIsThere DEF Ask, TypeOK, OnlyReads
    <3>2. report[c] = {}
      BY <1>2, <3>1 DEF QueryInv, Awaited
    <3>. QED BY <3>1, <3>2 DEF QueryInv, Awaited, Agreed
  <2>. QED BY <2>2, <2>3, <2>4, <2>5
<1>. QED BY <1>1, <1>2

LEMMA QueryBystander ==
    ASSUME NEW d \in Commands, QueryInv(d), Untouched(d)
    PROVE  QueryInv(d)'
BY DEF QueryInv, Awaited, Agreed, Untouched

(***************************************************************************)
(* The theorems.                                                           *)
(***************************************************************************)
LEMMA InitInv == Init => IInv
<1>. SUFFICES ASSUME Init PROVE IInv
  OBVIOUS
<1>1. TypeOK
  <2>1. \A w \in Windows : shown[w] \in Buffers /\ life[shown[w]] = "loaded"
    BY DEF Init
  <2>2. left \in 0..MaxUser
    <3>1. left = MaxUser /\ MaxUser \in Nat
      BY CommandsAssumption DEF Init
    <3>2. \A n \in Nat : n \in 0..n
      OBVIOUS
    <3>. QED BY <3>1, <3>2
  <2>3. acted \in [Commands -> [place : Buffers \cup Windows \cup {None}, tick : Nat]]
    BY DEF Init, Nowhere
  <2>. QED BY <2>1, <2>2, <2>3 DEF Init, TypeOK, Labels, Entries
<1>2. ASSUME NEW c \in Commands PROVE CommandInv(c)
  <2>1. /\ pc[c] = "start" /\ report[c] = {} /\ acted[c] = Nowhere /\ rest[c] = {}
        /\ ~moved[c] /\ acted[c].place = None /\ acted[c].tick = 0
    BY <1>2 DEF Init, Nowhere
  <2>2. Locals(c)
    BY <2>1 DEF Locals, LabelsOf, Fields
  <2>3. Past(c) /\ Fresh(c)
    BY <2>1, Places DEF Past, Fresh
  <2>4. Edited(c) /\ Placed(c) /\ Focused(c)
    BY <2>1 DEF Edited, Placed, Focused, Fields
  <2>. QED BY <2>1, <2>2, <2>3, <2>4 DEF CommandInv, OnTarget, InFocus
<1>3. ASSUME NEW c \in Commands PROVE QueryInv(c)
  BY <1>3 DEF Init, QueryInv, Awaited, Agreed
<1>. QED BY <1>1, <1>2, <1>3 DEF IInv

LEMMA CommandStep ==
    ASSUME TypeOK, NEW c \in Commands, CommandInv(c), QueryInv(c), Command(c)
    PROVE  TypeOK' /\ CommandInv(c)' /\ QueryInv(c)' /\ Elsewhere(c)
<1>1. TypeOK' /\ CommandInv(c)' /\ Elsewhere(c)
  BY StartStep, FailsStep, GetBufStep, GetWinStep, SetCursorStep, GetCursorStep,
     ListStep, CreateStep, AddStep, LoadStep, FocusStep, WriteStep, DressStep,
     GetLinesStep, ReadFieldStep, ReadSizeStep, ExStep, NodeStep, AskStep, AnswerStep,
     ReturnStep
     DEF Command
<1>2. QueryInv(c)'
  BY QueryStep, AnswerStep, ReturnStep
<1>. QED BY <1>1, <1>2

LEMMA NextInv == IInv /\ [Next]_vars => IInv'
<1>. SUFFICES ASSUME IInv, [Next]_vars PROVE IInv'
  OBVIOUS
<1>1. TypeOK /\ \A c \in Commands : CommandInv(c) /\ QueryInv(c)
  BY DEF IInv
<1>2. CASE User
  <2>1. TypeOK' /\ Versioned /\ \A d \in Commands : Untouched(d) /\ Told(d)
    BY <1>1, <1>2, UserStep
  <2>. QED BY <1>1, <2>1, Bystander, QueryBystander DEF IInv
<1>3. CASE \E c \in Commands : Command(c)
  <2>. PICK c \in Commands : Command(c)
    BY <1>3
  <2>1. TypeOK' /\ CommandInv(c)' /\ QueryInv(c)' /\ Elsewhere(c)
    BY <1>1, CommandStep
  <2>2. ASSUME NEW d \in Commands \ {c} PROVE CommandInv(d)' /\ QueryInv(d)'
    BY <1>1, <2>1, <2>2, Bystander, QueryBystander DEF Elsewhere
  <2>. QED BY <2>1, <2>2 DEF IInv
<1>4. CASE UNCHANGED vars
  <2>1. /\ UNCHANGED <<life, tick, unsaved, windows, shown, curwin, moved, left,
                       args, pc, buf, win, rest, paths, seen, report, acted>>
    BY <1>4 DEF vars, bufferVars, focusVars, localVars
  <2>2. Here' = Here
    BY <2>1 DEF Here
  <2>3. TypeOK'
    BY <1>1, <2>1 DEF TypeOK
  <2>4. Versioned /\ \A d \in Commands : Untouched(d) /\ Told(d)
    BY <1>1, <2>1, <2>2 DEF TypeOK, Versioned, Untouched, Told
  <2>. QED BY <1>1, <2>3, <2>4, Bystander, QueryBystander DEF IInv
<1>. QED BY <1>2, <1>3, <1>4 DEF Next

\* The inductive invariant of every run of any number of commands beside a user
\* (every command of commands.rs modelled here).
THEOREM Invariance == Spec => []IInv
BY InitInv, NextInv, PTL DEF Spec

\* Every variable keeps its type, and the current window shows a loaded buffer.
THEOREM TypeCorrect == Spec => []TypeOK
<1>1. IInv => TypeOK
  BY DEF IInv
<1>. QED BY <1>1, Invariance, PTL

\* buffer_record: as long as the buffer has the changedtick of a record, it is
\* modified if and only if the record says so.
THEOREM RecordsAreFresh == Spec => []FreshRecord
<1>1. IInv => FreshRecord
  BY DEF IInv, CommandInv, FreshRecord
<1>. QED BY <1>1, Invariance, PTL

\* edit, replace, scratch and cursor set tell of the place they changed, at a
\* version no older than the change, unless the code asks where it is a second
\* time and someone else has moved the focus meanwhile.
THEOREM TellsOfTarget == Spec => []ReportsOnTarget
<1>1. IInv => ReportsOnTarget
  BY DEF IInv, CommandInv, ReportsOnTarget
<1>. QED BY <1>1, Invariance, PTL

\* buffer use, open and scratch leave the focus where they put it, the first two
\* also when they fail after that, unless someone else moves it.
THEOREM FocusStays == Spec => []EndsInFocus
<1>1. IInv => EndsInFocus
  BY DEF IInv, CommandInv, EndsInFocus
<1>. QED BY <1>1, Invariance, PTL

\* query.lua: what a query returns is about the version it names, whatever changes the
\* buffer while it waits.
THEOREM QueriesAgree == Spec => []AnswersAgree
<1>1. IInv => AnswersAgree
  BY DEF IInv, QueryInv, AnswersAgree
<1>. QED BY <1>1, Invariance, PTL

=============================================================================
