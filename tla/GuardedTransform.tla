-------------------------- MODULE GuardedTransform --------------------------
(***************************************************************************)
(* `nuvim transform` (commands/transform.rs, transform-capture.lua and     *)
(* transform-apply.lua): capture text in one editor call, run a closure    *)
(* over it in Nushell, apply the result in a second call guarded by        *)
(* changedtick.  Several commands run at once over connections of their    *)
(* own, while the user edits, unloads, reloads and switches buffers.       *)
(*                                                                         *)
(* The editor runs one request at a time, so each Lua chunk is one action  *)
(* of the editor.  Sending a request, the editor running it and the        *)
(* command receiving the response are separate steps: the command may give *)
(* up on a response (the RPC read timeout) while its request still waits.  *)
(*                                                                         *)
(* The text of a row is the set of the edits it has been built from: user  *)
(* edits and commands.  A transform replaces the rows it captured with the *)
(* closure's output, built from what was captured and from the command.    *)
(***************************************************************************)
EXTENDS Naturals, FiniteSets

CONSTANTS
    Commands,   \* running `nuvim transform` commands
    Buffers,    \* buffer handles
    Rows,       \* rows of each buffer
    Edits,      \* edits the user may make, each at most once
    Current,    \* the target "current buffer" (--buffer absent or 0)
    Arguments,  \* the flags a command may be run with
    MaxTick     \* bound of the model on changedtick, for the user's actions

ASSUME TransformAssumption ==
    /\ Current \notin Buffers
    /\ Commands \cap Edits = {}
    /\ Arguments \subseteq [target : Buffers \cup {Current},
                             span : SUBSET Rows, preview : BOOLEAN]
    /\ MaxTick \in Nat

VARIABLES
    text,       \* text[b][r]: edits the row r of buffer b is built from
    tick,       \* b:changedtick of each buffer
    loaded,     \* nvim_buf_is_loaded
    modifiable, \* vim.bo[b].modifiable
    current,    \* nvim_get_current_buf
    unmade,     \* user edits not made yet
    args,       \* each command's --buffer, its rows (all of them, a range or
                \* the selection) and --preview
    pc,         \* control state of each command
    request,    \* the command's request the editor has not run yet
    reply,      \* the editor's response the command has not read yet
    snapshot,   \* the captured record
    result,     \* what the closure returned
    signal,     \* has the command been interrupted?
    outcome,    \* how the command ended
    wrote       \* history: commands whose apply chunk changed a buffer

editorVars == <<text, tick, loaded, modifiable, current, unmade>>
rpcVars == <<request, reply>>
vars == <<editorVars, args, rpcVars, pc, snapshot, result, signal, outcome,
          wrote>>

Snapshot == [buffer : Buffers, text : [Rows -> SUBSET (Commands \cup Edits)],
             tick : Nat]
NoSnapshot == [buffer |-> Current]

(***************************************************************************)
(* The user at the editor.                                                 *)
(***************************************************************************)
UserEdits(b, r, e) ==
    /\ loaded[b] /\ modifiable[b]
    /\ e \in unmade
    /\ tick[b] < MaxTick
    /\ text' = [text EXCEPT ![b][r] = @ \cup {e}]
    /\ tick' = [tick EXCEPT ![b] = @ + 1]
    /\ unmade' = unmade \ {e}
    /\ UNCHANGED <<loaded, modifiable, current, args, rpcVars, pc, snapshot,
                   result, signal, outcome, wrote>>

\* :bunload! or a wipeout; a hidden buffer keeps its number and its tick.
UserUnloads(b) ==
    /\ loaded[b]
    /\ b # current
    /\ loaded' = [loaded EXCEPT ![b] = FALSE]
    /\ UNCHANGED <<text, tick, modifiable, current, unmade, args, rpcVars,
                   pc, snapshot, result, signal, outcome, wrote>>

\* Loading reads the file again, unsaved changes are gone, and counts as a
\* change.  Nothing is saved in this model.
UserReloads(b) ==
    /\ ~loaded[b]
    /\ tick[b] < MaxTick
    /\ loaded' = [loaded EXCEPT ![b] = TRUE]
    /\ text' = [text EXCEPT ![b] = [r \in Rows |-> {}]]
    /\ tick' = [tick EXCEPT ![b] = @ + 1]
    /\ UNCHANGED <<modifiable, current, unmade, args, rpcVars, pc, snapshot,
                   result, signal, outcome, wrote>>

UserSwitches(b) ==
    /\ loaded[b]
    /\ b # current
    /\ current' = b
    /\ UNCHANGED <<text, tick, loaded, modifiable, unmade, args, rpcVars, pc,
                   snapshot, result, signal, outcome, wrote>>

UserTogglesModifiable(b) ==
    /\ modifiable' = [modifiable EXCEPT ![b] = ~@]
    /\ UNCHANGED <<text, tick, loaded, current, unmade, args, rpcVars, pc,
                   snapshot, result, signal, outcome, wrote>>

\* Ctrl-C, or the engine stopping the command.
UserInterrupts(c) ==
    /\ ~signal[c]
    /\ pc[c] \notin {"done", "failed"}
    /\ signal' = [signal EXCEPT ![c] = TRUE]
    /\ UNCHANGED <<editorVars, args, rpcVars, pc, snapshot, result, outcome,
                   wrote>>

(***************************************************************************)
(* The editor running a command's request.                                 *)
(***************************************************************************)

Target(c) == IF args[c].target = Current THEN current ELSE args[c].target

\* transform-capture.lua: buffer, rows and changedtick in one chunk.
EditorCaptures(c) ==
    LET b == Target(c) IN
    /\ request[c] = "capture"
    /\ loaded[b]
    /\ request' = [request EXCEPT ![c] = "none"]
    /\ reply' = [reply EXCEPT ![c] = "ok"]
    /\ snapshot' = [snapshot EXCEPT ![c] =
                      [buffer |-> b, text |-> text[b], tick |-> tick[b]]]
    /\ UNCHANGED <<editorVars, args, pc, result, signal, outcome, wrote>>

\* The target is not loaded, or the chunk raises for the range asked for: it
\* lies outside the buffer, no selection was made, a column splits a character.
EditorRefuses(c) ==
    /\ request[c] = "capture"
    /\ ~loaded[Target(c)] \/ args[c].span # Rows
    /\ request' = [request EXCEPT ![c] = "none"]
    /\ reply' = [reply EXCEPT ![c] = "refused"]
    /\ UNCHANGED <<editorVars, args, pc, snapshot, result, signal, outcome,
                   wrote>>

\* Mutant: the chunk trusts that nothing changed since the capture.
VerdictWithoutTick(c) ==
    LET b == snapshot[c].buffer IN
    IF ~loaded[b] THEN "conflict"
    ELSE IF ~modifiable[b] THEN "unmodifiable" ELSE "ok"

\* Mutant: only a buffer that went backwards is a conflict.
VerdictBackwards(c) ==
    LET b == snapshot[c].buffer IN
    IF ~loaded[b] \/ tick[b] < snapshot[c].tick THEN "conflict"
    ELSE IF ~modifiable[b] THEN "unmodifiable" ELSE "ok"

\* transform-apply.lua: the checks in their order, then the edit, which
\* Neovim itself refuses when a line of the output holds a line break.
Verdict(c) ==
    LET b == snapshot[c].buffer IN
    CASE ~loaded[b] \/ tick[b] # snapshot[c].tick -> "conflict"
      [] loaded[b] /\ tick[b] = snapshot[c].tick /\ ~modifiable[b] ->
            "unmodifiable"
      [] OTHER -> IF result[c] = "multiline" THEN "refused" ELSE "ok"

\* Mutant: the edit replaces every row with the captured ones.
WritesEveryRow(c, b) ==
    /\ text' = [text EXCEPT ![b] = [r \in Rows |-> snapshot[c].text[r] \cup {c}]]
    /\ tick' = [tick EXCEPT ![b] = @ + 1]
    /\ wrote' = wrote \cup {c}

Writes(c, b) ==
    /\ text' = [text EXCEPT ![b] =
                  [r \in Rows |-> IF r \in args[c].span
                                  THEN snapshot[c].text[r] \cup {c}
                                  ELSE text[b][r]]]
    /\ tick' = [tick EXCEPT ![b] = @ + 1]
    /\ wrote' = wrote \cup {c}

\* Mutant: the chunk edits first and reports an unmodifiable buffer after.
EditorAppliesThenChecks(c) ==
    /\ request[c] = "apply"
    /\ request' = [request EXCEPT ![c] = "none"]
    /\ reply' = [reply EXCEPT ![c] = Verdict(c)]
    /\ IF Verdict(c) \in {"ok", "unmodifiable"}
       THEN Writes(c, snapshot[c].buffer)
       ELSE UNCHANGED <<text, tick, wrote>>
    /\ UNCHANGED <<loaded, modifiable, current, unmade, args, pc, snapshot,
                   result, signal, outcome>>

EditorApplies(c) ==
    /\ request[c] = "apply"
    /\ request' = [request EXCEPT ![c] = "none"]
    /\ reply' = [reply EXCEPT ![c] = Verdict(c)]
    /\ IF Verdict(c) = "ok"
       THEN Writes(c, snapshot[c].buffer)
       ELSE UNCHANGED <<text, tick, wrote>>
    /\ UNCHANGED <<loaded, modifiable, current, unmade, args, pc, snapshot,
                   result, signal, outcome>>

\* The command has closed its connection: its request may never be run.
EditorDiscards(c) ==
    /\ pc[c] = "failed"
    /\ request[c] # "none"
    /\ request' = [request EXCEPT ![c] = "none"]
    /\ UNCHANGED <<editorVars, args, reply, pc, snapshot, result, signal,
                   outcome, wrote>>

(***************************************************************************)
(* The command.                                                            *)
(***************************************************************************)
Ends(c, state, how) ==
    /\ pc' = [pc EXCEPT ![c] = state]
    /\ outcome' = [outcome EXCEPT ![c] = how]

Sends(c, what, state) ==
    /\ request' = [request EXCEPT ![c] = what]
    /\ reply' = [reply EXCEPT ![c] = "none"]
    /\ pc' = [pc EXCEPT ![c] = state]

SendCapture(c) ==
    /\ pc[c] = "start"
    /\ Sends(c, "capture", "capturing")
    /\ UNCHANGED <<editorVars, args, snapshot, result, signal, outcome, wrote>>

ReceiveCapture(c) ==
    /\ pc[c] = "capturing"
    /\ reply[c] = "ok"
    /\ pc' = [pc EXCEPT ![c] = "closure"]
    /\ UNCHANGED <<editorVars, args, rpcVars, snapshot, result, signal,
                   outcome, wrote>>

\* An error of either chunk ends the command with that error.
ReceiveError(c) ==
    /\ pc[c] \in {"capturing", "applying"}
    /\ reply[c] \in {"refused", "conflict", "unmodifiable"}
    /\ Ends(c, "failed", reply[c])
    /\ UNCHANGED <<editorVars, args, rpcVars, snapshot, result, signal, wrote>>

\* eval_closure_with_stream returns text (a string, a list of lines), a list
\* with a line break inside one of its strings, or a value of another type.
ClosureReturns(c, value) ==
    /\ pc[c] = "closure"
    /\ result' = [result EXCEPT ![c] = value]
    /\ pc' = [pc EXCEPT ![c] = "check"]
    /\ UNCHANGED <<editorVars, args, rpcVars, snapshot, signal, outcome, wrote>>

ClosureFails(c) ==
    /\ pc[c] = "closure"
    /\ Ends(c, "failed", "closure")
    /\ UNCHANGED <<editorVars, args, rpcVars, snapshot, result, signal, wrote>>

\* signals().check, then transformed_lines.
CheckFails(c) ==
    /\ pc[c] = "check"
    /\ \/ signal[c] /\ Ends(c, "failed", "interrupted")
       \/ ~signal[c] /\ result[c] = "other" /\ Ends(c, "failed", "closure")
    /\ UNCHANGED <<editorVars, args, rpcVars, snapshot, result, signal, wrote>>

Previews(c) ==
    /\ pc[c] = "check"
    /\ ~signal[c]
    /\ result[c] # "other"
    /\ args[c].preview
    /\ Ends(c, "done", "previewed")
    /\ UNCHANGED <<editorVars, args, rpcVars, snapshot, result, signal, wrote>>

\* Mutant: a preview is applied as well.
SendApplyOfPreview(c) ==
    /\ pc[c] = "check"
    /\ ~signal[c]
    /\ result[c] # "other"
    /\ Sends(c, "apply", "applying")
    /\ UNCHANGED <<editorVars, args, snapshot, result, signal, outcome, wrote>>

\* Mutant: nothing looks at the signal after the closure.
SendApplyInterrupted(c) ==
    /\ pc[c] = "check"
    /\ result[c] # "other"
    /\ ~args[c].preview
    /\ Sends(c, "apply", "applying")
    /\ UNCHANGED <<editorVars, args, snapshot, result, signal, outcome, wrote>>

SendApply(c) ==
    /\ pc[c] = "check"
    /\ ~signal[c]
    /\ result[c] # "other"
    /\ ~args[c].preview
    /\ Sends(c, "apply", "applying")
    /\ UNCHANGED <<editorVars, args, snapshot, result, signal, outcome, wrote>>

ReceiveApplied(c) ==
    /\ pc[c] = "applying"
    /\ reply[c] = "ok"
    /\ Ends(c, "done", "applied")
    /\ UNCHANGED <<editorVars, args, rpcVars, snapshot, result, signal, wrote>>

\* Mutant: only the capture has a read timeout.
GivesUpCapturing(c) ==
    /\ pc[c] = "capturing"
    /\ reply[c] = "none"
    /\ Ends(c, "failed", "timeout")
    /\ UNCHANGED <<editorVars, args, rpcVars, snapshot, result, signal, wrote>>

\* The read timeout of the RPC client, or a lost connection.
GivesUp(c) ==
    /\ pc[c] \in {"capturing", "applying"}
    /\ reply[c] = "none"
    /\ Ends(c, "failed", "timeout")
    /\ UNCHANGED <<editorVars, args, rpcVars, snapshot, result, signal, wrote>>

(***************************************************************************)
(* The specification.                                                      *)
(***************************************************************************)
Init ==
    /\ text = [b \in Buffers |-> [r \in Rows |-> {}]]
    /\ tick = [b \in Buffers |-> 0]
    /\ loaded = [b \in Buffers |-> TRUE]
    /\ modifiable = [b \in Buffers |-> TRUE]
    /\ current \in Buffers
    /\ unmade = Edits
    /\ args \in [Commands -> Arguments]
    /\ pc = [c \in Commands |-> "start"]
    /\ request = [c \in Commands |-> "none"]
    /\ reply = [c \in Commands |-> "none"]
    /\ snapshot = [c \in Commands |-> NoSnapshot]
    /\ result = [c \in Commands |-> "none"]
    /\ signal = [c \in Commands |-> FALSE]
    /\ outcome = [c \in Commands |-> "none"]
    /\ wrote = {}

User ==
    \/ \E b \in Buffers, r \in Rows, e \in Edits : UserEdits(b, r, e)
    \/ \E b \in Buffers : UserUnloads(b)
    \/ \E b \in Buffers : UserReloads(b)
    \/ \E b \in Buffers : UserSwitches(b)
    \/ \E b \in Buffers : UserTogglesModifiable(b)
    \/ \E c \in Commands : UserInterrupts(c)

Editor(c) ==
    EditorCaptures(c) \/ EditorRefuses(c) \/ EditorApplies(c) \/ EditorDiscards(c)

Closure(c) ==
    \/ \E value \in {"text", "multiline", "other"} : ClosureReturns(c, value)
    \/ ClosureFails(c)

\* The command's own steps; the closure is the user's code.
Command(c) ==
    \/ SendCapture(c) \/ ReceiveCapture(c) \/ ReceiveError(c)
    \/ CheckFails(c) \/ Previews(c) \/ SendApply(c) \/ ReceiveApplied(c)
    \/ GivesUp(c)

Next == User \/ \E c \in Commands : Editor(c) \/ Closure(c) \/ Command(c)

Spec == Init /\ [][Next]_vars

\* Threads are scheduled and a read times out.  Nothing makes the editor
\* answer, or a closure return.
LiveSpec == Spec /\ \A c \in Commands : WF_vars(Command(c))

(***************************************************************************)
(* Types.                                                                  *)
(***************************************************************************)
Replies == {"none", "ok", "refused", "conflict", "unmodifiable"}

\* How a command ends without an edit, and can tell so.
Rejections == {"refused", "conflict", "unmodifiable", "closure", "interrupted",
               "previewed"}

TypeOK ==
    /\ text \in [Buffers -> [Rows -> SUBSET (Commands \cup Edits)]]
    /\ tick \in [Buffers -> Nat]
    /\ loaded \in [Buffers -> BOOLEAN]
    /\ modifiable \in [Buffers -> BOOLEAN]
    /\ current \in Buffers
    /\ unmade \subseteq Edits
    /\ args \in [Commands -> Arguments]
    /\ pc \in [Commands -> {"start", "capturing", "closure", "check", "applying",
                            "done", "failed"}]
    /\ request \in [Commands -> {"none", "capture", "apply"}]
    /\ reply \in [Commands -> Replies]
    /\ snapshot \in [Commands -> Snapshot \cup {NoSnapshot}]
    /\ result \in [Commands -> {"none", "text", "multiline", "other"}]
    /\ signal \in [Commands -> BOOLEAN]
    /\ outcome \in [Commands -> Rejections \cup {"none", "timeout", "applied"}]
    /\ wrote \subseteq Commands

(***************************************************************************)
(* Safety.                                                                 *)
(***************************************************************************)

\* An edit, the user's or another command's, is never lost to a command that
\* did not see it: what a row is built from only grows, unless the user loads
\* the file again ("transform conflict", transform-apply.lua:4).
NoLostUpdate ==
    [][\A b \in Buffers :
        ~loaded[b] \/ \A r \in Rows : text[b][r] \subseteq text'[b][r]]_vars

\* Of the commands that captured one version of a buffer at most one changes
\* it, so concurrent transforms are equivalent to some order of them.
OneWriterPerVersion ==
    \A c, d \in wrote :
        (c # d /\ snapshot[c].buffer = snapshot[d].buffer)
            => snapshot[c].tick # snapshot[d].tick

\* A command's output is only ever in the buffer it captured, in the rows it
\* asked for, and in the buffer named by --buffer: switching buffers while the
\* closure runs redirects nothing.  Its rows may since have been captured by
\* another command, which then is what put them back.
OnTarget ==
    \A c \in Commands, b \in Buffers, r \in Rows :
        c \in text[b][r] => /\ b = snapshot[c].buffer
                            /\ r \in args[c].span
                            /\ args[c].target \in Buffers => b = args[c].target

\* Only a command that was to apply its output, and whose closure returned
\* lines, changes a buffer, and changes it no earlier than its apply call.
OnlyGoodResults ==
    \A c \in wrote : /\ ~args[c].preview
                     /\ result[c] = "text"
                     /\ pc[c] \in {"applying", "done", "failed"}

\* A command that reports success changed its buffer; one that reports a
\* rejection did not and has no request left that still could.  A timeout
\* promises neither.
Truthful ==
    \A c \in Commands :
        /\ outcome[c] = "applied" => c \in wrote
        /\ outcome[c] \in Rejections => c \notin wrote /\ request[c] = "none"

\* A command interrupted before its closure's output was looked at changes
\* nothing, then or later, and whatever its closure returned (signals().check,
\* transform.rs:126).
EarlyInterruptPreventsApply ==
    \A c \in Commands :
        [](signal[c] /\ pc[c] \in {"start", "capturing", "closure", "check"}
              => [](c \notin wrote))

\* A command that was interrupted changes nothing from then on
\* (docs/automation.md:36: "An intervening edit, unload, closure failure, or
\* interrupted command prevents Nuvim from applying the result").  The code
\* looks at the signal once, before it sends the apply call.
InterruptPreventsApply ==
    [][\A c \in Commands : (signal[c] /\ c \notin wrote) => c \notin wrote']_vars

(***************************************************************************)
(* Liveness, under LiveSpec.                                               *)
(***************************************************************************)

\* Outside its closure a command ends, whatever the editor and the user do: a
\* busy editor costs it a read timeout, never the pipeline.
CommandEnds ==
    \A c \in Commands :
        pc[c] \in {"start", "capturing", "check", "applying"}
            ~> pc[c] \in {"closure", "done", "failed"}

(***************************************************************************)
(* The inductive invariant.                                                *)
(***************************************************************************)
Captured(c) == snapshot[c] \in Snapshot

\* What the control state of a command says of its exchange with the editor.
Exchange(c) ==
    /\ request[c] = "capture" => pc[c] \in {"capturing", "failed"}
    /\ request[c] = "apply" => pc[c] \in {"applying", "failed"} /\ Captured(c)
    /\ request[c] # "none" => reply[c] = "none"
    /\ (pc[c] = "capturing" /\ reply[c] = "ok") => Captured(c)
    /\ pc[c] \in {"closure", "check", "applying"} => Captured(c)
    /\ outcome[c] = "none" <=> pc[c] \notin {"done", "failed"}

\* Only a command that may apply its output asks for it.
Asking(c) ==
    /\ pc[c] = "check" => result[c] # "none"
    /\ (request[c] = "apply" \/ pc[c] = "applying")
           => ~args[c].preview /\ result[c] \in {"text", "multiline"}

\* A command writes once, in the apply call, and its reply tells.
Marking(c) ==
    /\ request[c] # "none" => c \notin wrote
    /\ pc[c] \in {"start", "capturing", "closure", "check"} => c \notin wrote
    /\ pc[c] = "applying" => (c \in wrote <=> reply[c] = "ok")
    /\ c \in wrote => Captured(c)

\* changedtick is a version number: while a buffer is loaded and has the tick
\* of a snapshot its text is that of the snapshot, and it has moved on once the
\* snapshot's command wrote.
Versions ==
    \A c \in Commands :
        Captured(c) =>
            LET s == snapshot[c] IN
            /\ s.tick <= tick[s.buffer]
            /\ c \in wrote => s.tick < tick[s.buffer]
            /\ (loaded[s.buffer] /\ s.tick = tick[s.buffer])
                    => text[s.buffer] = s.text
            /\ args[c].target \in Buffers => s.buffer = args[c].target

\* A command's output, in a buffer or in the snapshot of another command,
\* stays where it was put.
Places ==
    \A c \in Commands, r \in Rows :
        /\ \A b \in Buffers : c \in text[b][r] =>
               c \in wrote /\ b = snapshot[c].buffer /\ r \in args[c].span
        /\ \A d \in Commands : (Captured(d) /\ c \in snapshot[d].text[r]) =>
               c \in wrote /\ snapshot[d].buffer = snapshot[c].buffer /\ r \in args[c].span

IInv ==
    /\ TypeOK
    /\ \A c \in Commands : Exchange(c) /\ Asking(c) /\ Marking(c)
    /\ Versions /\ Places
    /\ OneWriterPerVersion /\ OnlyGoodResults /\ Truthful

=============================================================================
