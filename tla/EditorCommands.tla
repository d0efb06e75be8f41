--------------------------- MODULE EditorCommands ---------------------------
(***************************************************************************)
(* The commands of commands.rs that make several calls: context, cursor,   *)
(* cursor set, buffers, buffer use, text, open, edit, replace, scratch,    *)
(* command and, for what they do to the others, lua and call; and node,    *)
(* symbols, references and definition (query.lua), of which the last three *)
(* wait for language servers in the middle of their call.  Each call is    *)
(* one step of the editor, one that waits is three; the user and the other *)
(* commands act between a command's steps.                                 *)
(*                                                                         *)
(* Left out: the data no property is about (names, filetypes, modes, sizes *)
(* and positions), and the calls that only read such data where another    *)
(* call on the same handle stands next to them.  A buffer's text is its    *)
(* version, b:changedtick.                                                 *)
(***************************************************************************)
EXTENDS Naturals, FiniteSets

CONSTANTS
    Commands,   \* running commands
    Buffers,    \* buffer handles, also of the buffers not created yet
    Listed,     \* those with 'buflisted': the user's own, not the commands'
    Windows,    \* window handles
    None,       \* no place, or no --buffer
    Arguments,  \* what a command may be run with
    MaxUser     \* bound of the model on the user's actions

Kinds == {"context", "cursor", "cursor set", "buffers", "buffer use", "text",
          "open", "edit", "replace", "scratch", "command", "lua", "node", "query"}

ASSUME CommandsAssumption ==
    /\ None \notin Buffers \cup Windows
    /\ Buffers \cap Windows = {}
    /\ Listed \subseteq Buffers
    /\ Arguments \subseteq [kind : Kinds, buffer : Buffers \cup {None},
                             selection : BOOLEAN, paths : Nat]
    /\ \A a \in Arguments : a.kind = "buffer use" => a.buffer # None
    /\ MaxUser \in Nat

VARIABLES
    life,     \* "none", "unloaded", "loaded" or "wiped", of each handle
    tick,     \* b:changedtick of each buffer
    unsaved,  \* buffers with 'modified'
    windows,  \* open windows
    shown,    \* the buffer each window shows
    curwin,   \* the current window
    left,     \* user actions left
    args,     \* arguments of each command
    pc,       \* the call each command makes next
    buf,      \* the command's local buffer handle
    win,      \* the command's local window handle
    rest,     \* handles `buffers` has still to describe
    paths,    \* paths `open` has still to open
    seen,     \* the fields read for the record being built
    report,   \* what the command returns
    acted,    \* history: the place a command changed, and its version then
    moved     \* history: has anyone else moved the focus since it started?

bufferVars == <<life, tick, unsaved>>
focusVars == <<windows, shown, curwin, moved>>
localVars == <<buf, win, rest, paths, seen, report, acted>>
vars == <<bufferVars, focusVars, left, args, pc, localVars>>

Exists(b) == life[b] \in {"unloaded", "loaded"}

\* nvim_get_current_buf
Here == shown[curwin]

(***************************************************************************)
(* What calls and the user do to the editor.                               *)
(***************************************************************************)
LoadsBuffer(b) ==
    IF life[b] = "loaded"
    THEN UNCHANGED bufferVars
    ELSE /\ life' = [life EXCEPT ![b] = "loaded"]
         /\ tick' = [tick EXCEPT ![b] = @ + 1]
         /\ unsaved' = unsaved \ {b}

\* An edit through the API loads the buffer first.
TickAfterEdit(b) == tick[b] + (IF life[b] = "loaded" THEN 1 ELSE 2)

EditsBuffer(b) ==
    /\ life' = [life EXCEPT ![b] = "loaded"]
    /\ tick' = [tick EXCEPT ![b] = TickAfterEdit(b)]
    /\ unsaved' = unsaved \cup {b}

\* The focus moves, and not by a doing of the commands in `by`.
FocusMoves(by) == moved' = [c \in Commands |-> moved[c] \/ (c \notin by /\ pc[c] # "start")]

ShowsBuffer(b, by) ==
    /\ Exists(b)
    /\ LoadsBuffer(b)
    /\ shown' = [shown EXCEPT ![curwin] = b]
    /\ FocusMoves(by)
    /\ UNCHANGED <<windows, curwin>>

(***************************************************************************)
(* The user.                                                               *)
(***************************************************************************)
UserActs ==
    /\ left > 0
    /\ left' = left - 1
    /\ UNCHANGED <<args, pc, localVars>>

UserEdits(b) ==
    /\ life[b] = "loaded"
    /\ EditsBuffer(b)
    /\ UserActs
    /\ UNCHANGED focusVars

\* Resetting 'modified' counts as a change of the buffer.
UserSaves(b) ==
    /\ life[b] = "loaded"
    /\ b \in unsaved
    /\ unsaved' = unsaved \ {b}
    /\ tick' = [tick EXCEPT ![b] = @ + 1]
    /\ UserActs
    /\ UNCHANGED <<life, focusVars>>

UserShows(b) ==
    /\ ShowsBuffer(b, {})
    /\ UserActs

UserWipes(b) ==
    /\ Exists(b)
    /\ \A w \in windows : shown[w] # b
    /\ life' = [life EXCEPT ![b] = "wiped"]
    /\ unsaved' = unsaved \ {b}
    /\ UserActs
    /\ UNCHANGED <<tick, focusVars>>

UserEnters(w) ==
    /\ w \in windows \ {curwin}
    /\ curwin' = w
    /\ FocusMoves({})
    /\ UserActs
    /\ UNCHANGED <<bufferVars, windows, shown>>

\* Closing the current window makes another one current.
UserCloses(w) ==
    /\ w \in windows
    /\ \E v \in windows \ {w} :
          /\ windows' = windows \ {w}
          /\ curwin' = IF w = curwin THEN v ELSE curwin
    /\ FocusMoves({})
    /\ UserActs
    /\ UNCHANGED <<bufferVars, shown>>

(***************************************************************************)
(* A command.                                                              *)
(***************************************************************************)

\* The response arrives, or it does not and the command ends.
Replied(c, next) ==
    \E at \in {next, "failed"} : pc' = [pc EXCEPT ![c] = at]

OnlyReads == UNCHANGED <<bufferVars, focusVars, left, args>>

\* The call a command's own code makes first, after its argument checks.
Entry(a) ==
    CASE a.kind = "context" -> "buf"
      [] a.kind = "cursor" -> "win"
      [] a.kind = "cursor set" -> "own win"
      [] a.kind = "buffers" -> "list"
      [] a.kind = "buffer use" -> "focus"
      [] a.kind = "text" -> IF a.buffer = None THEN "buf" ELSE "lines"
      [] a.kind = "open" -> "add"
      [] a.kind \in {"edit", "replace"} -> IF a.buffer = None THEN "buf" ELSE "write"
      [] a.kind = "scratch" -> "create"
      [] a.kind \in {"node", "query"} -> a.kind
      [] OTHER -> "ex"

\* What the arguments alone rule out.
Rejected(a) ==
    \/ a.kind = "open" /\ a.paths = 0
    \/ a.kind = "replace" /\ a.selection /\ a.buffer # None

Start(c) ==
    /\ pc[c] = "start"
    /\ pc' = [pc EXCEPT ![c] = IF Rejected(args[c]) THEN "failed" ELSE Entry(args[c])]
    /\ buf' = [buf EXCEPT ![c] = args[c].buffer]
    /\ paths' = [paths EXCEPT ![c] = args[c].paths]
    /\ OnlyReads
    /\ UNCHANGED <<win, rest, seen, report, acted>>

\* Mutant: the error that a buffer is gone is passed over, and the call waits on.
CallFailsIfThere(c) ==
    /\ pc[c] \notin {"start", "done", "failed"}
    /\ buf[c] \in Buffers => Exists(buf[c])
    /\ pc' = [pc EXCEPT ![c] = "failed"]
    /\ OnlyReads
    /\ UNCHANGED localVars

\* The call is refused, times out or loses its connection before it is run.
CallFails(c) ==
    /\ pc[c] \notin {"start", "done", "failed"}
    /\ pc' = [pc EXCEPT ![c] = "failed"]
    /\ OnlyReads
    /\ UNCHANGED localVars

AfterBuf(a) ==
    CASE a.kind \in {"context", "command"} -> "win"
      [] a.kind = "text" -> "lines"
      [] OTHER -> "write"

\* nvim_get_current_buf of selected_buffer and context_for_client.
GetBuf(c) ==
    /\ pc[c] = "buf"
    /\ buf' = [buf EXCEPT ![c] = Here]
    /\ Replied(c, AfterBuf(args[c]))
    /\ OnlyReads
    /\ UNCHANGED <<win, rest, paths, seen, report, acted>>

\* nvim_get_current_win, in cursor_set and in current_cursor.
GetWin(c) ==
    /\ pc[c] \in {"win", "own win"}
    /\ win' = [win EXCEPT ![c] = curwin]
    /\ Replied(c, IF pc[c] = "win" THEN "cursor" ELSE "set cursor")
    /\ OnlyReads
    /\ UNCHANGED <<buf, rest, paths, seen, report, acted>>

SetCursor(c) ==
    /\ pc[c] = "set cursor"
    /\ win[c] \in windows
    /\ acted' = [acted EXCEPT ![c] = [place |-> win[c], tick |-> 0]]
    /\ Replied(c, "win")
    /\ OnlyReads
    /\ UNCHANGED <<buf, win, rest, paths, seen, report>>

Reports(c, place, version, what) ==
    report' = [report EXCEPT ![c] =
                 @ \cup {[place |-> place, tick |-> version, what |-> what]}]

GetCursor(c) ==
    /\ pc[c] = "cursor"
    /\ win[c] \in windows
    /\ Reports(c, win[c], 0, "cursor")
    /\ Replied(c, IF args[c].kind \in {"context", "command"} THEN "name" ELSE "done")
    /\ OnlyReads
    /\ UNCHANGED <<buf, win, rest, paths, seen, acted>>

\* nvim_list_bufs: every buffer there is, in some order.
List(c) ==
    /\ pc[c] = "list"
    /\ \E b \in Buffers :
          /\ Exists(b)
          /\ buf' = [buf EXCEPT ![c] = b]
          /\ rest' = [rest EXCEPT ![c] = {d \in Buffers : Exists(d)} \ {b}]
    /\ Replied(c, "name")
    /\ OnlyReads
    /\ UNCHANGED <<win, paths, seen, report, acted>>

\* nvim_create_buf(false, true)
Create(c) ==
    /\ pc[c] = "create"
    /\ \E b \in Buffers :
          /\ life[b] = "none"
          /\ life' = [life EXCEPT ![b] = "loaded"]
          /\ tick' = [tick EXCEPT ![b] = @ + 1]
          /\ buf' = [buf EXCEPT ![c] = b]
    /\ Replied(c, "write")
    /\ UNCHANGED <<unsaved, focusVars, left, args, win, rest, paths,
                   seen, report, acted>>

\* bufadd: the buffer of the path, or a new one; not listed, not loaded.
Add(c) ==
    /\ pc[c] = "add"
    /\ \E b \in Buffers :
          /\ life[b] # "wiped"
          /\ life' = [life EXCEPT ![b] = IF @ = "none" THEN "unloaded" ELSE @]
          /\ buf' = [buf EXCEPT ![c] = b]
    /\ paths' = [paths EXCEPT ![c] = @ - 1]
    /\ Replied(c, "load")
    /\ UNCHANGED <<tick, unsaved, focusVars, left, args, win, rest,
                   seen, report, acted>>

\* Mutant: every path becomes current, the last one for good.
LoadToShow(c) ==
    /\ pc[c] = "load"
    /\ Exists(buf[c])
    /\ LoadsBuffer(buf[c])
    /\ Replied(c, "focus")
    /\ UNCHANGED <<focusVars, left, args, localVars>>

\* bufload; the first path becomes current.
Load(c) ==
    /\ pc[c] = "load"
    /\ Exists(buf[c])
    /\ LoadsBuffer(buf[c])
    /\ Replied(c, IF report[c] = {} THEN "focus" ELSE "name")
    /\ UNCHANGED <<focusVars, left, args, localVars>>

\* nvim_set_current_buf.  `open` keeps the place it showed first.
Focus(c) ==
    /\ pc[c] = "focus"
    /\ ShowsBuffer(buf[c], {c})
    /\ acted' = [acted EXCEPT ![c] =
                   IF @.place = None THEN [place |-> buf[c], tick |-> 0] ELSE @]
    /\ Replied(c, "name")
    /\ UNCHANGED <<left, args, buf, win, rest, paths, seen, report>>

AfterWrite(a) ==
    CASE a.kind = "edit" -> {"name"}
      [] a.kind = "replace" -> {"lines"}
      [] OTHER -> {"dress", "focus"}

\* Mutant: without --buffer the edit goes to buffer 0, whichever is current by then.
WrittenCurrent(c) ==
    IF args[c].buffer = None /\ args[c].kind # "scratch" THEN Here ELSE buf[c]

\* nvim_buf_set_text or nvim_buf_set_lines on the command's handle, or
\* REPLACE_SELECTION_LUA, which edits the buffer current when it runs.
Written(c) == IF args[c].selection /\ args[c].kind = "replace" THEN Here ELSE buf[c]

Write(c) ==
    LET b == Written(c) IN
    /\ pc[c] = "write"
    /\ Exists(b)
    /\ EditsBuffer(b)
    /\ acted' = [acted EXCEPT ![c] = [place |-> b, tick |-> TickAfterEdit(b)]]
    /\ \E next \in AfterWrite(args[c]) : Replied(c, next)
    /\ UNCHANGED <<focusVars, left, args, buf, win, rest, paths, seen,
                   report>>

\* nvim_buf_set_name and the filetype, each if asked for.
Dress(c) ==
    /\ pc[c] = "dress"
    /\ Exists(buf[c])
    /\ Replied(c, "focus")
    /\ OnlyReads
    /\ UNCHANGED localVars

\* text_for_buffer
GetLines(c) ==
    /\ pc[c] = "lines"
    /\ Exists(buf[c])
    /\ Reports(c, buf[c], tick[buf[c]], "lines")
    /\ Replied(c, "done")
    /\ OnlyReads
    /\ UNCHANGED <<buf, win, rest, paths, seen, acted>>

(***************************************************************************)
(* buffer_record: name, changedtick, modified, each in a call of its own.  *)
(***************************************************************************)
Fields == {"name", "tick", "modified"}

\* Mutant: changedtick is read after modified.
NextFieldSwapped(field) ==
    CASE field = "name" -> "modified" [] field = "modified" -> "tick" [] OTHER -> "end"

NextField(field) ==
    CASE field = "name" -> "tick" [] field = "tick" -> "modified" [] OTHER -> "end"

\* The fields read, with the one of this call.
Got(c) ==
    CASE pc[c] = "tick" -> [seen[c] EXCEPT !.tick = tick[buf[c]]]
      [] pc[c] = "modified" ->
            [seen[c] EXCEPT !.what = IF buf[c] \in unsaved THEN "unsaved" ELSE "saved"]
      [] OTHER -> seen[c]

AfterRecord(c) ==
    CASE args[c].kind = "open" /\ paths[c] > 0 -> "add"
      [] args[c].kind \in {"context", "command"} -> "size"
      [] OTHER -> "done"

\* The record is complete; on to the next buffer or path, if there is one.
RecordDone(c) ==
    /\ Reports(c, buf[c], Got(c).tick, Got(c).what)
    /\ IF rest[c] = {}
       THEN Replied(c, AfterRecord(c)) /\ UNCHANGED <<buf, rest>>
       ELSE \E b \in rest[c] :
              /\ buf' = [buf EXCEPT ![c] = b]
              /\ rest' = [rest EXCEPT ![c] = @ \ {b}]
              /\ Replied(c, "name")

ReadField(c) ==
    /\ pc[c] \in Fields
    /\ Exists(buf[c])
    /\ seen' = [seen EXCEPT ![c] = Got(c)]
    /\ IF NextField(pc[c]) = "end"
       THEN RecordDone(c)
       ELSE Replied(c, NextField(pc[c])) /\ UNCHANGED <<buf, rest, report>>
    /\ OnlyReads
    /\ UNCHANGED <<win, paths, acted>>

\* window_record
ReadSize(c) ==
    /\ pc[c] = "size"
    /\ win[c] \in windows
    /\ Replied(c, "done")
    /\ OnlyReads
    /\ UNCHANGED localVars

\* nvim_command, nvim_exec_lua or a raw call: of all it can do, an edit or a
\* change of the current buffer, which is what the other commands can notice.
Ex(c) ==
    /\ pc[c] = "ex"
    /\ \/ UNCHANGED <<bufferVars, focusVars>>
       \/ EditsBuffer(Here) /\ UNCHANGED focusVars
       \/ \E b \in Buffers : ShowsBuffer(b, {c})
    /\ Replied(c, IF args[c].kind = "command" THEN "buf" ELSE "done")
    /\ UNCHANGED <<left, args, localVars>>

(***************************************************************************)
(* query.lua                                                               *)
(***************************************************************************)

\* The buffer a query is about, 0 or none being the current one.
Queried(c) == IF args[c].buffer = None THEN Here ELSE args[c].buffer

\* `node` answers at once.
Node(c) ==
    /\ pc[c] = "node"
    /\ life[Queried(c)] = "loaded"
    /\ buf' = [buf EXCEPT ![c] = Queried(c)]
    /\ Reports(c, Queried(c), tick[Queried(c)], "answer")
    /\ Replied(c, "done")
    /\ OnlyReads
    /\ UNCHANGED <<win, rest, paths, seen, acted>>

\* The request goes to the servers of the buffer, and the editor goes on.
Ask(c) ==
    /\ pc[c] = "query"
    /\ life[Queried(c)] = "loaded"
    /\ buf' = [buf EXCEPT ![c] = Queried(c)]
    /\ seen' = [seen EXCEPT ![c].tick = tick[Queried(c)]]
    /\ pc' = [pc EXCEPT ![c] = "await"]
    /\ OnlyReads
    /\ UNCHANGED <<win, rest, paths, report, acted>>

\* A server answers, of the version it was asked about or of a later one.
Answer(c) ==
    /\ pc[c] = "await"
    /\ \E version \in seen[c].tick .. tick[buf[c]] : Reports(c, buf[c], version, "answer")
    /\ OnlyReads
    /\ UNCHANGED <<pc, buf, win, rest, paths, seen, acted>>

\* Mutant: the answers are taken for those of the version that was asked about.
ReturnUnchecked(c) ==
    /\ pc[c] = "await"
    /\ report[c] # {}
    /\ Exists(buf[c])
    /\ Replied(c, "done")
    /\ OnlyReads
    /\ UNCHANGED localVars

\* The servers have answered in time, and the buffer is as it was.
Return(c) ==
    /\ pc[c] = "await"
    /\ report[c] # {}
    /\ Exists(buf[c])
    /\ tick[buf[c]] = seen[c].tick
    /\ Replied(c, "done")
    /\ OnlyReads
    /\ UNCHANGED localVars

(***************************************************************************)
(* The specification.                                                      *)
(***************************************************************************)
Nowhere == [place |-> None, tick |-> 0]

Init ==
    /\ life \in [Buffers -> {"none", "unloaded", "loaded"}]
    /\ \A b \in Listed : Exists(b)
    /\ tick = [b \in Buffers |-> 0]
    /\ unsaved = {}
    /\ windows = Windows
    /\ curwin \in Windows
    /\ shown \in [Windows -> {b \in Buffers : life[b] = "loaded"}]
    /\ left = MaxUser
    /\ args \in [Commands -> Arguments]
    /\ pc = [c \in Commands |-> "start"]
    /\ buf = [c \in Commands |-> None]
    /\ win = [c \in Commands |-> None]
    /\ rest = [c \in Commands |-> {}]
    /\ paths = [c \in Commands |-> 0]
    /\ seen = [c \in Commands |-> [tick |-> 0, what |-> "saved"]]
    /\ report = [c \in Commands |-> {}]
    /\ acted = [c \in Commands |-> Nowhere]
    /\ moved = [c \in Commands |-> FALSE]

User ==
    \/ \E b \in Buffers : UserEdits(b) \/ UserSaves(b) \/ UserShows(b) \/ UserWipes(b)
    \/ \E w \in Windows : UserEnters(w) \/ UserCloses(w)

Command(c) ==
    \/ Start(c) \/ CallFails(c) \/ GetBuf(c) \/ GetWin(c) \/ SetCursor(c)
    \/ GetCursor(c) \/ List(c) \/ Create(c) \/ Add(c) \/ Load(c) \/ Focus(c)
    \/ Write(c) \/ Dress(c) \/ GetLines(c) \/ ReadField(c) \/ ReadSize(c) \/ Ex(c)
    \/ Node(c) \/ Ask(c) \/ Answer(c) \/ Return(c)

Next == User \/ \E c \in Commands : Command(c)

Spec == Init /\ [][Next]_vars

\* A command that has been run goes on; the user may do nothing.
LiveSpec == Spec /\ \A c \in Commands : WF_vars(Command(c))

(***************************************************************************)
(* Safety.                                                                 *)
(***************************************************************************)
Labels == {"start", "buf", "win", "own win", "cursor", "set cursor", "list",
           "create", "add", "load", "focus", "write", "dress", "lines", "size",
           "ex", "node", "query", "await", "done", "failed"} \cup Fields

Entries == [place : Buffers \cup Windows, tick : Nat,
            what : {"saved", "unsaved", "lines", "cursor", "answer"}]

\* Every variable has its type, and the current window is open and shows a
\* loaded buffer, as every command of commands.rs relies on.
TypeOK ==
    /\ life \in [Buffers -> {"none", "unloaded", "loaded", "wiped"}]
    /\ tick \in [Buffers -> Nat]
    /\ unsaved \subseteq {b \in Buffers : life[b] = "loaded"}
    /\ windows \subseteq Windows
    /\ curwin \in windows
    /\ shown \in [Windows -> Buffers]
    /\ \A w \in windows : life[shown[w]] = "loaded"
    /\ left \in 0..MaxUser
    /\ args \in [Commands -> Arguments]
    /\ pc \in [Commands -> Labels]
    /\ buf \in [Commands -> Buffers \cup {None}]
    /\ win \in [Commands -> Windows \cup {None}]
    /\ rest \in [Commands -> SUBSET Buffers]
    /\ paths \in [Commands -> Nat]
    /\ seen \in [Commands -> [tick : Nat, what : {"saved", "unsaved"}]]
    /\ report \in [Commands -> SUBSET Entries]
    /\ acted \in [Commands -> [place : Buffers \cup Windows \cup {None}, tick : Nat]]
    /\ moved \in [Commands -> BOOLEAN]

Fresh(c) ==
    \A r \in report[c] :
        (/\ r.what \in {"saved", "unsaved"}
         /\ r.place \in Buffers
         /\ life[r.place] # "wiped"
         /\ r.tick = tick[r.place])
            => (r.what = "unsaved" <=> r.place \in unsaved)

\* A buffer record is put together from several calls, and still its
\* changedtick is a version its `modified` can be trusted for: as long as the
\* buffer has the changedtick of the record, it is modified if and only if the
\* record says so (buffer_record reads changedtick before modified).
FreshRecord == \A c \in Commands : Fresh(c)

OnTarget(c) ==
    (/\ pc[c] = "done"
     /\ args[c].kind \in {"edit", "replace", "scratch", "cursor set"})
        => \A r \in report[c] :
               \/ r.place = acted[c].place /\ r.tick >= acted[c].tick
               \/ /\ moved[c]
                  /\ args[c].kind = "cursor set" \/ args[c].selection

\* edit, scratch and replace of a whole buffer tell of the buffer they changed, at
\* a version no older than their change, wherever the user moves, edits or wipes
\* meanwhile.  replace --selection and cursor set ask the editor twice where they
\* are (commands.rs:760, commands.rs:517 and 496): of them it holds only if nobody
\* else has moved the focus meanwhile.
ReportsOnTarget == \A c \in Commands : OnTarget(c)

InFocus(c) ==
    (/\ ~moved[c]
     /\ \/ pc[c] = "done" /\ args[c].kind \in {"buffer use", "open", "scratch"}
        \/ pc[c] = "failed" /\ args[c].kind \in {"buffer use", "open"} /\ acted[c] # Nowhere)
        => Here = acted[c].place

\* `buffer use` and `scratch` end in the buffer they show and `open` in the
\* buffer of its first path, later paths never taking the focus from it, unless
\* someone else has moved the focus.  If a later path or a record fails, the
\* focus is still where the command put it.
EndsInFocus == \A c \in Commands : InFocus(c)

Agreed(c) ==
    (pc[c] = "done" /\ args[c].kind = "query") => \A r \in report[c] : r.tick = seen[c].tick

\* All answers that a query returns are about the version it names, although the user
\* and other commands change the buffer while it waits (query.lua compares changedtick
\* after the wait; docs/automation.md: it fails if the buffer changes).
AnswersAgree == \A c \in Commands : Agreed(c)

(***************************************************************************)
(* Liveness, under LiveSpec.                                               *)
(***************************************************************************)

\* Every command ends, the loops over buffers and paths included, whatever the
\* user does to the buffers it still has to describe.
CommandEnds ==
    \A c \in Commands : <>(pc[c] \in {"done", "failed"})

(***************************************************************************)
(* The inductive invariant.                                                *)
(***************************************************************************)
Saving == {"edit", "replace", "scratch"}
Focusing == {"buffer use", "open", "scratch"}

\* The calls a command of each kind comes to.
LabelsOf(kind) ==
    {"start", "done", "failed"} \cup
    CASE kind = "context" -> {"buf", "win", "cursor", "size"} \cup Fields
      [] kind = "cursor" -> {"win", "cursor"}
      [] kind = "cursor set" -> {"own win", "set cursor", "win", "cursor"}
      [] kind = "buffers" -> {"list"} \cup Fields
      [] kind = "buffer use" -> {"focus"} \cup Fields
      [] kind = "text" -> {"buf", "lines"}
      [] kind = "open" -> {"add", "load", "focus"} \cup Fields
      [] kind = "edit" -> {"buf", "write"} \cup Fields
      [] kind = "replace" -> {"buf", "write", "lines"}
      [] kind = "scratch" -> {"create", "write", "dress", "focus"} \cup Fields
      [] kind = "node" -> {"node"}
      [] kind = "query" -> {"query", "await"}
      [] kind = "command" -> {"ex", "buf", "win", "cursor", "size"} \cup Fields
      [] OTHER -> {"ex"}

\* The command's locals at each call.
Locals(c) ==
    /\ pc[c] \in LabelsOf(args[c].kind)
    /\ pc[c] \in {"write", "load", "focus", "dress", "lines"} \cup Fields => buf[c] \in Buffers
    /\ (args[c].kind \in {"context", "command"} /\ pc[c] \in {"win", "cursor"})
           => buf[c] \in Buffers
    /\ pc[c] = "modified" => seen[c].tick <= tick[buf[c]]
    /\ rest[c] # {} => args[c].kind = "buffers"
    /\ pc[c] = "add" => paths[c] > 0
    /\ pc[c] = "start" => ~moved[c] /\ report[c] = {} /\ acted[c] = Nowhere
    /\ (report[c] # {} /\ args[c].kind \in Saving \cup {"buffer use", "cursor set"})
           => pc[c] \in {"done", "failed"}

\* No report is of a version to come.
Past(c) ==
    /\ \A r \in report[c] : r.place \in Buffers => r.tick <= tick[r.place]
    /\ acted[c].place \in Buffers => acted[c].tick <= tick[acted[c].place]

\* From its edit on, a command holds the handle it has edited.
Edited(c) ==
    /\ (args[c].kind \in Saving /\ pc[c] \in {"dress", "focus", "lines"} \cup Fields)
           => \/ acted[c].place = buf[c]
              \/ (moved[c] /\ args[c].kind = "replace" /\ args[c].selection)
    /\ (args[c].kind \in Saving /\ pc[c] = "modified") => seen[c].tick >= acted[c].tick
    /\ (pc[c] = "write" /\ args[c].kind = "replace" /\ args[c].selection)
           => moved[c] \/ buf[c] = Here

\* While nobody else moves the focus, the windows a command was told are the
\* current one.
Placed(c) ==
    args[c].kind = "cursor set" =>
        /\ acted[c].tick = 0
        /\ ~moved[c] =>
              /\ pc[c] = "set cursor" => win[c] = curwin
              /\ pc[c] = "win" => acted[c].place = curwin
              /\ pc[c] = "cursor" => acted[c].place = win[c]

\* While nobody else moves the focus, it stays where the command put it.
Focused(c) ==
    args[c].kind \in Focusing =>
        /\ (~moved[c] /\ (pc[c] \in Fields \/ (pc[c] \in {"add", "load"} /\ report[c] # {})))
               => Here = acted[c].place
        /\ (args[c].kind = "open" /\ pc[c] = "focus") => report[c] = {}
        /\ (args[c].kind = "open" /\ pc[c] \in {"add", "load", "focus"} /\ report[c] = {})
               => acted[c] = Nowhere
        /\ (args[c].kind = "buffer use" /\ pc[c] = "focus") => acted[c] = Nowhere

CommandInv(c) ==
    /\ Locals(c) /\ Past(c) /\ Edited(c) /\ Placed(c) /\ Focused(c)
    /\ Fresh(c) /\ OnTarget(c) /\ InFocus(c)

\* While a query waits, all answers are of the version asked about or a later one.
Awaited(c) ==
    args[c].kind = "query" =>
        /\ pc[c] \in {"start", "query"} => report[c] = {}
        /\ pc[c] = "await" => /\ buf[c] \in Buffers
                              /\ \A r \in report[c] : r.place = buf[c] /\ r.tick >= seen[c].tick

QueryInv(c) == Awaited(c) /\ Agreed(c)

IInv == TypeOK /\ \A c \in Commands : CommandInv(c) /\ QueryInv(c)

=============================================================================
