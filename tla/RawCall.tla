------------------------------ MODULE RawCall ------------------------------
(***************************************************************************)
(* Calls of the API functions of running editors: nuvim call, whose method *)
(* and arguments the user gives and the generated table checks, nuvim lua, *)
(* and the methods the other commands call; with the result of an earlier  *)
(* call, from one of several editors, held in a variable or a pipeline.    *)
(***************************************************************************)
EXTENDS ApiCodegen, ValueConversion

CONSTANTS
    Methods,    \* the method names the user gives
    Literals,   \* the Nushell values the user writes
    Samples     \* what an editor at an address may answer

Nothing == <<"nothing", "">>

ASSUME CallAssumption ==
    /\ "none" \notin Servers
    /\ Methods \cup {"nvim_exec_lua"} \subseteq ToSet(Order) /\ <<"nvim_exec_lua", 2>> \in Used
    /\ Literals \cup {Nothing} \subseteq Values
    /\ Samples \in [Servers -> SUBSET Packed] /\ <<"nil", "">> \in Packed

VARIABLES
    running,  \* the version of each editor
    held,     \* a result: its Nushell value, its editor, and what it was
    command   \* the command that runs

vars == <<codegenVars, running, held, command>>

NoResult == [value |-> Nothing, from |-> "none", was |-> <<"nil", "">>]
Idle == [kind |-> "none", method |-> "none", server |-> "none", args |-> <<>>,
         sent |-> <<>>, answer |-> <<"nil", "">>, phase |-> "idle"]

\* append_pipeline_arguments: a list is spread if there is nothing before it.
Appended(positional, input) ==
    IF input = Nothing THEN positional
    ELSE IF positional = <<>> /\ input[1] = "list" THEN input[2]
    ELSE Append(positional, input)

\* Begins a command in this phase.
Begins(kind, method, server, args, phase) ==
    /\ shipped
    /\ command.phase = "idle"
    /\ command' = [Idle EXCEPT !.kind = kind, !.method = method, !.server = server,
                               !.args = args, !.phase = phase]
    /\ UNCHANGED <<codegenVars, running, held>>

\* nuvim call: the method and the number of arguments are checked first.
Calls(method, server, args) ==
    Begins("call", method, server, args,
           IF ~Known(method) THEN "unknown"
           ELSE IF Len(args) # Arity(method) THEN "arity" ELSE "checked")

\* nuvim lua: there is nothing to check.
Evaluates(server, args) == Begins("lua", "nvim_exec_lua", server, args, "checked")

\* A method of the generated client sends an array of its length.
CallsMethod(function, server) ==
    Begins("typed", function[1], server, [i \in 1..function[2] |-> Nothing], "checked")

\* The connection, and with it the conversion of the arguments; one that fails
\* ends the command with nothing sent.
Sends ==
    /\ command.phase = "checked"
    /\ LET converted == Each(FromNu[command.server], command.args)
       IN  IF AnyFailed(converted)
           THEN command' = [command EXCEPT !.phase = "refused"]
           ELSE command' = [command EXCEPT !.phase = "sent", !.sent = converted]
    /\ UNCHANGED <<codegenVars, running, held>>

CannotConnect ==
    /\ command.phase = "checked"
    /\ command' = [command EXCEPT !.phase = "unreachable"]
    /\ UNCHANGED <<codegenVars, running, held>>

\* The editor checks the method and the number of arguments by its own metadata;
\* nuvim lua sends its code and one list with the arguments.
Accepts(version, method, count) == <<method, count>> \in Api[version]
Count(c) == IF c.kind = "lua" THEN 2 ELSE Len(c.sent)

Answers(v) ==
    /\ command.phase = "sent"
    /\ Accepts(running[command.server], command.method, Count(command))
    /\ command' = [command EXCEPT !.phase = "answered", !.answer = v]
    /\ UNCHANGED <<codegenVars, running, held>>

Rejects ==
    /\ command.phase = "sent"
    /\ ~Accepts(running[command.server], command.method, Count(command))
    /\ command' = [command EXCEPT !.phase = "rejected"]
    /\ UNCHANGED <<codegenVars, running, held>>

\* What was called raises an error, or no response comes before the read timeout or
\* the end of the connection.
Errors ==
    /\ command.phase = "sent"
    /\ command' = [command EXCEPT !.phase = "errored"]
    /\ UNCHANGED <<codegenVars, running, held>>

Returns ==
    /\ command.phase = "answered"
    /\ LET value == ToNu[command.server][command.answer]
       IN  IF Failed(value)
           THEN held' = held /\ command' = [command EXCEPT !.phase = "unreadable"]
           ELSE /\ held' = [value |-> value, from |-> command.server, was |-> command.answer]
                /\ command' = Idle
    /\ UNCHANGED <<codegenVars, running>>

\* The error is shown.
Fails ==
    /\ command.phase \in {"unknown", "arity", "refused", "unreachable", "rejected", "errored",
                         "unreadable"}
    /\ command' = Idle
    /\ UNCHANGED <<codegenVars, running, held>>

Init ==
    /\ CodegenInit
    /\ running \in [Servers -> {v \in Versions : Parses(v)}]
    /\ held = NoResult
    /\ command = Idle

\* What the user may give: up to two words, one of them perhaps the result
\* held, and the result as input.
Given == Literals \cup {held.value}
Positional == {<<>>} \cup {<<a>> : a \in Given} \cup {<<a, held.value>> : a \in Literals}

Next ==
    \/ CodegenNext /\ UNCHANGED <<running, held, command>>
    \/ \E server \in Servers, p \in Positional, input \in {Nothing, held.value} :
          \/ \E method \in Methods : Calls(method, server, Appended(p, input))
          \/ Evaluates(server, Appended(p, input))
    \/ \E server \in Servers, function \in Used : CallsMethod(function, server)
    \/ Sends \/ CannotConnect \/ Rejects \/ Errors \/ Returns \/ Fails
    \/ command.phase = "sent" /\ \E v \in Samples[command.server] : Answers(v)

Spec == Init /\ [][Next]_vars

(***************************************************************************)
(* Correctness.                                                            *)
(***************************************************************************)

\* A value and the values in it, at any depth.
Inside[v \in Packed \cup Values] == {v} \cup UNION {Inside[w] : w \in Parts(v)}

\* The handles in a MessagePack value.
HandlesIn(v) == {w[2] : w \in {u \in Inside[v] : u[1] = "ext" /\ IsHandleTag(u[2][1])}}

\* The handles an editor has given out.
Own(server) == UNION {HandlesIn(v) : v \in Samples[server]}

\* No editor is sent a handle of another one, at whatever depth of lists, records,
\* tagged maps or pipeline arguments it is hidden: the numbers would name another
\* buffer there (nu_to_msgpack, append_pipeline_arguments).
HandlesStayHome ==
    \A i \in DOMAIN command.sent : HandlesIn(command.sent[i]) \subseteq Own(command.server)

\* Is it a map of strings that looks like a record with one of these tags?
LooksTagged(v, tags) ==
    /\ v[1] = "map" /\ Direct(v[2])
    /\ \E i \in DOMAIN v[2] : /\ v[2][i][1] = <<"str", "type">>
                              /\ v[2][i][2] \in {<<"str", t>> : t \in tags}
Ambiguous(v) == \E w \in Inside[v] : LooksTagged(w, Tags)

\* Is it the record of a handle or of an extension?
ExtensionTags == {"nvim-handle", "msgpack-ext"}
IsExtension(x) == x[1] = "record" /\ TagOf(x[2]) \in ExtensionTags

\* No map of an answer and no word of the user looks like one.
ASSUME NoLookAlikes ==
    /\ \A s \in Servers : \A v \in Samples[s] : \A w \in Inside[v] : ~LooksTagged(w, ExtensionTags)
    /\ \A x \in Literals : \A u \in Inside[x] : ~IsExtension(u)

\* Nushell's floats have 64 bits.
Wider(v, widened) ==
    CASE v[1] = "f32" -> <<"f64", v[2]>>
      [] v[1] = "array" -> <<"array", Each(widened, v[2])>>
      [] v[1] = "map" -> <<"map", [i \in DOMAIN v[2] |-> <<widened[v[2][i][1]], widened[v[2][i][2]]>>]>>
      [] OTHER -> v
Widened[v \in Packed] == Wider(v, Widened)

\* Is every handle in it a number Nushell can hold?
Readable(v) == \A h \in HandlesIn(v) : h[2][1] = "id" /\ h[2][2] <= MaxI64

\* Every answer can be read, but for malformed handles, and given back to its
\* editor by a later call arrives as it was: integers too great for Nushell,
\* strings that are no text, maps with other keys or with one twice, handles and
\* unknown extensions at any depth (msgpack_to_nu, nu_to_msgpack).
GivenBackUnchanged ==
    /\ command.phase = "unreadable" => ~Readable(command.answer)
    /\ (held.from = command.server /\ ~Ambiguous(held.was)) =>
          /\ command.args = <<held.value>> => command.phase # "refused"
          /\ command.phase \in {"sent", "answered"} =>
                \A i \in DOMAIN command.args :
                    command.args[i] = held.value => command.sent[i] = Widened[held.was]

\* With a file that has passed the check against the version of an editor, a call
\* to it is refused for its name or its number of arguments exactly when the
\* editor would refuse it, and then before anything is sent; and no method of the
\* client is refused (api_function, raw_call).
CheckedTableFits ==
    (command.phase # "idle" /\ verdict.fresh
        /\ Api[running[command.server]] = Api[verdict.against]) =>
        /\ command.phase # "rejected"
        /\ command.phase \in {"unknown", "arity"} =>
              ~Accepts(running[command.server], command.method, Len(command.args))

(***************************************************************************)
(* The inductive invariant.                                                *)
(***************************************************************************)
Phases == {"idle", "unknown", "arity", "checked", "refused", "unreachable", "sent", "rejected",
           "errored", "answered", "unreadable"}

\* Every variable has its type.
TypeOK ==
    /\ CodegenTypeOK
    /\ running \in [Servers -> Versions]
    /\ held \in [value : Values, from : Servers \cup {"none"}, was : Packed]
    /\ command \in [kind : {"none", "call", "lua", "typed"},
                    method : Methods \cup {f[1] : f \in Used} \cup {"none"},
                    server : Servers \cup {"none"}, args : Seq(Values), sent : Seq(Packed),
                    answer : Packed, phase : Phases]

\* A command has passed the table, or not.
Issued ==
    LET count == IF command.kind = "lua" THEN 2 ELSE Len(command.args) IN
    /\ command.phase # "idle" => shipped /\ command.server \in Servers
    /\ command.phase \in {"unknown", "arity"} => <<command.method, Len(command.args)>> \notin Api[file]
    /\ command.phase \notin {"idle", "unknown", "arity"} => <<command.method, count>> \in Api[file]
    /\ command.phase = "rejected" =>
          ~Accepts(running[command.server], command.method, Count(command))

\* What is held is what an editor has answered.
Holds ==
    IF held.from = "none" THEN held = NoResult
    ELSE held.was \in Samples[held.from] /\ held.value = ToNu[held.from][held.was]

\* The arguments are the user's words and what is held, or in it; what has been
\* sent is what they become.
Carried ==
    /\ \A i \in DOMAIN command.args :
          command.args[i] \in Literals \cup {Nothing} \cup Inside[held.value]
    /\ command.phase \in {"sent", "rejected", "errored", "answered", "unreadable"} =>
          /\ command.sent = Each(FromNu[command.server], command.args)
          /\ ~AnyFailed(command.sent)
    /\ command.phase \in {"idle", "unknown", "arity", "checked", "refused", "unreachable"} =>
          command.sent = <<>>
    /\ command.phase = "refused" => AnyFailed(Each(FromNu[command.server], command.args))
    /\ command.phase \in {"answered", "unreadable"} => command.answer \in Samples[command.server]
    /\ command.phase = "unreadable" => Failed(ToNu[command.server][command.answer])

IInv == TypeOK /\ Built /\ CheckIsParity /\ Issued /\ Holds /\ Carried

=============================================================================
