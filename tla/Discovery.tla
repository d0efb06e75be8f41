----------------------------- MODULE Discovery -----------------------------
(***************************************************************************)
(* How a command of nuvim finds its editor: --server, $NVIM, or the        *)
(* sockets below Neovim's runtime directories (server.rs, and connect,     *)
(* root and servers of commands.rs), while editors start, crash, exit and  *)
(* become too busy to answer in time.                                      *)
(*                                                                         *)
(* A directory is read entry by entry, the candidates are probed one after *)
(* the other.  One command at a time: commands change nothing they share.  *)
(***************************************************************************)
EXTENDS Naturals, SequencesExt, Ordering

CONSTANTS
    Names,    \* paths of sockets, in their order
    Layouts,  \* sequences of directories, each the sockets that can be below it
    Kinds,    \* "connect" (any command that makes calls), "root", "servers"
    MaxTime   \* bound of the model on the modification times

Sockets == ToSet(Names)

ASSUME DiscoveryAssumption ==
    /\ Names \in Seq(Sockets) /\ IsInjective(Names)
    /\ {"absent", "empty"} \cap Sockets = {}
    /\ Layouts \subseteq Seq(SUBSET Sockets)
    /\ Kinds \subseteq {"connect", "root", "servers"}
    /\ MaxTime \in Nat \ {0}

VARIABLES
    editor,     \* "none", "up", "busy" or "gone"
    file,       \* is the socket there?
    born,       \* its modification time, 0 if it cannot be read
    now,        \* the time
    kind, flag, engineVar, processVar, layout,  \* what the command has to go by:
                \* --server, $NVIM of Nushell and of the plugin, the directories
    pc, roots, todo, found, rest, live, rows,   \* locals of the command
    target,     \* the address it connects to
    result,
    contacted,  \* history: whom the command has tried to reach
    steady      \* history: who has been up since the command began

world == <<editor, file, born, now, steady>>
given == <<kind, flag, engineVar, processVar, layout>>
search == <<roots, todo, found>>
vars == <<world, given, pc, search, rest, live, rows, target, result, contacted>>

Address == Sockets \cup {"absent", "empty"}
Unknown == [how |-> "none"]
Failed(why) == [how |-> "error", why |-> why]
Server(p, how) == [how |-> how, path |-> p]
Visible == UNION ToSet(layout)

(***************************************************************************)
(* The editors.                                                            *)
(***************************************************************************)
Listens(p) == file[p] /\ editor[p] \in {"up", "busy"}
Answers(p) == file[p] /\ editor[p] = "up"

\* The name of a socket has the process identifier in it and is used once.
Starts(p) ==
    /\ editor[p] = "none"
    /\ \E t \in now..MaxTime : now' = t /\ born' = [born EXCEPT ![p] = t]
    /\ editor' = [editor EXCEPT ![p] = "up"]
    /\ file' = [file EXCEPT ![p] = TRUE]
    /\ UNCHANGED steady

Becomes(p, from, to) ==
    /\ editor[p] \in from
    /\ editor' = [editor EXCEPT ![p] = to]
    /\ steady' = steady \ {p}
    /\ UNCHANGED <<born, now>>

Slows(p) == Becomes(p, {"up"}, "busy") /\ UNCHANGED file
Recovers(p) == Becomes(p, {"busy"}, "up") /\ UNCHANGED file
Crashes(p) == Becomes(p, {"up", "busy"}, "gone") /\ UNCHANGED file
Exits(p) == Becomes(p, {"up", "busy"}, "gone") /\ file' = [file EXCEPT ![p] = FALSE]

Editors ==
    /\ result = Unknown
    /\ \E p \in Sockets : Starts(p) \/ Slows(p) \/ Recovers(p) \/ Crashes(p) \/ Exits(p)
    /\ UNCHANGED <<given, pc, search, rest, live, rows, target, result, contacted>>

(***************************************************************************)
(* The command.                                                            *)
(***************************************************************************)
Command == UNCHANGED <<world, given>>

\* What a command asks before it looks for sockets, in this order.
Either(a, b) == IF a # "absent" THEN a ELSE b
Asked ==
    CASE kind = "connect" -> Either(flag, Either(engineVar, processVar))
      [] kind = "root"    -> Either(flag, engineVar)
      [] kind = "servers" -> "absent"

Ends(r) == pc' = "done" /\ result' = r

Start ==
    /\ pc = "start"
    /\ CASE Asked = "absent"   -> pc' = "reading" /\ UNCHANGED <<target, result>>
         [] Asked = "empty"    -> Ends(Failed("empty")) /\ UNCHANGED target
         [] Asked \in Sockets  -> pc' = "contact" /\ target' = Asked /\ UNCHANGED result
    /\ Command /\ UNCHANGED <<search, rest, live, rows, contacted>>

\* read_dir of the next directory
OpensRoot ==
    /\ pc = "reading" /\ todo = {} /\ roots # <<>>
    /\ todo' = Head(roots)
    /\ roots' = Tail(roots)
    /\ Command /\ UNCHANGED <<pc, found, rest, live, rows, target, result, contacted>>

\* An entry: a socket that goes away between the listing and its metadata has
\* the oldest time of all.
Visits(p) ==
    /\ pc = "reading" /\ p \in todo
    /\ todo' = todo \ {p}
    /\ \/ file[p] /\ found' = Append(found, [path |-> p, time |-> born[p]])
       \/ ~file[p] /\ UNCHANGED found
       \/ ~file[p] /\ editor[p] = "gone" /\ found' = Append(found, [path |-> p, time |-> 0])
    /\ Command /\ UNCHANGED <<pc, roots, rest, live, rows, target, result, contacted>>

Precedes(p, q) == \E i, j \in 1..Len(Names) : i < j /\ Names[i] = p /\ Names[j] = q

\* Mutant: the order says nothing of sockets of one time.
PrecedesByTime(a, b) == a.time > b.time

\* The newest first, and by path within one time.
PrecedesEntry(a, b) ==
    a.time > b.time \/ (a.time = b.time /\ Precedes(a.path, b.path))

\* sort_by keeps entries that are equal in the order they have.
Sooner(s) ==
    {ij \in (DOMAIN s) \X (DOMAIN s) :
        \/ PrecedesEntry(s[ij[1]], s[ij[2]])
        \/ ~PrecedesEntry(s[ij[2]], s[ij[1]]) /\ ij[1] < ij[2]}

Sorted(s) ==
    LET places == Enumerated(DOMAIN s, Sooner(s)) IN [k \in DOMAIN s |-> s[places[k]]]

\* dedup_by drops an entry of the same path as the one before it.
Deduplicated(s) ==
    LET kept == {i \in DOMAIN s : i > 1 => s[i].path # s[i - 1].path}
        places == Enumerated(kept, Ascending(kept))
    IN  [k \in DOMAIN places |-> s[places[k]]]

Candidates(s) ==
    LET entries == Deduplicated(Sorted(s)) IN [k \in DOMAIN entries |-> entries[k].path]

ToProbes ==
    /\ pc = "reading" /\ todo = {} /\ roots = <<>>
    /\ pc' = "probing"
    /\ rest' = Candidates(found)
    /\ Command /\ UNCHANGED <<search, live, rows, target, result, contacted>>

\* is_neovim_server: connects and calls within 200 ms each, or not
Probes ==
    /\ pc = "probing" /\ rest # <<>>
    /\ rest' = Tail(rest)
    /\ contacted' = contacted \cup {Head(rest)}
    /\ live' = IF Answers(Head(rest)) THEN Append(live, Head(rest)) ELSE live
    /\ Command /\ UNCHANGED <<pc, search, rows, target, result>>

\* Mutant: the newest of several is taken.
SettlesOnNewest ==
    /\ pc = "probing" /\ rest = <<>> /\ kind = "connect"
    /\ IF live = <<>> THEN Ends(Failed("missing")) /\ UNCHANGED target
       ELSE pc' = "contact" /\ target' = Head(live) /\ UNCHANGED result
    /\ Command /\ UNCHANGED <<search, rest, live, rows, contacted>>

\* discover_server: exactly one
Settles ==
    /\ pc = "probing" /\ rest = <<>> /\ kind = "connect"
    /\ CASE Len(live) = 0 -> Ends(Failed("missing")) /\ UNCHANGED target
         [] Len(live) = 1 -> pc' = "contact" /\ target' = live[1] /\ UNCHANGED result
         [] Len(live) > 1 -> Ends(Failed("multiple")) /\ UNCHANGED target
    /\ Command /\ UNCHANGED <<search, rest, live, rows, contacted>>

\* root and servers ask every live editor again, for its record.
ToRecords ==
    /\ pc = "probing" /\ rest = <<>> /\ kind # "connect"
    /\ pc' = "recording"
    /\ rest' = live
    /\ Command /\ UNCHANGED <<search, live, rows, target, result, contacted>>

Records ==
    /\ pc = "recording" /\ rest # <<>>
    /\ rest' = Tail(rest)
    /\ rows' = IF Answers(Head(rest)) THEN Append(rows, Head(rest)) ELSE rows
    /\ Command /\ UNCHANGED <<pc, search, live, target, result, contacted>>

Shows ==
    /\ pc = "recording" /\ rest = <<>>
    /\ CASE kind = "servers" -> Ends([how |-> "list"])
         [] kind = "root" /\ Len(rows) = 0 -> Ends(Failed("missing"))
         [] kind = "root" /\ Len(rows) = 1 -> Ends(Server(rows[1], "found"))
         [] kind = "root" /\ Len(rows) > 1 -> pc' = "picking" /\ UNCHANGED result
    /\ Command /\ UNCHANGED <<search, rest, live, rows, target, contacted>>

\* `input list`: a row, or nothing
Picks ==
    /\ pc = "picking"
    /\ \/ \E p \in ToSet(rows) : Ends(Server(p, "picked"))
       \/ Ends(Failed("cancelled"))
    /\ Command /\ UNCHANGED <<search, rest, live, rows, target, contacted>>

\* Mutant: an editor that cannot be reached makes the command look for others.
ContactsOrSearches ==
    /\ pc = "contact"
    /\ contacted' = contacted \cup {target}
    /\ IF IF kind = "connect" THEN Listens(target) ELSE Answers(target)
       THEN Ends(Server(target, IF Asked = target THEN "asked" ELSE "found"))
       ELSE pc' = "reading" /\ UNCHANGED result
    /\ Command /\ UNCHANGED <<search, rest, live, rows, target>>

\* RpcClient::connect waits for a busy editor, server_record does not.
Contacts ==
    /\ pc = "contact"
    /\ contacted' = contacted \cup {target}
    /\ IF IF kind = "connect" THEN Listens(target) ELSE Answers(target)
       THEN Ends(Server(target, IF Asked = target THEN "asked" ELSE "found"))
       ELSE Ends(Failed("unreachable"))
    /\ Command /\ UNCHANGED <<search, rest, live, rows, target>>

(***************************************************************************)
(* The specification.                                                      *)
(***************************************************************************)
Init ==
    /\ now \in 1..MaxTime
    /\ editor \in [Sockets -> {"none", "up", "busy", "gone"}]
    /\ file \in [Sockets -> BOOLEAN]
    /\ \A p \in Sockets : /\ editor[p] = "none" => ~file[p]
                          /\ editor[p] \in {"up", "busy"} => file[p]
    /\ born \in [Sockets -> 0..now]
    /\ \A p \in Sockets : born[p] = 0 <=> ~file[p]
    /\ kind \in Kinds
    /\ flag \in Address /\ engineVar \in Address /\ processVar \in Address
    /\ layout \in Layouts
    /\ pc = "start"
    /\ roots = layout
    /\ todo = {} /\ found = <<>> /\ rest = <<>> /\ live = <<>> /\ rows = <<>>
    /\ target = "absent"
    /\ result = Unknown
    /\ contacted = {}
    /\ steady = {p \in Sockets : editor[p] = "up"}

Next ==
    \/ Editors
    \/ Start \/ OpensRoot \/ (\E p \in Sockets : Visits(p)) \/ ToProbes
    \/ Probes \/ Settles \/ ToRecords \/ Records \/ Shows \/ Picks \/ Contacts

Spec == Init /\ [][Next]_vars

(***************************************************************************)
(* Safety.                                                                 *)
(***************************************************************************)

\* How a command ends.
Outcomes ==
    {Unknown, [how |-> "list"]}
        \cup {Server(p, how) : p \in Sockets, how \in {"asked", "found", "picked"}}
        \cup {Failed(why) : why \in {"empty", "missing", "multiple", "cancelled", "unreachable"}}

\* Every variable has its type.
TypeOK ==
    /\ editor \in [Sockets -> {"none", "up", "busy", "gone"}]
    /\ file \in [Sockets -> BOOLEAN]
    /\ born \in [Sockets -> 0..MaxTime]
    /\ now \in 1..MaxTime
    /\ kind \in Kinds /\ layout \in Layouts
    /\ flag \in Address /\ engineVar \in Address /\ processVar \in Address
    /\ pc \in {"start", "reading", "probing", "recording", "picking", "contact", "done"}
    /\ roots \in Seq(SUBSET Sockets) /\ todo \subseteq Sockets
    /\ found \in Seq([path : Sockets, time : 0..MaxTime])
    /\ rest \in Seq(Sockets) /\ live \in Seq(Sockets) /\ rows \in Seq(Sockets)
    /\ target \in Sockets \cup {"absent"}
    /\ result \in Outcomes
    /\ contacted \subseteq Sockets /\ steady \subseteq Sockets

\* The live editors are listed once each and from the newest to the oldest,
\* although the directories may overlap, the times be equal, and sockets come
\* and go while they are read.
ListedInOrder ==
    \A s \in {live, rows} : \A i, j \in 1..Len(s) :
        i < j => \/ born[s[i]] > born[s[j]]
                 \/ born[s[i]] = born[s[j]] /\ Precedes(s[i], s[j])

\* A command never settles on an editor while it overlooks another: whoever
\* has answered all along is the one it takes, or in its list, and it only
\* finds nobody, or too many, if that is so.
SteadyAreFound ==
    LET overlooked == (steady \cap Visible) IN
    Asked = "absent" =>
        /\ result.how = "found" => overlooked \subseteq {result.path}
        /\ result.how \in {"list", "picked"} => overlooked \subseteq ToSet(rows)
        /\ result = Failed("missing") => overlooked = {}
        /\ result = Failed("multiple") => Cardinality(ToSet(live)) > 1

\* A command that has been told where to go contacts nobody else, whether or
\* not it gets there.
NoFallback ==
    LET told == Either(flag, engineVar) IN
    (kind # "servers" /\ told # "absent") => contacted \subseteq {told}

\* docs/architecture.md: commands discover standard runtime sockets when
\* --server and $NVIM are both absent.
DiscoversWhenAbsent ==
    (flag = "absent" /\ engineVar = "absent" /\ result.how \in {"asked", "found"})
        => result.path \in ToSet(live)

(***************************************************************************)
(* The inductive invariant.                                                *)
(***************************************************************************)

\* Who is up has a socket; who has been up all along is.
World ==
    \A p \in Sockets : /\ editor[p] = "none" => ~file[p]
                       /\ editor[p] \in {"up", "busy"} => file[p]
                       /\ p \in steady => editor[p] = "up"

\* Only a command that is not told where to go looks for sockets.
Searching == pc \in {"reading", "probing", "recording", "picking"}

Directed ==
    /\ Searching => Asked = "absent"
    /\ pc = "recording" => kind # "connect"
    /\ pc \in {"start", "reading"} => contacted = {}
    /\ pc = "contact" => target \in Sockets /\ (Asked # "absent" => target = Asked)
    /\ Asked # "absent" => contacted \subseteq {Asked}
    /\ result = Unknown <=> pc # "done"

\* What has been found has been there; unless it has gone, its time is known.
Known(p) == editor[p] # "none"
Dated == \A i \in DOMAIN found : LET c == found[i] IN
             Known(c.path) /\ (editor[c.path] # "gone" => c.time = born[c.path])

Newer(p, q) == born[p] > born[q] \/ (born[p] = born[q] /\ Precedes(p, q))
Ordered(s) == \A i, j \in DOMAIN s : i < j => Newer(s[i], s[j])

Lasting(p) == editor[p] # "gone"

\* Of two candidates that have not gone the first is the newer one.
InOrder ==
    /\ \A s \in {rest, live, rows} : \A i \in DOMAIN s : Known(s[i])
    /\ Ordered(live) /\ Ordered(rows)
    /\ pc \in {"start", "reading"} => live = <<>>
    /\ pc \in {"start", "reading", "probing"} => rows = <<>>
    /\ pc = "probing" =>
          /\ \A i, j \in DOMAIN rest :
                i < j /\ Lasting(rest[i]) /\ Lasting(rest[j]) => Newer(rest[i], rest[j])
          /\ \A i \in DOMAIN live, j \in DOMAIN rest :
                Lasting(rest[j]) => Newer(live[i], rest[j])
    /\ pc = "recording" =>
          /\ Ordered(rest)
          /\ \A i \in DOMAIN rows, j \in DOMAIN rest : Newer(rows[i], rest[j])

\* Where whoever has answered all along is to be found.
Covered ==
    Asked = "absent" => \A p \in steady \cap Visible :
        /\ pc \in {"start", "reading"} =>
              \/ p \in todo \cup UNION ToSet(roots)
              \/ \E i \in DOMAIN found : found[i].path = p
        /\ pc = "probing" => p \in ToSet(rest) \cup ToSet(live)
        /\ pc = "recording" => p \in ToSet(rest) \cup ToSet(rows)
        /\ pc = "picking" => p \in ToSet(rows)
        /\ pc = "contact" => p = target

IInv == TypeOK /\ World /\ Directed /\ Dated /\ InOrder /\ Covered /\ SteadyAreFound

=============================================================================
