----------------------------- MODULE Quickfix -----------------------------
(***************************************************************************)
(* nuvim quickfix get, set, history and open (quickfix.rs, quickfix.lua):  *)
(* the quickfix lists of an editor and the location lists of its windows,  *)
(* each a history of bounded length, changed by commands that name a list  *)
(* by an identity they got earlier and by a user at the same time.         *)
(*                                                                         *)
(* A command is one call of a chunk of Lua, hence one step.  A position is *)
(* a sequence of at most one number; an item has one position, for its     *)
(* four.  Contexts, ticks and the kinds of errors are left out.            *)
(***************************************************************************)
EXTENDS Integers, Sequences

CONSTANTS
    Windows,    \* of the editor
    Flags,      \* that users give for --window: "none", "current" (0) or a window
    Titles,     \* that users give
    Inputs,     \* sequences of items that users give
    MaxLists,   \* that a history holds
    MaxLine,    \* the greatest line number the editor can hold
    MaxU64,     \* u64::MAX
    MaxId,      \* bound: identities given out
    MaxItems    \* bound: the items of a list

ASSUME QuickfixAssumption ==
    /\ "quickfix" \notin Windows /\ "none" \notin Windows /\ Windows # {}
    /\ Flags \subseteq {"none", "current"} \cup Windows
    /\ MaxLists \in Nat \ {0} /\ MaxLine \in Nat /\ MaxU64 \in Nat
    /\ MaxId \in Nat /\ MaxItems \in Nat
    /\ Inputs \subseteq Seq(Seq(Int))
    /\ \A input \in Inputs : \A i \in DOMAIN input : Len(input[i]) <= 1

VARIABLES
    stacks,  \* the history of the quickfix lists and of each window's location lists
    lastId,  \* the identity given out last
    open,    \* the windows there are
    focus,   \* the current window
    reply    \* the last command and what it returned

vars == <<stacks, lastId, open, focus, reply>>

Places == {"quickfix"} \cup Windows
GivenTitles == Titles \cup {""}
AllTitles == Titles \cup {"", "Nuvim", ":setqflist()", ":grep"}
NoId == -1
Empty == [lists |-> <<>>, at |-> 0]
NoReply == [op |-> "none", place |-> "none", id |-> NoId, action |-> "none", title |-> "",
            given |-> <<>>, records |-> <<>>, rows |-> <<>>]

(***************************************************************************)
(* Positions.                                                              *)
(***************************************************************************)

\* optional_position, push_one_based: a negative number or one that has no
\* successor is refused.
Converts(input) ==
    \A i \in DOMAIN input : \A j \in DOMAIN input[i] :
        input[i][j] >= 0 /\ input[i][j] + 1 <= MaxU64

\* Mutant: the number is not moved by one.
OneBasedAsIs(position) == position[1]

\* push_one_based
OneBased(position) == position[1] + 1

\* A line number in the editor has fewer bits, and is 0 if there is none.
Held(n) == ((n + MaxLine + 1) % (2 * MaxLine + 2)) - (MaxLine + 1)
Line(position) == IF position = <<>> THEN 0 ELSE Held(OneBased(position))

\* The items as the editor holds them, and as they were asked for.
Entries(input) == [i \in DOMAIN input |-> [line |-> Line(input[i]), asked |-> input[i]]]

\* quickfix.lua: a line greater than 0, moved back.
Row(entry) == IF entry.line > 0 THEN <<entry.line - 1>> ELSE <<>>

(***************************************************************************)
(* The editor's histories.                                                 *)
(***************************************************************************)

\* A new list comes behind the current one: those behind it are dropped, and the
\* oldest one if there is no room.
Extended(stack, list) ==
    LET kept == SubSeq(stack.lists, 1, stack.at)
        rest == IF stack.at = MaxLists THEN Tail(kept) ELSE kept
    IN  [lists |-> Append(rest, list), at |-> Len(rest) + 1]

\* The places where a list of this identity is.
Named(stack, id) == {i \in DOMAIN stack.lists : stack.lists[i].id = id}

\* What getqflist says of the list in this place, or that there is none.
Metadata(stack, i) ==
    IF i \in DOMAIN stack.lists
    THEN [id |-> stack.lists[i].id, nr |-> i, title |-> stack.lists[i].title,
          count |-> Len(stack.lists[i].items), current |-> i = stack.at]
    ELSE [id |-> 0, nr |-> 0, title |-> "", count |-> 0, current |-> stack.at = 0]

(***************************************************************************)
(* Commands.                                                               *)
(***************************************************************************)

\* The place --window names: "none" for no flag, "current" for 0.
Place(window) ==
    CASE window = "none" -> "quickfix"
      [] window = "current" -> focus
      [] OTHER -> window

\* Is it there?
Valid(window) == Place(window) \in {"quickfix"} \cup open

\* There is a list of this identity, if one is given.
Exists(stack, id) == id = NoId \/ (id > 0 /\ Named(stack, id) # {})

\* Mutant: the newest list, not the current one, is taken.
SelectedNewest(stack, id) ==
    IF id \in {NoId, 0} THEN Len(stack.lists) ELSE CHOOSE i \in Named(stack, id) : TRUE

\* The list a command is about: that of the identity, or the current one.
Selected(stack, id) ==
    IF id \in {NoId, 0} THEN stack.at ELSE CHOOSE i \in Named(stack, id) : TRUE

\* The title after a set with this --title, "" for none.
TitleFor(action, given, old) ==
    IF given # "" THEN given ELSE IF action # "append" THEN "Nuvim" ELSE old

\* Mutant: an update also selects the list.
WrittenAndSelected(stack, i, action, title, entries) ==
    [lists |-> [stack.lists EXCEPT
                   ![i].items = IF action = "append" THEN @ \o entries ELSE entries,
                   ![i].title = TitleFor(action, title, @)],
     at |-> i]

\* setqflist with "a" or "r" for the list in this place.
Written(stack, i, action, title, entries) ==
    [stack EXCEPT !.lists[i].items = IF action = "append" THEN @ \o entries ELSE entries,
                  !.lists[i].title = TitleFor(action, title, @)]

\* setqflist with " ", or for a history without lists.
Created(stack, action, title, entries) ==
    Extended(stack, [id |-> lastId + 1, title |-> TitleFor(action, title, ":setqflist()"),
                     items |-> entries])

Asked(op, window, id) == [NoReply EXCEPT !.op = op, !.place = Place(window), !.id = id]

Failed == [NoReply EXCEPT !.op = "error"]

Replies(r) == reply = NoReply /\ reply' = r

\* quickfix set of a new list.
SetsNew(window, action, title, input) ==
    /\ Converts(input) /\ Valid(window)
    /\ action = "new" \/ stacks[Place(window)].lists = <<>>
    /\ Len(input) <= MaxItems /\ lastId < MaxId
    /\ LET place == Place(window)
           stack == Created(stacks[place], action, title, Entries(input))
       IN  /\ stacks' = [stacks EXCEPT ![place] = stack]
           /\ Replies([Asked("set", window, NoId) EXCEPT
                         !.action = action, !.title = title, !.given = input,
                         !.records = <<Metadata(stack, Selected(stack, NoId))>>])
    /\ lastId' = lastId + 1
    /\ UNCHANGED <<open, focus>>

\* quickfix set of a list that is there.
SetsOld(window, action, id, title, input) ==
    /\ Converts(input) /\ Valid(window)
    /\ action # "new"
    /\ LET place == Place(window)
           old == stacks[place]
           i == Selected(old, id)
           stack == Written(old, i, action, title, Entries(input))
       IN  /\ Exists(old, id) /\ old.lists # <<>>
           /\ Len(input) + (IF action = "append" THEN Len(old.lists[i].items) ELSE 0) <= MaxItems
           /\ stacks' = [stacks EXCEPT ![place] = stack]
           /\ Replies([Asked("set", window, id) EXCEPT
                         !.action = action, !.title = title, !.given = input,
                         !.records = <<Metadata(stack, Selected(stack, id))>>])
    /\ UNCHANGED <<lastId, open, focus>>

\* An input that cannot be converted fails before there is a connection.
Refuses(input) ==
    /\ ~Converts(input)
    /\ Replies(Failed)
    /\ UNCHANGED <<stacks, lastId, open, focus>>

\* A window or a list that is not there, a new list with an identity, or an action of
\* another name.
SetFails(window, action, id) ==
    /\ \/ ~Valid(window)
       \/ ~Exists(stacks[Place(window)], id)
       \/ action = "new" /\ id # NoId
       \/ action \notin {"new", "append", "replace"}
    /\ Replies(Failed)
    /\ UNCHANGED <<stacks, lastId, open, focus>>

\* quickfix get, with the details.
Gets(window, id) ==
    /\ Valid(window)
    /\ LET stack == stacks[Place(window)]
           i == Selected(stack, id)
           entries == IF i = 0 THEN <<>> ELSE stack.lists[i].items
       IN  /\ Exists(stack, id)
           /\ Replies([Asked("get", window, id) EXCEPT
                         !.records = <<Metadata(stack, i)>>,
                         !.rows = [j \in DOMAIN entries |-> Row(entries[j])]])
    /\ UNCHANGED <<stacks, lastId, open, focus>>

GetFails(window, id) ==
    /\ ~Valid(window) \/ ~Exists(stacks[Place(window)], id)
    /\ Replies(Failed)
    /\ UNCHANGED <<stacks, lastId, open, focus>>

\* quickfix history
Recalls(window) ==
    /\ Valid(window)
    /\ LET stack == stacks[Place(window)]
       IN  Replies([Asked("history", window, NoId) EXCEPT
                      !.records = [nr \in DOMAIN stack.lists |-> Metadata(stack, nr)]])
    /\ UNCHANGED <<stacks, lastId, open, focus>>

\* quickfix open: the window of the list becomes the current one.
Opens(height, w) ==
    /\ reply = NoReply
    /\ IF height <= 0
       THEN reply' = Failed /\ UNCHANGED <<open, focus>>
       ELSE reply' = [NoReply EXCEPT !.op = "open"] /\ open' = open \cup {w} /\ focus' = w
    /\ UNCHANGED <<stacks, lastId>>

\* The command is over.
Ends ==
    /\ reply # NoReply
    /\ reply' = NoReply
    /\ UNCHANGED <<stacks, lastId, open, focus>>

(***************************************************************************)
(* The user, and plugins of the editor.                                    *)
(***************************************************************************)

\* :colder, :cnewer, :lolder and :lnewer
Moves(place, i) ==
    /\ reply = NoReply
    /\ i \in DOMAIN stacks[place].lists
    /\ stacks' = [stacks EXCEPT ![place].at = i]
    /\ UNCHANGED <<lastId, open, focus, reply>>

\* :grep, :lgrep
Greps(place, input) ==
    /\ reply = NoReply
    /\ place \in {"quickfix"} \cup open
    /\ Len(input) <= MaxItems /\ lastId < MaxId
    /\ stacks' = [stacks EXCEPT ![place] =
                     Extended(@, [id |-> lastId + 1, title |-> ":grep", items |-> Entries(input)])]
    /\ lastId' = lastId + 1
    /\ UNCHANGED <<open, focus, reply>>

\* setqflist([], "f")
Clears(place) ==
    /\ reply = NoReply
    /\ stacks' = [stacks EXCEPT ![place] = Empty]
    /\ UNCHANGED <<lastId, open, focus, reply>>

Enters(w) ==
    /\ reply = NoReply
    /\ w \in open
    /\ focus' = w
    /\ UNCHANGED <<stacks, lastId, open, reply>>

\* The lists of a window go with it.
Closes(w) ==
    /\ reply = NoReply
    /\ w \in open \ {focus}
    /\ open' = open \ {w}
    /\ stacks' = [stacks EXCEPT ![w] = Empty]
    /\ UNCHANGED <<lastId, focus, reply>>

Init ==
    /\ stacks = [place \in Places |-> Empty]
    /\ lastId = 0
    /\ open \in {{w} : w \in Windows}
    /\ focus \in open
    /\ reply = NoReply

Ids == {NoId, 0} \cup 1..MaxId
Actions == {"new", "append", "replace"}

Command ==
    \/ \E window \in Flags, action \in Actions, title \in GivenTitles, input \in Inputs :
          \/ SetsNew(window, action, title, input)
          \/ \E id \in Ids : SetsOld(window, action, id, title, input)
    \/ \E input \in Inputs : Refuses(input)
    \/ \E window \in Flags, id \in Ids :
          \/ \E action \in Actions \cup {"insert"} : SetFails(window, action, id)
          \/ Gets(window, id)
          \/ GetFails(window, id)
    \/ \E window \in Flags : Recalls(window)
    \/ \E height \in 0..1, w \in Windows : Opens(height, w)

User ==
    \/ \E place \in Places : Clears(place) \/ \E i \in 1..MaxLists : Moves(place, i)
    \/ \E place \in Places, input \in Inputs : Converts(input) /\ Greps(place, input)
    \/ \E w \in Windows : Enters(w) \/ Closes(w)

Next == Command \/ Ends \/ User

Spec == Init /\ [][Next]_vars

(***************************************************************************)
(* Correctness.                                                            *)
(***************************************************************************)

\* What the editor holds of a position.
Entry ==
    {e \in [line : Int, asked : Seq(Int)] :
        /\ e.line = Line(e.asked)
        /\ e.asked = <<>> \/ (Len(e.asked) = 1 /\ e.asked[1] >= 0)}

List == [id : Nat \ {0}, title : AllTitles, items : Seq(Entry)]

Stack == [lists : Seq(List), at : Nat]

\* A history with lists has a current one.
HasCurrent(stack) ==
    stack.at \in 0..Len(stack.lists) /\ (stack.at = 0 => stack.lists = <<>>)

\* The variables have their types.
TypeOK ==
    /\ stacks \in [Places -> Stack]
    /\ \A p \in Places : HasCurrent(stacks[p])
    /\ lastId \in Nat
    /\ open \subseteq Windows /\ focus \in open

\* No history is longer than the editor's limit.
Bounded == \A p \in Places : Len(stacks[p].lists) <= MaxLists

\* An identity is that of one list of one history.
IdentitiesDiffer ==
    \A p, q \in Places :
        \A i \in DOMAIN stacks[p].lists, j \in DOMAIN stacks[q].lists :
            /\ stacks[p].lists[i].id <= lastId
            /\ stacks[p].lists[i].id = stacks[q].lists[j].id => p = q /\ i = j

IInv == TypeOK /\ Bounded /\ IdentitiesDiffer

\* A list that was updated by this command.
Follows(old, new, r) ==
    /\ new.id = old.id
    /\ r.action = "append" => /\ new.items = old.items \o Entries(r.given)
                              /\ r.title = "" => new.title = old.title

\* A set with --id changes the list of this identity and nothing else: no other list,
\* no history of another window, and not which list is current; appending keeps what
\* was there, and the title if none is given (quickfix.lua, docs/automation.md).
UpdatesAreExact ==
    [][(reply'.op = "set" /\ reply' # reply /\ reply'.id # NoId) =>
          LET old == stacks[reply'.place]  new == stacks'[reply'.place]
          IN  /\ \A p \in Places \ {reply'.place} : stacks'[p] = stacks[p]
              /\ new.at = old.at /\ DOMAIN new.lists = DOMAIN old.lists
              /\ \A i \in DOMAIN old.lists :
                    IF old.lists[i].id = reply'.id THEN Follows(old.lists[i], new.lists[i], reply')
                    ELSE new.lists[i] = old.lists[i]
              /\ \E i \in DOMAIN old.lists : old.lists[i].id = reply'.id]_vars

\* Does a record describe a list of this history?
Describes(r, stack) ==
    /\ r.nr \in DOMAIN stack.lists
    /\ r.id = stack.lists[r.nr].id /\ r.title = stack.lists[r.nr].title
    /\ r.count = Len(stack.lists[r.nr].items)
    /\ r.current <=> r.nr = stack.at

\* What set returns is the record of the list it has written, of the one named or the
\* current one, with the items given at its end; what history returns are all lists
\* in their order, just one of them current (metadata in quickfix.lua).
RepliesAreTrue ==
    LET stack == stacks[reply.place]  first == reply.records[1]
    IN  /\ reply.op = "set" =>
              /\ Describes(first, stack)
              /\ IF reply.id = NoId THEN first.current ELSE first.id = reply.id
              /\ LET items == stack.lists[first.nr].items
                 IN  SubSeq(items, Len(items) - Len(reply.given) + 1, Len(items)) = Entries(reply.given)
        /\ reply.op = "history" =>
              /\ Len(reply.records) = Len(stack.lists)
              /\ \A i \in DOMAIN reply.records : Describes(reply.records[i], stack)
              /\ \A i, j \in DOMAIN reply.records :
                    (reply.records[i].id = reply.records[j].id
                        \/ (reply.records[i].current /\ reply.records[j].current)) => i = j

\* A position that the editor can hold comes back from get as it was given to set, 0
\* and an absent one included (push_one_based, quickfix.lua).
PositionsComeBack ==
    reply.op = "get" =>
        \A j \in DOMAIN reply.rows :
            LET given == stacks[reply.place].lists[reply.records[1].nr].items[j].asked
            IN  (given = <<>> \/ given[1] < MaxLine) => reply.rows[j] = given
=============================================================================
