-------------------------- MODULE QuickfixProofs --------------------------
(***************************************************************************)
(* Quickfix: in every reachable state each identity is that of one list of *)
(* one history, none longer than the limit; hence an update with --id      *)
(* changes that list and nothing else, and what set and history return is  *)
(* true of the lists, for any number of windows, lists and users.          *)
(***************************************************************************)
EXTENDS Quickfix, SequenceTheorems, TLAPS

\* A history within the limit, with a current list if it has any.
Good(stack) ==
    /\ stack \in Stack
    /\ HasCurrent(stack)
    /\ Len(stack.lists) <= MaxLists

\* The current list is the last one, and before it are lists of the old history, in
\* their order.
Renews(new, old) ==
    /\ new.at = Len(new.lists) /\ new.at \in DOMAIN new.lists
    /\ \E d \in Nat : \A i \in DOMAIN new.lists :
          i = new.at \/ (i + d \in DOMAIN old.lists /\ new.lists[i] = old.lists[i + d])

\* What IInv says of one history.
LEMMA GoodAt ==
    ASSUME IInv, NEW p \in Places
    PROVE  Good(stacks[p])
<1>1. stacks \in [Places -> Stack]
  BY DEF IInv, TypeOK
<1>2. stacks[p] \in Stack
  BY <1>1
<1>3. HasCurrent(stacks[p])
  BY DEF IInv, TypeOK
<1>4. Len(stacks[p].lists) <= MaxLists
  BY DEF IInv, Bounded
<1>. QED BY <1>2, <1>3, <1>4 DEF Good

(***************************************************************************)
(* The operators on lists and histories.                                   *)
(***************************************************************************)

\* A position that is not absent is one number.
LEMMA OneAtMost ==
    ASSUME NEW p \in Seq(Int), Len(p) <= 1, p # <<>>
    PROVE  Len(p) = 1 /\ p[1] \in Int /\ DOMAIN p = {1}
<1>1. Len(p) \in Nat /\ Len(p) # 0
  BY EmptySeq
<1>2. Len(p) = 1
  <2>1. \A n \in Nat : n <= 1 /\ n # 0 => n = 1
    BY ONLY TRUE
  <2>. QED BY <1>1, <2>1, Zenon
<1>3. DOMAIN p = 1..1 /\ 1 \in 1..1
  BY <1>2
<1>4. 1..1 = {1}
  OBVIOUS
<1>5. p[1] \in Int
  BY <1>3
<1>. QED BY <1>2, <1>3, <1>4, <1>5

\* What the editor holds of an item is an entry.
LEMMA EntriesAreEntries ==
    ASSUME NEW input \in Inputs, Converts(input)
    PROVE  Entries(input) \in Seq(Entry) /\ Len(Entries(input)) = Len(input)
<1>1. input \in Seq(Seq(Int)) /\ \A i \in DOMAIN input : Len(input[i]) <= 1
  BY QuickfixAssumption
<1>2. ASSUME NEW n \in Int
      PROVE  Held(n) \in Int
  <2>1. 2 * MaxLine + 2 \in Nat /\ 2 * MaxLine + 2 > 0 /\ n + MaxLine + 1 \in Int
    BY QuickfixAssumption
  <2>2. (n + MaxLine + 1) % (2 * MaxLine + 2) \in Int
    BY <2>1
  <2>. QED BY <2>2, QuickfixAssumption DEF Held
<1>3. ASSUME NEW i \in DOMAIN input
      PROVE  [line |-> Line(input[i]), asked |-> input[i]] \in Entry
  <2>1. input[i] \in Seq(Int) /\ Len(input[i]) <= 1
    BY <1>1
  <2>2. CASE input[i] = <<>>
    BY <2>2 DEF Line, Entry
  <2>3. CASE input[i] # <<>>
    <3>1. Len(input[i]) = 1 /\ input[i][1] \in Int /\ DOMAIN input[i] = {1}
      BY <2>1, <2>3, OneAtMost
    <3>2. input[i][1] >= 0
      BY <3>1 DEF Converts
    <3>3. Line(input[i]) = Held(input[i][1] + 1) /\ Held(input[i][1] + 1) \in Int
      BY <2>3, <3>1, <1>2 DEF Line, OneBased
    <3>4. input[i] \in Seq(Int) /\ Len(input[i]) = 1 /\ input[i][1] >= 0
      BY <2>1, <3>1, <3>2
    <3>. QED BY <3>3, <3>4 DEF Entry
  <2>. QED BY <2>2, <2>3
<1>4. DOMAIN input = 1..Len(input) /\ Len(input) \in Nat
  BY <1>1
<1>. QED BY <1>3, <1>4 DEF Entries

\* A new list comes last and is the current one; before it are lists that were there,
\* in their order.
LEMMA ExtendedIsGood ==
    ASSUME NEW stack, Good(stack), NEW list \in List
    PROVE  LET new == Extended(stack, list)
           IN  Good(new) /\ Renews(new, stack) /\ new.lists[new.at] = list
<1> DEFINE kept == SubSeq(stack.lists, 1, stack.at)
           rest == IF stack.at = MaxLists THEN Tail(kept) ELSE kept
           new == Extended(stack, list)
           d == IF stack.at = MaxLists THEN 1 ELSE 0
<1>1. /\ stack.lists \in Seq(List) /\ stack.at \in Nat /\ stack.at <= Len(stack.lists)
      /\ stack.at <= MaxLists /\ MaxLists \in Nat \ {0}
  BY QuickfixAssumption DEF Good, HasCurrent, Stack
<1>2. /\ kept \in Seq(List) /\ Len(kept) = stack.at
      /\ \A i \in 1..stack.at : kept[i] = stack.lists[i]
  BY <1>1, SubSeqProperties
<1>3. /\ rest \in Seq(List) /\ Len(rest) = stack.at - d
      /\ \A i \in 1..Len(rest) : i + d \in DOMAIN stack.lists /\ rest[i] = stack.lists[i + d]
  <2>1. CASE stack.at = MaxLists
    <3>1. kept # <<>>
      BY <2>1, <1>1, <1>2
    <3>2. /\ Tail(kept) \in Seq(List) /\ Len(Tail(kept)) = Len(kept) - 1
          /\ \A i \in 1..Len(Tail(kept)) : Tail(kept)[i] = kept[i + 1]
      BY <3>1, <1>2, HeadTailProperties
    <3>3. rest = Tail(kept) /\ d = 1
      BY <2>1
    <3>4. ASSUME NEW i \in 1..Len(rest)
          PROVE  i + 1 \in 1..stack.at /\ rest[i] = kept[i + 1]
      BY <3>2, <3>3, <1>2, <1>1
    <3>. HIDE DEF kept, rest, d
    <3>5. ASSUME NEW i \in 1..Len(rest)
          PROVE  i + d \in DOMAIN stack.lists /\ rest[i] = stack.lists[i + d]
      BY <3>3, <3>4, <1>1, <1>2
    <3>. QED BY <3>2, <3>3, <3>5, <1>2
  <2>2. CASE stack.at # MaxLists
    <3>1. rest = kept /\ d = 0
      BY <2>2
    <3>. HIDE DEF kept, rest, d
    <3>. QED BY <3>1, <1>1, <1>2
  <2>. QED BY <2>1, <2>2
<1>4. d \in Nat /\ stack.at - d < MaxLists /\ stack.at - d \in Nat
  BY <1>1
<1>5. new = [lists |-> Append(rest, list), at |-> Len(rest) + 1]
  BY DEF Extended
<1>. HIDE DEF kept, rest, new, d
<1>6. /\ Append(rest, list) \in Seq(List) /\ Len(Append(rest, list)) = Len(rest) + 1
      /\ Append(rest, list)[Len(rest) + 1] = list
      /\ \A i \in 1..Len(rest) : Append(rest, list)[i] = rest[i]
  BY <1>3, AppendProperties
<1>7. Len(rest) \in Nat /\ Len(rest) + 1 <= MaxLists
  BY <1>3, <1>4, <1>1
<1>8. Good(new) /\ new.at = Len(new.lists) /\ new.at \in DOMAIN new.lists /\ new.lists[new.at] = list
  BY <1>5, <1>6, <1>7 DEF Good, HasCurrent, Stack
<1>9. \A i \in DOMAIN new.lists :
        i = new.at \/ (i + d \in DOMAIN stack.lists /\ new.lists[i] = stack.lists[i + d])
  BY <1>3, <1>5, <1>6, <1>7
<1>. QED BY <1>4, <1>8, <1>9 DEF new, Renews

LEMMA CreatedIsGood ==
    ASSUME lastId \in Nat, NEW stack, Good(stack), NEW action, NEW title \in GivenTitles,
           NEW input \in Inputs, Converts(input)
    PROVE  LET new == Created(stack, action, title, Entries(input))
           IN  /\ Good(new) /\ Renews(new, stack)
               /\ new.lists[new.at].id = lastId + 1
               /\ new.lists[new.at].items = Entries(input)
<1> DEFINE list == [id |-> lastId + 1, title |-> TitleFor(action, title, ":setqflist()"),
                    items |-> Entries(input)]
<1>0. Entries(input) \in Seq(Entry)
  BY EntriesAreEntries
<1>1. list \in List
  <2>1. TitleFor(action, title, ":setqflist()") \in AllTitles
    BY DEF TitleFor, AllTitles, GivenTitles
  <2>2. lastId + 1 \in Nat \ {0}
    OBVIOUS
  <2>3. \A t \in AllTitles, items \in Seq(Entry), n \in Nat \ {0} :
            [id |-> n, title |-> t, items |-> items] \in List
    BY DEF List
  <2>. QED BY <2>1, <2>2, <2>3, <1>0
<1>2. Created(stack, action, title, Entries(input)) = Extended(stack, list)
  BY DEF Created
<1>3. list.id = lastId + 1 /\ list.items = Entries(input)
  OBVIOUS
<1>. HIDE DEF list
<1>. QED BY <1>1, <1>2, <1>3, ExtendedIsGood

\* An update leaves all lists but one, the identities, and which list is current.
LEMMA WrittenIsGood ==
    ASSUME NEW stack, Good(stack), NEW i \in DOMAIN stack.lists, NEW action,
           NEW title \in GivenTitles, NEW input \in Inputs, Converts(input)
    PROVE  LET new == Written(stack, i, action, title, Entries(input))
           IN  /\ Good(new) /\ new.at = stack.at /\ DOMAIN new.lists = DOMAIN stack.lists
               /\ new.lists[i].id = stack.lists[i].id
               /\ new.lists[i].items = IF action = "append"
                                       THEN stack.lists[i].items \o Entries(input)
                                       ELSE Entries(input)
               /\ new.lists[i].title = TitleFor(action, title, stack.lists[i].title)
               /\ \A j \in DOMAIN stack.lists : j # i => new.lists[j] = stack.lists[j]
<1> DEFINE old == stack.lists[i]
           items == IF action = "append" THEN old.items \o Entries(input) ELSE Entries(input)
           after == TitleFor(action, title, old.title)
           list == [old EXCEPT !.items = items, !.title = after]
           new == Written(stack, i, action, title, Entries(input))
<1>0. stack \in Stack /\ stack.lists \in Seq(List) /\ stack.at \in Nat
  BY DEF Good, HasCurrent, Stack
<1>1. Len(stack.lists) \in Nat /\ DOMAIN stack.lists = 1..Len(stack.lists)
  BY <1>0, LenProperties
<1>2. old \in List
  BY <1>0, <1>1, ElementOfSeq
<1>3. items \in Seq(Entry)
  <2>1. old.items \in Seq(Entry)
    BY <1>2 DEF List
  <2>. QED BY <2>1, EntriesAreEntries, ConcatProperties
<1>4. after \in AllTitles
  BY <1>2 DEF TitleFor, AllTitles, GivenTitles, List
<1>5. /\ list \in List /\ list.id = old.id /\ list.items = items /\ list.title = after
  BY <1>2, <1>3, <1>4 DEF List
<1>6. new = [stack EXCEPT !.lists = [stack.lists EXCEPT ![i] = list]]
  BY <1>1, <1>2 DEF Written, Stack, List
<1>. HIDE DEF list, items, after, new
<1>7. /\ [stack.lists EXCEPT ![i] = list] \in Seq(List)
      /\ Len([stack.lists EXCEPT ![i] = list]) = Len(stack.lists)
      /\ [stack.lists EXCEPT ![i] = list][i] = list
      /\ \A j \in DOMAIN stack.lists : j # i => [stack.lists EXCEPT ![i] = list][j] = stack.lists[j]
  <2>1. stack.lists \in Seq(List) /\ i \in 1..Len(stack.lists) /\ list \in List
    BY <1>0, <1>1, <1>5
  <2>2. /\ [stack.lists EXCEPT ![i] = list] \in Seq(List)
        /\ Len([stack.lists EXCEPT ![i] = list]) = Len(stack.lists)
        /\ \A j \in 1..Len(stack.lists) : [stack.lists EXCEPT ![i] = list][j]
                                             = IF j = i THEN list ELSE stack.lists[j]
    <3>1. [stack.lists EXCEPT ![i] = list] \in [1..Len(stack.lists) -> List]
      BY <2>1, <1>1, LenProperties
    <3>2. \A f \in [1..Len(stack.lists) -> List] : f \in Seq(List) /\ Len(f) = Len(stack.lists)
      BY <1>1, SeqDef
    <3>3. \A j \in 1..Len(stack.lists) : [stack.lists EXCEPT ![i] = list][j]
                                         = IF j = i THEN list ELSE stack.lists[j]
      BY <1>1
    <3>. QED BY <3>1, <3>2, <3>3
  <2>. QED BY <2>1, <2>2, <1>1
<1>8. new.lists = [stack.lists EXCEPT ![i] = list] /\ new.at = stack.at /\ new \in Stack
  BY <1>0, <1>6, <1>7 DEF Stack
<1>9. Good(new)
  <2>1. stack.lists # <<>>
    BY <1>1
  <2>2. stack.at \in 0..Len(stack.lists) /\ stack.at # 0 /\ Len(stack.lists) <= MaxLists
    BY <2>1 DEF Good, HasCurrent
  <2>3. Len(new.lists) = Len(stack.lists)
    BY <1>7, <1>8
  <2>. QED BY <1>8, <2>2, <2>3 DEF Good, HasCurrent
<1>. QED BY <1>5, <1>7, <1>8, <1>9, <1>1 DEF new, items, after

(***************************************************************************)
(* The invariant.                                                          *)
(***************************************************************************)

\* One history changes, to one of lists that it had, in their order, and perhaps a
\* new one with a new identity.
LEMMA OneHistoryChanges ==
    ASSUME IInv, NEW place \in Places, NEW stack, Good(stack),
           stacks' = [stacks EXCEPT ![place] = stack],
           lastId' \in Nat, lastId <= lastId',
           NEW d \in Nat,
           \A i \in DOMAIN stack.lists :
              \/ /\ i + d \in DOMAIN stacks[place].lists
                 /\ stack.lists[i].id = stacks[place].lists[i + d].id
              \/ i = Len(stack.lists) /\ stack.lists[i].id = lastId + 1 /\ lastId' = lastId + 1,
           open' \subseteq Windows, focus' \in open'
    PROVE  IInv'
<1>1. stacks \in [Places -> Stack] /\ (\A p \in Places : Good(stacks[p])) /\ lastId \in Nat
  BY GoodAt DEF IInv, TypeOK
<1>2. stacks' \in [Places -> Stack] /\ \A p \in Places : stacks'[p] = IF p = place THEN stack ELSE stacks[p]
  BY <1>1 DEF Good
<1>3. \A p \in Places : Good(stacks'[p])
  BY <1>1, <1>2
<1>4. TypeOK' /\ Bounded'
  BY <1>2, <1>3 DEF TypeOK, Bounded, Good
<1>5. \A p \in Places : DOMAIN stacks[p].lists \subseteq Nat /\ DOMAIN stacks'[p].lists \subseteq Nat
  BY <1>1, <1>3 DEF Good, Stack
<1>6. \A p \in Places : \A i \in DOMAIN stacks[p].lists :
          stacks[p].lists[i].id \in Nat /\ stacks[p].lists[i].id <= lastId
  <2>1. ASSUME NEW p \in Places, NEW i \in DOMAIN stacks[p].lists
        PROVE  stacks[p].lists[i].id \in Nat
    <3>1. stacks[p].lists[i] \in List
      BY <1>1 DEF Good, Stack
    <3>. QED BY <3>1 DEF List
  <2>. QED BY <2>1 DEF IInv, IdentitiesDiffer
\* Where an old list was, or that it is the new one.
<1>7. \A p, q \in Places : \A i \in DOMAIN stacks[p].lists, j \in DOMAIN stacks[q].lists :
          stacks[p].lists[i].id = stacks[q].lists[j].id => p = q /\ i = j
  BY DEF IInv, IdentitiesDiffer
<1>8. ASSUME NEW p \in Places, NEW i \in DOMAIN stacks'[p].lists
      PROVE  \/ /\ i + (IF p = place THEN d ELSE 0) \in DOMAIN stacks[p].lists
                /\ stacks'[p].lists[i].id = stacks[p].lists[i + (IF p = place THEN d ELSE 0)].id
             \/ /\ p = place /\ i = Len(stack.lists)
                /\ stacks'[p].lists[i].id = lastId + 1 /\ lastId' = lastId + 1
  <2>1. CASE p = place
    BY <2>1, <1>2
  <2>2. CASE p # place
    BY <2>2, <1>2, <1>5
  <2>. QED BY <2>1, <2>2
<1>9. ASSUME NEW p \in Places, NEW q \in Places,
             NEW i \in DOMAIN stacks'[p].lists, NEW j \in DOMAIN stacks'[q].lists
      PROVE  /\ stacks'[p].lists[i].id <= lastId'
             /\ stacks'[p].lists[i].id = stacks'[q].lists[j].id => p = q /\ i = j
  <2> DEFINE from(r) == IF r = place THEN d ELSE 0
  <2>0. i \in Nat /\ j \in Nat /\ from(p) \in Nat /\ from(q) \in Nat
    BY <1>5
  <2>1. CASE i + from(p) \in DOMAIN stacks[p].lists /\ stacks'[p].lists[i].id = stacks[p].lists[i + from(p)].id
    <3>1. stacks'[p].lists[i].id <= lastId
      BY <2>1, <1>6
    <3>2. stacks'[p].lists[i].id \in Nat
      BY <2>1, <1>6
    <3>3. CASE j + from(q) \in DOMAIN stacks[q].lists /\ stacks'[q].lists[j].id = stacks[q].lists[j + from(q)].id
      <4>1. stacks'[p].lists[i].id = stacks'[q].lists[j].id => p = q /\ i + from(p) = j + from(q)
        <5>1. \A k \in DOMAIN stacks[p].lists, l \in DOMAIN stacks[q].lists :
                 stacks[p].lists[k].id = stacks[q].lists[l].id => p = q /\ k = l
          BY <1>7
        <5>. HIDE DEF from
        <5>. QED BY <5>1, <2>1, <3>3, Zenon
      <4>2. p = q => from(p) = from(q)
        OBVIOUS
      <4>. HIDE DEF from
      <4>. QED BY <4>1, <4>2, <3>1, <3>2, <2>0, <1>1
    <3>4. CASE stacks'[q].lists[j].id = lastId + 1
      BY <3>1, <3>2, <3>4, <1>1
    <3>. QED BY <3>3, <3>4, <1>8
  <2>2. CASE p = place /\ i = Len(stack.lists) /\ stacks'[p].lists[i].id = lastId + 1 /\ lastId' = lastId + 1
    <3>1. CASE j + from(q) \in DOMAIN stacks[q].lists /\ stacks'[q].lists[j].id = stacks[q].lists[j + from(q)].id
      <4>1. stacks'[q].lists[j].id <= lastId /\ stacks'[q].lists[j].id \in Nat
        BY <3>1, <1>6
      <4>. QED BY <4>1, <2>2, <1>1
    <3>2. CASE q = place /\ j = Len(stack.lists)
      BY <2>2, <3>2, <1>1
    <3>. QED BY <3>1, <3>2, <1>8
  <2>. QED BY <2>1, <2>2, <1>8
<1>. QED BY <1>4, <1>9 DEF IInv, IdentitiesDiffer

\* The same, if no list is new.
LEMMA ListsRemain ==
    ASSUME IInv, NEW place \in Places, NEW stack, Good(stack),
           stacks' = [stacks EXCEPT ![place] = stack], lastId' = lastId,
           DOMAIN stack.lists \subseteq DOMAIN stacks[place].lists,
           \A i \in DOMAIN stack.lists : stack.lists[i].id = stacks[place].lists[i].id,
           open' \subseteq Windows, focus' \in open'
    PROVE  IInv'
<1>1. lastId \in Nat /\ lastId' \in Nat /\ lastId <= lastId'
  BY DEF IInv, TypeOK
<1>2. \A i \in DOMAIN stack.lists : i \in Nat
  BY DEF Good, Stack
<1>3. PICK d \in Nat : d = 0
  OBVIOUS
<1>4. \A i \in DOMAIN stack.lists :
         \/ /\ i + d \in DOMAIN stacks[place].lists
            /\ stack.lists[i].id = stacks[place].lists[i + d].id
         \/ i = Len(stack.lists) /\ stack.lists[i].id = lastId + 1 /\ lastId' = lastId + 1
  <2>1. ASSUME NEW i \in DOMAIN stack.lists
        PROVE  i + d \in DOMAIN stacks[place].lists
               /\ stack.lists[i].id = stacks[place].lists[i + d].id
    <3>1. i + d = i
      BY <1>2, <1>3
    <3>. QED BY <3>1
  <2>. QED BY <2>1
<1>. QED BY <1>1, <1>4, OneHistoryChanges

\* A list that is new is the last one of its history.
LEMMA ListIsNew ==
    ASSUME IInv, NEW place \in Places, NEW stack, Good(stack),
           stacks' = [stacks EXCEPT ![place] = stack], lastId' = lastId + 1,
           Renews(stack, stacks[place]), stack.lists[stack.at].id = lastId + 1,
           open' \subseteq Windows, focus' \in open'
    PROVE  IInv'
<1>1. PICK d \in Nat : \A i \in DOMAIN stack.lists :
               i = stack.at \/ (i + d \in DOMAIN stacks[place].lists
                                   /\ stack.lists[i] = stacks[place].lists[i + d])
  BY DEF Renews
<1>2. lastId' \in Nat /\ lastId <= lastId'
  BY DEF IInv, TypeOK
<1>3. \A i \in DOMAIN stack.lists :
         \/ /\ i + d \in DOMAIN stacks[place].lists
            /\ stack.lists[i].id = stacks[place].lists[i + d].id
         \/ i = Len(stack.lists) /\ stack.lists[i].id = lastId + 1 /\ lastId' = lastId + 1
  BY <1>1 DEF Renews
<1>. QED BY <1>2, <1>3, OneHistoryChanges

LEMMA PlaceIsThere ==
    ASSUME IInv, NEW window, Valid(window)
    PROVE  Place(window) \in Places
  BY DEF Valid, Places, IInv, TypeOK

\* The list a command is about is one of the history, of the identity if one is given.
LEMMA SelectedIsThere ==
    ASSUME NEW stack, Good(stack), stack.lists # <<>>, NEW id \in Ids, Exists(stack, id)
    PROVE  /\ Selected(stack, id) \in DOMAIN stack.lists
           /\ id # NoId => stack.lists[Selected(stack, id)].id = id
           /\ id = NoId => Selected(stack, id) = stack.at
<1>1. CASE id = NoId
  BY <1>1 DEF Good, HasCurrent, Stack, Selected
<1>2. CASE id # NoId
  <2>1. id \notin {NoId, 0} /\ Named(stack, id) # {}
    BY <1>2 DEF Exists, Ids, NoId
  <2>2. Selected(stack, id) \in Named(stack, id)
    BY <2>1 DEF Selected
  <2>. QED BY <2>2, <1>2 DEF Named
<1>. QED BY <1>1, <1>2

\* What a user is allowed to give.
LEMMA InputsAreGiven ==
    \A window \in Flags : window = "none" \/ window = "current" \/ window \in Windows
  BY QuickfixAssumption

(***************************************************************************)
(* Steps.                                                                  *)
(***************************************************************************)

\* The history after a set with --id or of the current list.
LEMMA SetsOldWrites ==
    ASSUME IInv, NEW window, NEW action, NEW id \in Ids, NEW title \in GivenTitles,
           NEW input \in Inputs, SetsOld(window, action, id, title, input)
    PROVE  LET place == Place(window)
               i == Selected(stacks[place], id)
               stack == Written(stacks[place], i, action, title, Entries(input))
           IN  /\ place \in Places /\ Good(stacks[place]) /\ i \in DOMAIN stacks[place].lists
               /\ id # NoId => stacks[place].lists[i].id = id
               /\ id = NoId => i = stacks[place].at
               /\ stacks' = [stacks EXCEPT ![place] = stack]
               /\ reply'.op = "set" /\ reply'.place = place /\ reply'.id = id
               /\ reply'.action = action /\ reply'.title = title /\ reply'.given = input
               /\ reply'.records = <<Metadata(stack, Selected(stack, id))>>
<1> DEFINE place == Place(window)
           i == Selected(stacks[place], id)
           stack == Written(stacks[place], i, action, title, Entries(input))
<1>1. place \in Places
  BY PlaceIsThere DEF SetsOld
<1>2. Good(stacks[place])
  BY <1>1, GoodAt
<1>3. stacks[place].lists # <<>> /\ Exists(stacks[place], id)
  BY DEF SetsOld
<1>4. stacks' = [stacks EXCEPT ![place] = stack]
  BY DEF SetsOld
<1>5. reply' = [Asked("set", window, id) EXCEPT
                   !.action = action, !.title = title, !.given = input,
                   !.records = <<Metadata(stack, Selected(stack, id))>>]
  BY DEF SetsOld, Replies
<1>. HIDE DEF stack
<1>6. /\ reply'.op = "set" /\ reply'.place = place /\ reply'.id = id
      /\ reply'.action = action /\ reply'.title = title /\ reply'.given = input
      /\ reply'.records = <<Metadata(stack, Selected(stack, id))>>
  BY <1>5 DEF Asked, NoReply
<1>7. /\ i \in DOMAIN stacks[place].lists
      /\ id # NoId => stacks[place].lists[i].id = id
      /\ id = NoId => i = stacks[place].at
  BY <1>2, <1>3, SelectedIsThere
<1>. QED BY <1>1, <1>2, <1>4, <1>6, <1>7 DEF stack

\* The history after a set of a new list.
LEMMA SetsNewCreates ==
    ASSUME IInv, NEW window, NEW action, NEW title \in GivenTitles,
           NEW input \in Inputs, SetsNew(window, action, title, input)
    PROVE  LET place == Place(window)
               stack == Created(stacks[place], action, title, Entries(input))
           IN  /\ place \in Places /\ Good(stacks[place])
               /\ stacks' = [stacks EXCEPT ![place] = stack]
               /\ reply'.op = "set" /\ reply'.place = place /\ reply'.id = NoId
               /\ reply'.action = action /\ reply'.given = input
               /\ reply'.records = <<Metadata(stack, Selected(stack, NoId))>>
<1> DEFINE place == Place(window)
           stack == Created(stacks[place], action, title, Entries(input))
<1>1. place \in Places
  BY PlaceIsThere DEF SetsNew
<1>2. Good(stacks[place])
  BY <1>1, GoodAt
<1>4. stacks' = [stacks EXCEPT ![place] = stack]
  BY DEF SetsNew
<1>5. reply' = [Asked("set", window, NoId) EXCEPT
                   !.action = action, !.title = title, !.given = input,
                   !.records = <<Metadata(stack, Selected(stack, NoId))>>]
  BY DEF SetsNew, Replies
<1>. HIDE DEF stack
<1>6. /\ reply'.op = "set" /\ reply'.place = place /\ reply'.id = NoId
      /\ reply'.action = action /\ reply'.given = input
      /\ reply'.records = <<Metadata(stack, Selected(stack, NoId))>>
  BY <1>5 DEF Asked, NoReply
<1>. QED BY <1>1, <1>2, <1>4, <1>6 DEF stack

LEMMA SetsNewKeeps ==
    ASSUME IInv, NEW window, NEW action, NEW title \in GivenTitles,
           NEW input \in Inputs, SetsNew(window, action, title, input)
    PROVE  IInv'
<1> DEFINE place == Place(window)
           stack == Created(stacks[place], action, title, Entries(input))
<1>1. place \in Places /\ Good(stacks[place]) /\ stacks' = [stacks EXCEPT ![place] = stack]
  BY SetsNewCreates
<1>2. /\ lastId \in Nat /\ lastId' = lastId + 1
      /\ open' \subseteq Windows /\ focus' \in open'
  BY DEF IInv, TypeOK, SetsNew
<1>3. Good(stack) /\ Renews(stack, stacks[place]) /\ stack.lists[stack.at].id = lastId + 1
  BY <1>1, <1>2, CreatedIsGood DEF SetsNew
<1>. HIDE DEF place, stack
<1>. QED BY <1>1, <1>2, <1>3, ListIsNew

LEMMA SetsOldKeeps ==
    ASSUME IInv, NEW window, NEW action, NEW id \in Ids, NEW title \in GivenTitles,
           NEW input \in Inputs, SetsOld(window, action, id, title, input)
    PROVE  IInv'
<1> DEFINE place == Place(window)
           i == Selected(stacks[place], id)
           stack == Written(stacks[place], i, action, title, Entries(input))
<1>1. /\ place \in Places /\ Good(stacks[place]) /\ i \in DOMAIN stacks[place].lists
      /\ stacks' = [stacks EXCEPT ![place] = stack]
  BY SetsOldWrites
<1>2. lastId' = lastId /\ open' \subseteq Windows /\ focus' \in open'
  BY DEF IInv, TypeOK, SetsOld
<1>3. /\ Good(stack) /\ DOMAIN stack.lists = DOMAIN stacks[place].lists
      /\ stack.lists[i].id = stacks[place].lists[i].id
      /\ \A j \in DOMAIN stacks[place].lists : j # i => stack.lists[j] = stacks[place].lists[j]
  BY <1>1, WrittenIsGood DEF SetsOld
<1>. HIDE DEF place, stack, i
<1>4. \A j \in DOMAIN stack.lists : stack.lists[j].id = stacks[place].lists[j].id
  BY <1>3
<1>. QED BY <1>1, <1>2, <1>3, <1>4, ListsRemain

LEMMA UserKeeps ==
    ASSUME IInv, User
    PROVE  IInv'
<1>1. ASSUME NEW place \in Places, Clears(place)
      PROVE  IInv'
  <2>1. Good(Empty)
    BY QuickfixAssumption DEF Good, Empty, Stack, HasCurrent
  <2>2. DOMAIN Empty.lists = {}
    BY DEF Empty
  <2>3. stacks' = [stacks EXCEPT ![place] = Empty] /\ lastId' = lastId
        /\ open' \subseteq Windows /\ focus' \in open'
    BY <1>1 DEF Clears, IInv, TypeOK
  <2>. QED BY <2>1, <2>2, <2>3, ListsRemain
<1>2. ASSUME NEW place \in Places, NEW i \in 1..MaxLists, Moves(place, i)
      PROVE  IInv'
  <2> DEFINE stack == [stacks[place] EXCEPT !.at = i]
  <2>1. Good(stacks[place])
    BY GoodAt
  <2>2. Good(stack) /\ stack.lists = stacks[place].lists
    <3>1. i \in DOMAIN stacks[place].lists
      BY <1>2 DEF Moves
    <3>. QED BY <2>1, <3>1 DEF Good, Stack, HasCurrent
  <2>3. stacks' = [stacks EXCEPT ![place] = stack]
    BY <1>2 DEF Moves
  <2>4. lastId' = lastId /\ open' \subseteq Windows /\ focus' \in open'
    BY <1>2 DEF Moves, IInv, TypeOK
  <2>. HIDE DEF stack
  <2>. QED BY <2>2, <2>3, <2>4, ListsRemain
<1>3. ASSUME NEW place \in Places, NEW input \in Inputs, Converts(input),
             Greps(place, input)
      PROVE  IInv'
  <2> DEFINE list == [id |-> lastId + 1, title |-> ":grep", items |-> Entries(input)]
             stack == Extended(stacks[place], list)
  <2>0. lastId \in Nat
    BY DEF IInv, TypeOK
  <2>1. list \in List /\ list.id = lastId + 1
    <3>1. ":grep" \in AllTitles
      BY DEF AllTitles
    <3>2. Entries(input) \in Seq(Entry)
      BY <1>3, EntriesAreEntries
    <3>3. \A t \in AllTitles, items \in Seq(Entry), n \in Nat \ {0} :
            [id |-> n, title |-> t, items |-> items] \in List
      BY DEF List
    <3>4. lastId + 1 \in Nat \ {0}
      BY <2>0
    <3>. QED BY <3>1, <3>2, <3>3, <3>4
  <2>2. stacks' = [stacks EXCEPT ![place] = stack] /\ lastId' = lastId + 1
        /\ open' \subseteq Windows /\ focus' \in open'
    BY <1>3 DEF Greps, IInv, TypeOK
  <2>. HIDE DEF list
  <2>3. Good(stack) /\ Renews(stack, stacks[place]) /\ stack.lists[stack.at] = list
    <3>1. Good(stacks[place])
      BY GoodAt
    <3>. QED BY <2>1, <3>1, ExtendedIsGood
  <2>. HIDE DEF stack
  <2>. QED BY <2>1, <2>2, <2>3, ListIsNew
<1>4. ASSUME NEW w \in Windows, Enters(w)
      PROVE  IInv'
  BY <1>4 DEF Enters, IInv, TypeOK, Bounded, IdentitiesDiffer
<1>5. ASSUME NEW w \in Windows, Closes(w)
      PROVE  IInv'
  <2>1. Good(Empty)
    BY QuickfixAssumption DEF Good, Empty, Stack, HasCurrent
  <2>2. DOMAIN Empty.lists = {}
    BY DEF Empty
  <2>3. stacks' = [stacks EXCEPT ![w] = Empty] /\ lastId' = lastId /\ w \in Places
        /\ open' \subseteq Windows /\ focus' \in open'
    BY <1>5 DEF Closes, IInv, TypeOK, Places
  <2>. QED BY <2>1, <2>2, <2>3, ListsRemain
<1>. QED BY <1>1, <1>2, <1>3, <1>4, <1>5 DEF User

\* A step that leaves the histories alone.
LEMMA NothingWritten ==
    ASSUME IInv, UNCHANGED <<stacks, lastId>>, open' \subseteq Windows, focus' \in open'
    PROVE  IInv'
  BY DEF IInv, TypeOK, Bounded, IdentitiesDiffer

LEMMA InitIsGood == Init => IInv
<1>. SUFFICES ASSUME Init PROVE IInv
  OBVIOUS
<1>1. Empty \in Stack /\ HasCurrent(Empty) /\ Len(Empty.lists) = 0 /\ DOMAIN Empty.lists = {}
  BY DEF Empty, Stack, HasCurrent
<1>2. stacks \in [Places -> Stack] /\ \A p \in Places : stacks[p] = Empty
  BY <1>1 DEF Init
<1>3. lastId \in Nat /\ open \subseteq Windows /\ focus \in open
  BY DEF Init
<1>. QED BY <1>1, <1>2, <1>3, QuickfixAssumption DEF IInv, TypeOK, Bounded, IdentitiesDiffer

LEMMA StepKeeps == IInv /\ [Next]_vars => IInv'
<1>. SUFFICES ASSUME IInv, [Next]_vars PROVE IInv'
  OBVIOUS
<1>0. open \subseteq Windows /\ focus \in open
  BY DEF IInv, TypeOK
<1>1. ASSUME NEW window \in Flags, NEW action \in Actions, NEW title \in GivenTitles,
             NEW input \in Inputs, SetsNew(window, action, title, input)
      PROVE  IInv'
  BY <1>1, SetsNewKeeps
<1>2. ASSUME NEW window \in Flags, NEW action \in Actions, NEW title \in GivenTitles,
             NEW input \in Inputs, NEW id \in Ids, SetsOld(window, action, id, title, input)
      PROVE  IInv'
  BY <1>2, SetsOldKeeps
<1>3. ASSUME NEW input \in Inputs, Refuses(input)
      PROVE  IInv'
  BY <1>0, <1>3, NothingWritten DEF Refuses
<1>4. ASSUME NEW window \in Flags, NEW id \in Ids, NEW action, SetFails(window, action, id)
      PROVE  IInv'
  BY <1>0, <1>4, NothingWritten DEF SetFails
<1>5. ASSUME NEW window \in Flags, NEW id \in Ids, Gets(window, id) \/ GetFails(window, id)
      PROVE  IInv'
  BY <1>0, <1>5, NothingWritten DEF Gets, GetFails
<1>6. ASSUME NEW window \in Flags, Recalls(window)
      PROVE  IInv'
  BY <1>0, <1>6, NothingWritten DEF Recalls
<1>7. ASSUME NEW height, NEW w \in Windows, Opens(height, w)
      PROVE  IInv'
  <2>1. open' \subseteq Windows /\ focus' \in open' /\ UNCHANGED <<stacks, lastId>>
    BY <1>0, <1>7 DEF Opens
  <2>. QED BY <2>1, NothingWritten
<1>8. ASSUME Ends \/ UNCHANGED vars
      PROVE  IInv'
  BY <1>0, <1>8, NothingWritten DEF Ends, vars
<1>9. ASSUME User
      PROVE  IInv'
  BY <1>9, UserKeeps
<1>10. ASSUME Command
       PROVE  IInv'
  BY <1>1, <1>2, <1>3, <1>4, <1>5, <1>6, <1>7, <1>10 DEF Command
<1>. QED BY <1>8, <1>9, <1>10 DEF Next

\* In every reachable state no two lists have the same identity, no history is too
\* long, and one with lists has a current one.
THEOREM Invariance == Spec => []IInv
<1>1. Init => IInv
  BY InitIsGood
<1>2. IInv /\ [Next]_vars => IInv'
  BY StepKeeps
<1>. QED BY <1>1, <1>2, PTL DEF Spec

(***************************************************************************)
(* Updates.                                                                *)
(***************************************************************************)

\* Only set and history say that they have set or recalled something.
LEMMA OnlySetSets ==
    ASSUME [Next]_vars, reply' # reply, reply'.op \in {"set", "history"}
    PROVE  \/ \E window \in Flags, action \in Actions, title \in GivenTitles, input \in Inputs :
                 \/ SetsNew(window, action, title, input)
                 \/ \E id \in Ids : SetsOld(window, action, id, title, input)
           \/ reply'.op = "history" /\ \E window \in Flags : Recalls(window)
<1>1. ASSUME NEW input \in Inputs, Refuses(input) PROVE FALSE
  BY <1>1 DEF Refuses, Replies, Failed, NoReply
<1>2. ASSUME NEW window, NEW id, NEW action, SetFails(window, action, id) PROVE FALSE
  BY <1>2 DEF SetFails, Replies, Failed, NoReply
<1>3. ASSUME NEW window, NEW id, Gets(window, id) PROVE FALSE
  BY <1>3 DEF Gets, Replies, Asked, NoReply
<1>4. ASSUME NEW window, NEW id, GetFails(window, id) PROVE FALSE
  BY <1>4 DEF GetFails, Replies, Failed, NoReply
<1>5. ASSUME NEW window, Recalls(window) PROVE reply'.op = "history"
  BY <1>5 DEF Recalls, Replies, Asked, NoReply
<1>6. ASSUME NEW height, NEW w, Opens(height, w) PROVE FALSE
  BY <1>6 DEF Opens, Failed, NoReply
<1>7. ASSUME Ends PROVE FALSE
  BY <1>7 DEF Ends, NoReply
<1>8. ASSUME User PROVE FALSE
  BY <1>8 DEF User, Clears, Moves, Greps, Enters, Closes
<1>9. Command
  BY <1>7, <1>8 DEF Next, vars
<1>. QED BY <1>1, <1>2, <1>3, <1>4, <1>5, <1>6, <1>9 DEF Command

\* What a set with --id leaves, of the histories and of the lists of its own.
LEMMA UpdateIsExact ==
    ASSUME IInv, NEW window, NEW action, NEW id \in Ids, NEW title \in GivenTitles,
           NEW input \in Inputs, SetsOld(window, action, id, title, input), id # NoId
    PROVE  LET old == stacks[reply'.place]  new == stacks'[reply'.place]
           IN  /\ \A p \in Places \ {reply'.place} : stacks'[p] = stacks[p]
               /\ new.at = old.at /\ DOMAIN new.lists = DOMAIN old.lists
               /\ \A j \in DOMAIN old.lists :
                     IF old.lists[j].id = reply'.id
                     THEN Follows(old.lists[j], new.lists[j], reply')
                     ELSE new.lists[j] = old.lists[j]
               /\ \E j \in DOMAIN old.lists : old.lists[j].id = reply'.id
<1> DEFINE place == Place(window)
           old == stacks[place]
           i == Selected(old, id)
           new == Written(old, i, action, title, Entries(input))
<1>1. /\ place \in Places /\ Good(old) /\ i \in DOMAIN old.lists /\ old.lists[i].id = id
      /\ stacks' = [stacks EXCEPT ![place] = new]
      /\ reply'.place = place /\ reply'.id = id
      /\ reply'.action = action /\ reply'.title = title /\ reply'.given = input
  BY SetsOldWrites
<1>2. /\ new.at = old.at /\ DOMAIN new.lists = DOMAIN old.lists
      /\ new.lists[i].id = old.lists[i].id
      /\ new.lists[i].items = IF action = "append"
                              THEN old.lists[i].items \o Entries(input) ELSE Entries(input)
      /\ new.lists[i].title = TitleFor(action, title, old.lists[i].title)
      /\ \A j \in DOMAIN old.lists : j # i => new.lists[j] = old.lists[j]
  <2>1. Converts(input)
    BY DEF SetsOld
  <2>. HIDE DEF i, old, place
  <2>. QED BY <1>1, <2>1, WrittenIsGood
<1>. HIDE DEF i, new
<1>3. Follows(old.lists[i], new.lists[i], reply')
  BY <1>1, <1>2 DEF Follows, TitleFor
<1>4. \A j \in DOMAIN old.lists : old.lists[j].id = id => j = i
  BY <1>1 DEF IInv, IdentitiesDiffer
<1>5. stacks'[place] = new /\ \A p \in Places \ {place} : stacks'[p] = stacks[p]
  BY <1>1 DEF IInv, TypeOK
<1>6. \A j \in DOMAIN old.lists :
         IF old.lists[j].id = id THEN Follows(old.lists[j], new.lists[j], reply')
         ELSE new.lists[j] = old.lists[j]
  BY <1>1, <1>2, <1>3, <1>4
<1>. HIDE DEF place
<1>. QED BY <1>1, <1>2, <1>5, <1>6

\* A set with --id changes the list of that identity and nothing else.
THEOREM UpdatesExact == Spec => UpdatesAreExact
<1>1. ASSUME IInv, [Next]_vars, reply'.op = "set", reply' # reply, reply'.id # NoId
      PROVE  LET old == stacks[reply'.place]  new == stacks'[reply'.place]
             IN  /\ \A p \in Places \ {reply'.place} : stacks'[p] = stacks[p]
                 /\ new.at = old.at /\ DOMAIN new.lists = DOMAIN old.lists
                 /\ \A i \in DOMAIN old.lists :
                       IF old.lists[i].id = reply'.id
                       THEN Follows(old.lists[i], new.lists[i], reply')
                       ELSE new.lists[i] = old.lists[i]
                 /\ \E i \in DOMAIN old.lists : old.lists[i].id = reply'.id
  <2>1. PICK window \in Flags, action \in Actions, title \in GivenTitles, input \in Inputs :
              \/ SetsNew(window, action, title, input)
              \/ \E id \in Ids : SetsOld(window, action, id, title, input)
    <3>1. reply'.op \in {"set", "history"} /\ reply'.op # "history"
      BY <1>1
    <3>. QED BY <1>1, <3>1, OnlySetSets
  <2>2. ~SetsNew(window, action, title, input)
    BY <1>1, SetsNewCreates
  <2>3. PICK id \in Ids : SetsOld(window, action, id, title, input)
    BY <2>1, <2>2
  <2>4. reply'.id = id
    BY <1>1, <2>3, SetsOldWrites
  <2>. QED BY <1>1, <2>3, <2>4, UpdateIsExact
<1>2. IInv /\ [Next]_vars
        => [(reply'.op = "set" /\ reply' # reply /\ reply'.id # NoId) =>
          LET old == stacks[reply'.place]  new == stacks'[reply'.place]
          IN  /\ \A p \in Places \ {reply'.place} : stacks'[p] = stacks[p]
              /\ new.at = old.at /\ DOMAIN new.lists = DOMAIN old.lists
              /\ \A i \in DOMAIN old.lists :
                    IF old.lists[i].id = reply'.id THEN Follows(old.lists[i], new.lists[i], reply')
                    ELSE new.lists[i] = old.lists[i]
              /\ \E i \in DOMAIN old.lists : old.lists[i].id = reply'.id]_vars
  BY <1>1
<1>. QED BY <1>2, Invariance, PTL DEF Spec, UpdatesAreExact

(***************************************************************************)
(* Replies.                                                                *)
(***************************************************************************)

\* What comes after a sequence is the end of the two.
LEMMA EndOfConcat ==
    ASSUME NEW S, NEW s \in Seq(S), NEW t \in Seq(S)
    PROVE  SubSeq(s \o t, Len(s \o t) - Len(t) + 1, Len(s \o t)) = t
<1> DEFINE st == s \o t
           u == SubSeq(st, Len(s) + 1, Len(s) + Len(t))
<1>1. /\ st \in Seq(S) /\ Len(st) = Len(s) + Len(t)
      /\ \A i \in 1..Len(st) : st[i] = IF i <= Len(s) THEN s[i] ELSE t[i - Len(s)]
  BY ConcatProperties
<1>2. Len(s) \in Nat /\ Len(t) \in Nat
  OBVIOUS
<1>. HIDE DEF st
<1>3. /\ u \in Seq(S) /\ Len(u) = Len(t)
      /\ \A i \in 1..Len(t) : u[i] = st[Len(s) + i]
  <2>1. \A i \in Len(s) + 1 .. Len(s) + Len(t) : st[i] \in S
    BY <1>1, <1>2, ElementOfSeq
  <2>2. Len(u) = Len(t) /\ u = [i \in 1..Len(t) |-> st[Len(s) + i]]
    BY <1>1, <1>2
  <2>3. ASSUME NEW i \in 1..Len(t)
        PROVE  st[Len(s) + i] \in S
    <3>1. Len(s) + i \in Len(s) + 1 .. Len(s) + Len(t)
      BY <1>2
    <3>. QED BY <2>1, <3>1
  <2>. HIDE DEF u
  <2>4. u \in [1..Len(t) -> S]
    BY <2>2, <2>3
  <2>. QED BY <2>2, <2>4, <1>2, SeqDef
<1>4. \A i \in 1..Len(t) : u[i] = t[i]
  BY <1>1, <1>2, <1>3
<1>. HIDE DEF u
<1>5. u = t
  BY <1>3, <1>4, SeqEqual
<1>6. Len(st) - Len(t) + 1 = Len(s) + 1 /\ Len(st) = Len(s) + Len(t)
  BY <1>1, <1>2
<1>. QED BY <1>5, <1>6 DEF u, st

\* What set and history return.
SetIsTrue(r, stack) ==
    LET first == r.records[1]  items == stack.lists[first.nr].items
    IN  /\ Describes(first, stack)
        /\ IF r.id = NoId THEN first.current ELSE first.id = r.id
        /\ SubSeq(items, Len(items) - Len(r.given) + 1, Len(items)) = Entries(r.given)

HistoryIsTrue(r, stack) ==
    /\ Len(r.records) = Len(stack.lists)
    /\ \A i \in DOMAIN r.records : Describes(r.records[i], stack)
    /\ \A i, j \in DOMAIN r.records :
          (r.records[i].id = r.records[j].id
              \/ (r.records[i].current /\ r.records[j].current)) => i = j

\* Metadata describes the list in this place.
LEMMA MetadataDescribes ==
    ASSUME NEW stack, NEW i \in DOMAIN stack.lists
    PROVE  LET r == Metadata(stack, i)
           IN  /\ Describes(r, stack) /\ r.nr = i /\ r.id = stack.lists[i].id
               /\ r.current <=> i = stack.at
  BY DEF Metadata, Describes

LEMMA SetsNewIsTrue ==
    ASSUME IInv, NEW window, NEW action, NEW title \in GivenTitles,
           NEW input \in Inputs, SetsNew(window, action, title, input)
    PROVE  SetIsTrue(reply', stacks'[reply'.place])
<1> DEFINE place == Place(window)
           old == stacks[place]
           new == Created(old, action, title, Entries(input))
<1>1. /\ place \in Places /\ Good(old) /\ stacks' = [stacks EXCEPT ![place] = new]
      /\ reply'.place = place /\ reply'.id = NoId /\ reply'.given = input
      /\ reply'.records = <<Metadata(new, Selected(new, NoId))>>
  BY SetsNewCreates
<1>2. Converts(input) /\ lastId \in Nat
  BY DEF SetsNew, IInv, TypeOK
<1>3. Good(new) /\ Renews(new, old) /\ new.lists[new.at].items = Entries(input)
  <2>. HIDE DEF place, old
  <2>. QED BY <1>1, <1>2, CreatedIsGood
<1>4. stacks'[place] = new
  BY <1>1 DEF IInv, TypeOK
<1>. HIDE DEF new, old, place
<1>5. new.at \in DOMAIN new.lists /\ reply'.records[1] = Metadata(new, new.at)
  BY <1>1, <1>3 DEF Renews, Selected
<1>6. /\ Describes(reply'.records[1], new) /\ reply'.records[1].current
      /\ reply'.records[1].nr = new.at
  BY <1>5, MetadataDescribes
<1>7. /\ Entries(input) \in Seq(Entry) /\ Len(Entries(input)) = Len(input)
      /\ SubSeq(Entries(input), Len(Entries(input)) - Len(input) + 1, Len(Entries(input))) = Entries(input)
  <2>1. Entries(input) \in Seq(Entry) /\ Len(Entries(input)) = Len(input)
    BY <1>2, EntriesAreEntries
  <2>2. <<>> \o Entries(input) = Entries(input) /\ <<>> \in Seq(Entry)
    BY <2>1
  <2>. QED BY <2>1, <2>2, EndOfConcat
<1>. QED BY <1>1, <1>3, <1>4, <1>6, <1>7 DEF SetIsTrue

LEMMA SetsOldIsTrue ==
    ASSUME IInv, NEW window, NEW action, NEW id \in Ids, NEW title \in GivenTitles,
           NEW input \in Inputs, SetsOld(window, action, id, title, input)
    PROVE  SetIsTrue(reply', stacks'[reply'.place])
<1> DEFINE place == Place(window)
           old == stacks[place]
           i == Selected(old, id)
           new == Written(old, i, action, title, Entries(input))
<1>1. /\ place \in Places /\ Good(old) /\ i \in DOMAIN old.lists
      /\ id # NoId => old.lists[i].id = id
      /\ id = NoId => i = old.at
      /\ stacks' = [stacks EXCEPT ![place] = new]
      /\ reply'.op = "set" /\ reply'.place = place /\ reply'.id = id
      /\ reply'.action = action /\ reply'.title = title /\ reply'.given = input
      /\ reply'.records = <<Metadata(new, Selected(new, id))>>
  BY SetsOldWrites
<1>2. Converts(input)
  BY DEF SetsOld
<1>3. /\ Good(new) /\ new.at = old.at /\ DOMAIN new.lists = DOMAIN old.lists
      /\ new.lists[i].id = old.lists[i].id
      /\ new.lists[i].items = IF action = "append"
                              THEN old.lists[i].items \o Entries(input) ELSE Entries(input)
      /\ \A j \in DOMAIN old.lists : j # i => new.lists[j] = old.lists[j]
  <2>. HIDE DEF place, old, i
  <2>. QED BY <1>1, <1>2, WrittenIsGood
<1>4. stacks'[place] = new
  BY <1>1 DEF IInv, TypeOK
<1>5. Named(new, id) = Named(old, id)
  <2>. HIDE DEF new, old, i
  <2>. QED BY <1>3 DEF Named
<1>6. Selected(new, id) = i
  <2>. HIDE DEF new, old
  <2>. QED BY <1>3, <1>5 DEF Selected
<1>7. old.lists[i].items \in Seq(Entry)
  <2>. HIDE DEF old, i
  <2>1. old.lists[i] \in List
    BY <1>1 DEF Good, Stack
  <2>. QED BY <2>1 DEF List
<1>. HIDE DEF new, old, place, i
<1>8. i \in DOMAIN new.lists /\ reply'.records[1] = Metadata(new, i)
  BY <1>1, <1>3, <1>6
<1>9. /\ Describes(reply'.records[1], new) /\ reply'.records[1].nr = i
      /\ IF id = NoId THEN reply'.records[1].current ELSE reply'.records[1].id = id
  BY <1>1, <1>3, <1>8, MetadataDescribes
<1>10. Entries(input) \in Seq(Entry) /\ Len(Entries(input)) = Len(input)
  BY <1>2, EntriesAreEntries
<1> DEFINE items == new.lists[i].items
<1>11. SubSeq(items, Len(items) - Len(input) + 1, Len(items)) = Entries(input)
  <2>1. CASE action = "append"
    BY <2>1, <1>3, <1>7, <1>10, EndOfConcat
  <2>2. CASE action # "append"
    <3>1. <<>> \o Entries(input) = Entries(input) /\ <<>> \in Seq(Entry)
      BY <1>10
    <3>. QED BY <2>2, <1>3, <3>1, <1>10, EndOfConcat
  <2>. QED BY <2>1, <2>2
<1>. QED BY <1>1, <1>4, <1>9, <1>11 DEF SetIsTrue

LEMMA HistoryTells ==
    ASSUME IInv, NEW window, Recalls(window)
    PROVE  HistoryIsTrue(reply', stacks'[reply'.place])
<1> DEFINE place == Place(window)
           stack == stacks[place]
<1>1. place \in Places
  BY PlaceIsThere DEF Recalls
<1>2. Good(stack)
  BY <1>1, GoodAt
<1>3. stacks' = stacks /\ reply' = [Asked("history", window, NoId) EXCEPT
                      !.records = [nr \in DOMAIN stack.lists |-> Metadata(stack, nr)]]
  BY DEF Recalls, Replies
<1>4. /\ reply'.place = place
      /\ reply'.records = [nr \in DOMAIN stack.lists |-> Metadata(stack, nr)]
  BY <1>3 DEF Asked, NoReply
<1>5. DOMAIN stack.lists = 1..Len(stack.lists) /\ Len(stack.lists) \in Nat
  BY <1>2 DEF Good, Stack
<1>6. \A i, j \in DOMAIN stack.lists : stack.lists[i].id = stack.lists[j].id => i = j
  BY <1>1 DEF IInv, IdentitiesDiffer
<1>. HIDE DEF stack, place
<1>7. \A i \in DOMAIN stack.lists :
         LET r == Metadata(stack, i)
         IN  Describes(r, stack) /\ r.id = stack.lists[i].id /\ (r.current <=> i = stack.at)
  BY MetadataDescribes
<1>8. Len(reply'.records) = Len(stack.lists) /\ DOMAIN reply'.records = DOMAIN stack.lists
  BY <1>4, <1>5
<1>9. \A i \in DOMAIN stack.lists :
         /\ Describes(reply'.records[i], stack)
         /\ reply'.records[i].id = stack.lists[i].id
         /\ reply'.records[i].current <=> i = stack.at
  BY <1>4, <1>7
<1>10. stacks'[reply'.place] = stack
  BY <1>3, <1>4 DEF stack
<1>. QED BY <1>6, <1>8, <1>9, <1>10 DEF HistoryIsTrue

\* Until the command is over nothing happens.
LEMMA NobodyWaits ==
    ASSUME [Next]_vars, reply # NoReply, reply' = reply
    PROVE  UNCHANGED vars
<1>1. ASSUME NEW window, NEW action, NEW title, NEW input, NEW id,
             \/ SetsNew(window, action, title, input)
             \/ SetsOld(window, action, id, title, input)
      PROVE  FALSE
  BY <1>1 DEF SetsNew, SetsOld, Replies
<1>2. ASSUME NEW window, NEW action, NEW id, NEW input,
             \/ Refuses(input) \/ SetFails(window, action, id)
             \/ Gets(window, id) \/ GetFails(window, id) \/ Recalls(window)
      PROVE  FALSE
  BY <1>2 DEF Refuses, SetFails, Gets, GetFails, Recalls, Replies
<1>3. ASSUME NEW height, NEW w, Opens(height, w) PROVE FALSE
  BY <1>3 DEF Opens
<1>4. ~Command
  BY <1>1, <1>2, <1>3 DEF Command
<1>5. ~User
  BY DEF User, Clears, Moves, Greps, Enters, Closes
<1>6. ~Ends
  BY DEF Ends
<1>. QED BY <1>4, <1>5, <1>6 DEF Next

\* What set and history return is true of the lists, as long as it is the last reply.
THEOREM RepliesTrue == Spec => []RepliesAreTrue
<1>1. RepliesAreTrue <=> /\ reply.op = "set" => SetIsTrue(reply, stacks[reply.place])
                         /\ reply.op = "history" => HistoryIsTrue(reply, stacks[reply.place])
  BY DEF RepliesAreTrue, SetIsTrue, HistoryIsTrue
<1>2. Init => RepliesAreTrue
  <2>1. Init => reply = NoReply
    BY DEF Init
  <2>2. NoReply.op # "set" /\ NoReply.op # "history"
    BY DEF NoReply
  <2>. QED BY <1>1, <2>1, <2>2
<1>3. IInv /\ RepliesAreTrue /\ [Next]_vars => RepliesAreTrue'
  <2>. SUFFICES ASSUME IInv, RepliesAreTrue, [Next]_vars PROVE RepliesAreTrue'
    OBVIOUS
  <2>1. CASE reply' = reply
    <3>1. CASE reply = NoReply
      BY <2>1, <3>1 DEF RepliesAreTrue, NoReply
    <3>2. CASE reply # NoReply
      BY <2>1, <3>2, NobodyWaits DEF vars, RepliesAreTrue
    <3>. QED BY <3>1, <3>2
  <2>2. CASE reply' # reply /\ reply'.op \in {"set", "history"}
    <3>1. ASSUME NEW window \in Flags, NEW action \in Actions, NEW title \in GivenTitles,
                 NEW input \in Inputs, SetsNew(window, action, title, input)
          PROVE  SetIsTrue(reply', stacks'[reply'.place]) /\ reply'.op = "set"
      BY <3>1, SetsNewIsTrue, SetsNewCreates
    <3>2. ASSUME NEW window \in Flags, NEW action \in Actions, NEW title \in GivenTitles,
                 NEW input \in Inputs, NEW id \in Ids, SetsOld(window, action, id, title, input)
          PROVE  SetIsTrue(reply', stacks'[reply'.place]) /\ reply'.op = "set"
      BY <3>2, SetsOldIsTrue, SetsOldWrites
    <3>3. ASSUME NEW window \in Flags, Recalls(window)
          PROVE  HistoryIsTrue(reply', stacks'[reply'.place])
      BY <3>3, HistoryTells
    <3>4. \/ SetIsTrue(reply', stacks'[reply'.place]) /\ reply'.op = "set"
          \/ HistoryIsTrue(reply', stacks'[reply'.place]) /\ reply'.op = "history"
      BY <2>2, <3>1, <3>2, <3>3, OnlySetSets
    <3>. QED BY <3>4 DEF RepliesAreTrue, SetIsTrue, HistoryIsTrue
  <2>3. CASE reply'.op \notin {"set", "history"}
    BY <2>3 DEF RepliesAreTrue
  <2>. QED BY <2>1, <2>2, <2>3
<1>. QED BY <1>2, <1>3, Invariance, PTL DEF Spec

(***************************************************************************)
(* Positions.                                                              *)
(***************************************************************************)

\* The row of an entry is the position it was made of, if the editor can hold it.
LEMMA RowIsAsked ==
    ASSUME NEW e \in Entry, e.asked = <<>> \/ e.asked[1] < MaxLine
    PROVE  Row(e) = e.asked
<1>1. e.line = Line(e.asked) /\ e.asked \in Seq(Int)
  BY DEF Entry
<1>2. CASE e.asked = <<>>
  BY <1>1, <1>2 DEF Line, Row
<1>3. CASE e.asked # <<>>
  <2>1. Len(e.asked) = 1 /\ e.asked[1] >= 0 /\ e.asked[1] \in Int
    BY <1>3 DEF Entry
  <2>2. ASSUME NEW n \in Int, n >= 0, n < MaxLine
        PROVE  Held(n + 1) = n + 1
    <3>1. /\ n + 1 + MaxLine + 1 \in 0..(2 * MaxLine + 1)
          /\ 2 * MaxLine + 2 \in Nat \ {0}
      BY <2>2, QuickfixAssumption
    <3>2. \A a \in Nat, b \in Nat \ {0} : a < b => a % b = a
      BY ONLY TRUE
    <3>3. (n + 1 + MaxLine + 1) % (2 * MaxLine + 2) = n + 1 + MaxLine + 1
      BY <3>1, <3>2, QuickfixAssumption
    <3>. QED BY <3>3, QuickfixAssumption DEF Held
  <2>3. e.line = e.asked[1] + 1
    BY <1>1, <1>3, <2>1, <2>2 DEF Line, OneBased
  <2>4. Row(e) = <<e.asked[1]>>
    BY <2>1, <2>3 DEF Row
  <2>5. e.asked = <<e.asked[1]>>
    BY <1>1, <2>1
  <2>. QED BY <2>4, <2>5
<1>. QED BY <1>2, <1>3

LEMMA GetsComeBack ==
    ASSUME IInv, NEW window, NEW id \in Ids, Gets(window, id)
    PROVE  PositionsComeBack'
<1> DEFINE place == Place(window)
           stack == stacks[place]
           i == Selected(stack, id)
           entries == IF i = 0 THEN <<>> ELSE stack.lists[i].items
<1>1. place \in Places /\ Exists(stack, id)
  BY PlaceIsThere DEF Gets
<1>2. Good(stack)
  BY <1>1, GoodAt
<1>3. stacks' = stacks /\ reply' = [Asked("get", window, id) EXCEPT
                         !.records = <<Metadata(stack, i)>>,
                         !.rows = [j \in DOMAIN entries |-> Row(entries[j])]]
  BY DEF Gets, Replies
<1>. HIDE DEF i, entries
<1>4. /\ reply'.place = place /\ reply'.records[1] = Metadata(stack, i)
      /\ reply'.rows = [j \in DOMAIN entries |-> Row(entries[j])]
  BY <1>3 DEF Asked, NoReply
<1>. HIDE DEF stack, place
<1>5. CASE i = 0
  <2>1. DOMAIN reply'.rows = {}
    BY <1>4, <1>5 DEF entries
  <2>. QED BY <2>1 DEF PositionsComeBack
<1>6. CASE i # 0
  <2>1. stack.lists # <<>>
    <3>1. CASE id = NoId
      BY <1>2, <1>6, <3>1 DEF i, Selected, Good, HasCurrent
    <3>2. CASE id # NoId
      BY <1>1, <3>2 DEF Exists, Named
    <3>. QED BY <3>1, <3>2
  <2>2. i \in DOMAIN stack.lists
    BY <1>1, <1>2, <2>1, SelectedIsThere DEF i
  <2>3. stack.lists[i].items \in Seq(Entry) /\ entries = stack.lists[i].items
    <3>1. stack.lists[i] \in List
      BY <1>2, <2>2 DEF Good, Stack
    <3>. QED BY <3>1, <1>6 DEF List, entries
  <2>4. reply'.records[1].nr = i
    BY <1>4, <2>2, MetadataDescribes
  <2>5. stacks'[reply'.place] = stack
    BY <1>3, <1>4 DEF stack
  <2>6. ASSUME NEW j \in DOMAIN reply'.rows,
               LET given == entries[j].asked IN given = <<>> \/ given[1] < MaxLine
        PROVE  reply'.rows[j] = entries[j].asked
    <3>1. j \in DOMAIN entries /\ reply'.rows[j] = Row(entries[j])
      BY <1>4
    <3>2. entries[j] \in Entry
      BY <2>3, <3>1
    <3>. QED BY <2>6, <3>1, <3>2, RowIsAsked
  <2>. QED BY <2>3, <2>4, <2>5, <2>6 DEF PositionsComeBack
<1>. QED BY <1>5, <1>6

\* Only get says that it has got.
LEMMA OnlyGetGets ==
    ASSUME [Next]_vars, reply' # reply, reply'.op = "get"
    PROVE  \E window \in Flags, id \in Ids : Gets(window, id)
<1>1. ASSUME NEW window, NEW action, NEW title, NEW input, SetsNew(window, action, title, input)
      PROVE  FALSE
  BY <1>1 DEF SetsNew, Replies, Asked, NoReply
<1>2. ASSUME NEW window, NEW action, NEW id, NEW title, NEW input,
             SetsOld(window, action, id, title, input)
      PROVE  FALSE
  BY <1>2 DEF SetsOld, Replies, Asked, NoReply
<1>3. ASSUME NEW window, NEW action, NEW id, NEW input,
             \/ Refuses(input) \/ SetFails(window, action, id) \/ GetFails(window, id)
      PROVE  FALSE
  BY <1>3 DEF Refuses, SetFails, GetFails, Replies, Failed, NoReply
<1>4. ASSUME NEW window, Recalls(window) PROVE FALSE
  BY <1>4 DEF Recalls, Replies, Asked, NoReply
<1>5. ASSUME NEW height, NEW w, Opens(height, w) PROVE FALSE
  BY <1>5 DEF Opens, Failed, NoReply
<1>6. ~Ends
  <2>1. NoReply.op # "get"
    BY DEF NoReply
  <2>. QED BY <2>1 DEF Ends
<1>7. ~User
  BY DEF User, Clears, Moves, Greps, Enters, Closes
<1>8. Command
  BY <1>6, <1>7 DEF Next, vars
<1>. QED BY <1>1, <1>2, <1>3, <1>4, <1>5, <1>8 DEF Command

\* A position that the editor can hold comes back as it was given.
THEOREM PositionsReturn == Spec => []PositionsComeBack
<1>1. Init => PositionsComeBack
  <2>1. Init => reply = NoReply
    BY DEF Init
  <2>2. NoReply.op # "get"
    BY DEF NoReply
  <2>. QED BY <2>1, <2>2 DEF PositionsComeBack
<1>2. IInv /\ PositionsComeBack /\ [Next]_vars => PositionsComeBack'
  <2>. SUFFICES ASSUME IInv, PositionsComeBack, [Next]_vars PROVE PositionsComeBack'
    OBVIOUS
  <2>1. CASE reply' = reply /\ reply = NoReply
    <3>1. reply'.op # "get"
      BY <2>1 DEF NoReply
    <3>. QED BY <3>1 DEF PositionsComeBack
  <2>2. CASE reply' = reply /\ reply # NoReply
    <3>1. UNCHANGED vars
      BY <2>2, NobodyWaits
    <3>. QED BY <3>1 DEF vars, PositionsComeBack
  <2>3. CASE reply' # reply /\ reply'.op = "get"
    <3>1. PICK window \in Flags, id \in Ids : Gets(window, id)
      BY <2>3, OnlyGetGets
    <3>. QED BY <3>1, GetsComeBack
  <2>4. CASE reply'.op # "get"
    BY <2>4 DEF PositionsComeBack
  <2>. QED BY <2>1, <2>2, <2>3, <2>4
<1>. QED BY <1>1, <1>2, Invariance, PTL DEF Spec
=============================================================================
