----------------------------- MODULE MCRawCall -----------------------------
(***************************************************************************)
(* Two editors of the release the checked-in table is from or of others,   *)
(* and values of every kind, nested where that matters.  The metadata is   *)
(* three groups of the catalogue.                                          *)
(***************************************************************************)
EXTENDS RawCall, ApiCatalogue

\* Each function is listed once.
ASSUME Catalogue ==
    Cardinality({API_FUNCTIONS[i][1] : i \in DOMAIN API_FUNCTIONS}) = Len(API_FUNCTIONS)

Old == NvimCallToFeedkeys \o NvimGetToLoad \o WindowFunctions

Changed == CHOOSE i \in DOMAIN Old : Old[i][1] = "nvim_get_var"

\* A build of the same release with one parameter more in one function.
Nightly == [Old EXCEPT ![Changed] = <<"nvim_get_var", 2>>]
NamesInOrder ==
    LET old == [i \in DOMAIN Old |-> Old[i][1]] IN InsertAt(old, Len(old), "window_new")

Release(n, functions) == [release |-> n, functions |-> functions, sound |-> TRUE]

VersionMetadata ==
    [release |-> Release(6, Reverse(Old)),
     rebuilt |-> Release(6, Old),
     nightly |-> Release(6, Reverse(Nightly)),
     broken |-> [release |-> 8, functions |-> << <<"window_new", 1>> >>, sound |-> FALSE]]

Id(n) == <<"id", n>>
Handle(tag, n) == <<"ext", <<tag, Id(n)>> >>
Str(s) == <<"str", s>>

I(n) == <<"int", n>>
Bytes(n) == <<"bytes", <<"data", n>> >>
List(v) == <<"array", <<v, I(1)>> >>
Pair(k, v, l, w) == <<"map", << <<k, v>>, <<l, w>> >> >>
Keyed(k, v) == <<"map", << <<k, v>> >> >>

\* The values that are hard to carry: great integers, bytes that are no text, short
\* floats, handles and unknown extensions, at some depth; maps with other keys, with
\* one twice, or that look like a tagged record; and handles with a bad number.
FromA ==
    {<<"nil", "">>, <<"bool", TRUE>>, I(-4), I(4), Bytes(1), <<"bin", <<"data", 2>> >>,
     <<"f32", "x">>, <<"ext", <<3, <<"data", 3>> >> >>, Handle(0, 1), List(Handle(1, 1)),
     Keyed(Str("a"), List(Handle(2, 1))), Keyed(Handle(0, 1), Str("a")),
     Pair(Str("a"), I(1), Str("a"), I(2)), Pair(Bytes(1), I(4), I(1), Bytes(1)),
     Keyed(Str("type"), Str("msgpack-uint")), Keyed(Str("type"), Str("a")),
     <<"ext", <<0, <<"data", 1>> >> >>, List(Handle(1, 4))}
FromB == {Handle(0, 2), List(Keyed(I(7), Handle(1, 2)))}

TwoServers == {"A", "B"}
Answered == [A |-> FromA, B |-> FromB]
Words == {Text("a"), <<"other", "">>}
Asked == {"nvim_get_var", "window_new", "window_set_width"}
Typed == {<<"nvim_get_current_buf", 0>>, <<"nvim_exec_lua", 2>>, <<"window_set_cursor", 2>>}

\* All values that come up: those above, what they become, and what is in them.
RECURSIVE DepthOf(_), AllIn(_), Converted(_, _), Back(_, _), Closed(_)
DepthOf(v) == IF Parts(v) = {} THEN 0 ELSE 1 + Max({DepthOf(w) : w \in Parts(v)})
AllIn(v) == {v} \cup UNION {AllIn(w) : w \in Parts(v)}
Converted(v, server) == ValueToNu(v, server, [w \in Parts(v) |-> Converted(w, server)])
Back(x, server) == ValueFromNu(x, server, [w \in AllIn(x) \ {x} |-> Back(w, server)])
Nushell(packed) ==
    UNION {AllIn(x) : x \in Words \cup {Nothing}
                                \cup {Converted(v, s) : v \in packed, s \in TwoServers}}
        \ {Failure}
Closed(packed) ==
    LET back == UNION {AllIn(Back(x, s)) : x \in Nushell(packed), s \in TwoServers} \ {Failure}
    IN  IF back \subseteq packed THEN packed ELSE Closed(packed \cup back)

AllPacked == Closed(UNION {AllIn(v) : v \in FromA \cup FromB})
AllValues == Nushell(AllPacked)
InDecimal(n) == ToString(n)
=============================================================================
