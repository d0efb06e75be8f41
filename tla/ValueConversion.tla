-------------------------- MODULE ValueConversion --------------------------
(***************************************************************************)
(* value.rs and handle.rs: values between MessagePack and Nushell, and     *)
(* handles tagged with the server they belong to.                          *)
(*                                                                         *)
(* A value is a pair of its kind and its content.  MessagePack:            *)
(*   nil, bool, int n, f32 x, f64 x, str s, bytes d (a string that is not  *)
(*   UTF-8), bin d, array q, map q (a sequence of pairs), ext <<tag, d>>.  *)
(* Nushell:                                                                *)
(*   nothing, bool, int n, float x, string s, glob s, binary d, list q,    *)
(*   record q (a sequence of <<name, value>>), other.                      *)
(* Data are <<"data", k>>, any bytes, or <<"id", n>>, the MessagePack form *)
(* of a number.                                                            *)
(* Conversions are functions on the values that come up, which are of any  *)
(* depth.                                                                  *)
(* The spans and texts of errors are left out.                             *)
(***************************************************************************)
EXTENDS Integers, SequencesExt

CONSTANTS
    MaxI64,   \* i64::MAX; i64::MIN is below its negation by one
    MaxU64,   \* u64::MAX
    Servers,  \* the editors' addresses
    Packed,   \* MessagePack values, with the values in them
    Values,   \* Nushell values, with the values in them
    Depth(_), \* a number that is greater than those of the values in a value
    Digits(_) \* a number in decimal

ASSUME IntegerWidths == MaxI64 \in Nat /\ MaxU64 = 2 * MaxI64 + 1

ASSUME NumbersAssumption ==
    /\ \A v \in Packed : v[1] = "int" => v[2] \in (-MaxI64 - 1)..MaxU64
    /\ \A m, n \in 0..MaxU64 : Digits(m) = Digits(n) => m = n

IsPair(p) == p = <<p[1], p[2]>>

\* The values right below a value.
Parts(v) ==
    CASE v[1] \in {"array", "list"} -> {v[2][i] : i \in DOMAIN v[2]}
      [] v[1] = "map" -> {v[2][i][1] : i \in DOMAIN v[2]} \cup {v[2][i][2] : i \in DOMAIN v[2]}
      [] v[1] = "record" -> {v[2][i][2] : i \in DOMAIN v[2]}
      [] OTHER -> {}

ASSUME ValuesAssumption ==
    /\ \A v \in Packed \cup Values :
          IsPair(v) /\ Depth(v) \in Nat /\ \A w \in Parts(v) : Depth(w) < Depth(v)
    /\ \A v \in Packed :
          /\ v[1] \in {"nil", "bool", "int", "f32", "f64", "str", "bytes", "bin", "array", "map", "ext"}
          /\ v[1] = "array" => v[2] \in Seq(Packed)
          /\ v[1] = "map" => v[2] \in Seq(Packed \X Packed)
          /\ v[1] = "nil" => v[2] = ""
          /\ v[1] = "ext" => /\ IsPair(v[2]) /\ IsPair(v[2][2])
                             /\ v[2][2][1] = "id" => v[2][2][2] \in Nat
    /\ \A x \in Values :
          /\ x[1] \in {"nothing", "bool", "int", "float", "string", "glob", "binary", "list", "record",
                       "other"}
          /\ x[1] = "list" => x[2] \in Seq(Values)
          /\ x[1] = "record" => /\ DOMAIN x[2] = 1..Len(x[2]) /\ Len(x[2]) \in Nat
                                /\ \A i \in DOMAIN x[2] : x[2][i][2] \in Values

Failure == <<"error", "">>
Failed(v) == v[1] = "error"
AnyFailed(values) == \E i \in DOMAIN values : Failed(values[i])

\* HandleKind: the tags of extensions, as from_extension_tag and as_str have them.
HandleKinds == <<"buffer", "window", "tab">>
IsHandleTag(tag) == tag \in 0..2
KindTags == [buffer |-> 0, window |-> 1, tab |-> 2, tabpage |-> 2]

Record(fields) == <<"record", fields>>
Text(s) == <<"string", s>>

(***************************************************************************)
(* From MessagePack.                                                       *)
(***************************************************************************)

\* Mutant: a great unsigned integer is cast.
IntToNuWrapping(n) == <<"int", IF n <= MaxI64 THEN n ELSE n - (MaxU64 + 1)>>

\* An unsigned integer that no signed one can hold goes as its digits.
IntToNu(n) ==
    IF n <= MaxI64 THEN <<"int", n>>
    ELSE Record(<< <<"type", Text("msgpack-uint")>>, <<"value", Text(Digits(n))>> >>)

\* A handle whose content is no number, or too great a one, is refused.
ExtToNu(tag, data, server) ==
    IF IsHandleTag(tag)
    THEN IF data[1] = "id" /\ data[2] <= MaxI64
         THEN Record(<< <<"type", Text("nvim-handle")>>, <<"kind", Text(HandleKinds[tag + 1])>>,
                        <<"id", <<"int", data[2]>> >>, <<"server", Text(server)>> >>)
         ELSE Failure
    ELSE Record(<< <<"type", Text("msgpack-ext")>>, <<"tag", <<"int", tag>> >>,
                   <<"data", <<"binary", data>> >> >>)

\* Are the keys of a map strings, each there once?
Direct(entries) ==
    /\ \A i \in DOMAIN entries : entries[i][1][1] = "str"
    /\ \A i, j \in DOMAIN entries : i # j => entries[i][1] # entries[j][1]

\* What each of some values becomes.
Each(convert, values) == [i \in DOMAIN values |-> convert[values[i]]]

MapToNu(entries, convert) ==
    LET keys == [i \in DOMAIN entries |-> convert[entries[i][1]]]
        values == [i \in DOMAIN entries |-> convert[entries[i][2]]]
        tagged == [i \in DOMAIN entries |->
                      Record(<< <<"key", keys[i]>>, <<"value", values[i]>> >>)]
    IN  IF AnyFailed(values) \/ (~Direct(entries) /\ AnyFailed(keys)) THEN Failure
        ELSE IF Direct(entries)
        THEN Record([i \in DOMAIN entries |-> <<entries[i][1][2], values[i]>>])
        ELSE Record(<< <<"type", Text("msgpack-map")>>, <<"entries", <<"list", tagged>> >> >>)

ValueToNu(v, server, convert) ==
    CASE v[1] = "nil" -> <<"nothing", "">>
      [] v[1] = "bool" -> v
      [] v[1] = "int" -> IntToNu(v[2])
      [] v[1] \in {"f32", "f64"} -> <<"float", v[2]>>
      [] v[1] = "str" -> Text(v[2])
      [] v[1] = "bytes" ->
            Record(<< <<"type", Text("msgpack-string")>>, <<"data", <<"binary", v[2]>> >> >>)
      [] v[1] = "bin" -> <<"binary", v[2]>>
      [] v[1] = "array" -> LET values == Each(convert, v[2])
                           IN  IF AnyFailed(values) THEN Failure ELSE <<"list", values>>
      [] v[1] = "map" -> MapToNu(v[2], convert)
      [] v[1] = "ext" -> ExtToNu(v[2][1], v[2][2], server)

\* msgpack_to_nu
ToNu == [server \in Servers |->
            LET Convert[v \in Packed] == ValueToNu(v, server, Convert) IN Convert]

(***************************************************************************)
(* To MessagePack.                                                         *)
(***************************************************************************)

Missing == <<"missing", "">>

\* The first field of this name.
Field(fields, name) ==
    LET named == {i \in DOMAIN fields : fields[i][1] = name}
    IN  IF named = {} THEN Missing ELSE fields[Min(named)][2]

\* Its content, if it is of this kind.
Has(fields, name, kind) == Field(fields, name)[1] = kind
Content(fields, name) == Field(fields, name)[2]

\* Mutant: a handle is taken to belong to the editor it is sent to.
OwnedByAny(fields, server) == Has(fields, "server", "string")

\* Does a handle belong to this editor?
Owned(fields, server) == Has(fields, "server", "string") /\ Content(fields, "server") = server

HandleFromNu(fields, server) ==
    IF /\ Owned(fields, server)
       /\ Has(fields, "kind", "string") /\ Content(fields, "kind") \in DOMAIN KindTags
       /\ Has(fields, "id", "int") /\ Content(fields, "id") >= 0
    THEN <<"ext", <<KindTags[Content(fields, "kind")], <<"id", Content(fields, "id")>> >> >>
    ELSE Failure

\* The tag must be one of eight bits; here there is none but small ones.
ExtFromNu(fields) ==
    IF Has(fields, "tag", "int") /\ Has(fields, "data", "binary")
    THEN <<"ext", <<Content(fields, "tag"), Content(fields, "data")>> >>
    ELSE Failure

UnsignedFromNu(fields) ==
    LET numbers == {n \in 0..MaxU64 : Has(fields, "value", "string")
                                         /\ Digits(n) = Content(fields, "value")}
    IN  IF numbers = {} THEN Failure ELSE <<"int", CHOOSE n \in numbers : TRUE>>

BytesFromNu(fields) ==
    IF Has(fields, "data", "binary") THEN <<"bytes", Content(fields, "data")>> ELSE Failure

\* A list of records with a key and a value each.
MapFromNu(fields, convert) ==
    IF ~Has(fields, "entries", "list") THEN Failure
    ELSE LET entries == Content(fields, "entries")
             Part(name) == [i \in DOMAIN entries |->
                               IF entries[i][1] = "record" /\ Field(entries[i][2], name) # Missing
                               THEN convert[Field(entries[i][2], name)] ELSE Failure]
             keys == Part("key")
             values == Part("value")
         IN  IF AnyFailed(keys) \/ AnyFailed(values) THEN Failure
             ELSE <<"map", [i \in DOMAIN entries |-> <<keys[i], values[i]>>]>>

PlainFromNu(fields, convert) ==
    LET values == [i \in DOMAIN fields |-> convert[fields[i][2]]]
    IN  IF AnyFailed(values) THEN Failure
        ELSE <<"map", [i \in DOMAIN fields |-> << <<"str", fields[i][1]>>, values[i]>>]>>

Tags == {"nvim-handle", "msgpack-ext", "msgpack-map", "msgpack-uint", "msgpack-string"}

TagOf(fields) == IF Has(fields, "type", "string") THEN Content(fields, "type") ELSE ""

RecordFromNu(fields, server, convert) ==
    LET tag == TagOf(fields)
    IN  CASE tag = "nvim-handle" -> HandleFromNu(fields, server)
          [] tag = "msgpack-ext" -> ExtFromNu(fields)
          [] tag = "msgpack-map" -> MapFromNu(fields, convert)
          [] tag = "msgpack-uint" -> UnsignedFromNu(fields)
          [] tag = "msgpack-string" -> BytesFromNu(fields)
          [] OTHER -> PlainFromNu(fields, convert)

ValueFromNu(x, server, convert) ==
    CASE x[1] = "nothing" -> <<"nil", "">>
      [] x[1] \in {"bool", "int"} -> x
      [] x[1] = "float" -> <<"f64", x[2]>>
      [] x[1] \in {"string", "glob"} -> <<"str", x[2]>>
      [] x[1] = "binary" -> <<"bin", x[2]>>
      [] x[1] = "list" -> LET values == Each(convert, x[2])
                          IN  IF AnyFailed(values) THEN Failure ELSE <<"array", values>>
      [] x[1] = "record" -> RecordFromNu(x[2], server, convert)
      [] OTHER -> Failure

\* nu_to_msgpack
FromNu == [server \in Servers |->
              LET Convert[x \in Values] == ValueFromNu(x, server, Convert) IN Convert]

\* There are enough values for what conversions make of them.
ASSUME ConversionsAssumption ==
    \A server \in Servers :
        /\ \A v \in Packed : ToNu[server][v] \in Values \cup {Failure}
        /\ \A x \in Values : FromNu[server][x] \in Packed \cup {Failure}
=============================================================================
