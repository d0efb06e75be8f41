----------------------------- MODULE ApiCodegen -----------------------------
(***************************************************************************)
(* nuvim-codegen: the metadata of the installed Neovim is rendered to      *)
(* generated.rs, the checked-in file is compared with it, and the plugin   *)
(* is built from the file.  The rendered text is taken to tell apart what  *)
(* it is rendered from.  Metadata record whether their functions are well- *)
(* formed, and no two parameters of one get the same Rust identifier.      *)
(* What else is rendered (the names and types of parameters and results,   *)
(* the API levels) is part of the release.                                 *)
(***************************************************************************)
EXTENDS Integers, SequencesExt, Ordering

CONSTANTS
    Versions,   \* of Neovim
    Metadata,   \* what nvim --api-info says of each: its release, with all
                \* that is rendered and has no field of its own, its
                \* functions (names and numbers of parameters) in an order of
                \* its own, and whether they are well-formed
    Order,      \* their names, in the order of the names' bytes
    Used        \* the functions whose methods the plugin calls, with the number
                \* of arguments it gives them

Listing(v) == Metadata[v].functions
Api == [v \in Versions |-> ToSet(Listing(v))]
Names == [v \in Versions |-> {f[1] : f \in Api[v]}]

\* No version lists a name twice.
ASSUME MetadataAssumption ==
    /\ "none" \notin Versions /\ "partial" \notin Versions
    /\ Order \in Seq(ToSet(Order)) /\ IsInjective(Order)
    /\ \A v \in Versions : /\ Listing(v) \in Seq(ToSet(Order) \X Nat)
                           /\ \A f, g \in Api[v] : f[1] = g[1] => f = g

VARIABLES
    installed,  \* the version of the nvim on the PATH, or "none"
    file,       \* the version generated.rs is from, "none", or "partial"
    verdict,    \* the last --check of this file: against which version, and whether it passed
    shipped     \* has the plugin been built from the file?

codegenVars == <<installed, file, verdict, shipped>>

Unchecked == [against |-> "none", fresh |-> FALSE]

RankOf == [name \in ToSet(Order) |-> CHOOSE i \in DOMAIN Order : Order[i] = name]
ByName(functions) == {fg \in functions \X functions : RankOf[fg[1][1]] < RankOf[fg[2][1]]}

\* parse_function: malformed, or with parameters of one Rust identifier.
Parses(v) == v \in Versions /\ Metadata[v].sound

\* Mutant: the functions stay in the editor's order.
TableAsListed == [v \in Versions |-> Listing(v)]

\* parse_api: the functions of each version, sorted by name.
Table == [v \in Versions |-> Enumerated(Api[v], ByName(Api[v]))]

\* Mutant: what the file says of parameters is not compared.
RenderedNames(v) == <<Metadata[v].release, Names[v]>>

\* The text of the file generated from this version.
Rendered(v) == <<Metadata[v].release, Table[v]>>

Installs(v) ==
    /\ ~shipped
    /\ installed' = v
    /\ UNCHANGED <<file, verdict, shipped>>

\* Without --check.  The write may be cut short, by a crash or a full disk.
Generates ==
    /\ ~shipped
    /\ Parses(installed)
    /\ file' \in {installed, "partial"}
    /\ verdict' = Unchecked
    /\ UNCHANGED <<installed, shipped>>

\* With --check; it fails, too, if nvim or its metadata cannot be read.
Checks ==
    /\ ~shipped
    /\ installed # "none"
    /\ verdict' = [against |-> installed,
                   fresh |-> /\ Parses(installed) /\ file \in Versions
                             /\ Rendered(file) = Rendered(installed)]
    /\ UNCHANGED <<installed, file, shipped>>

\* The compiler accepts the file if every method the plugin calls is there, with
\* an array of that many arguments.
Ships ==
    /\ ~shipped
    /\ file \in Versions
    /\ Used \subseteq Api[file]
    /\ shipped' = TRUE
    /\ installed' = "none"
    /\ UNCHANGED <<file, verdict>>

CodegenInit ==
    /\ installed = "none" /\ file = "none" /\ verdict = Unchecked /\ shipped = FALSE

CodegenNext == (\E v \in Versions : Installs(v)) \/ Generates \/ Checks \/ Ships

\* slice::binary_search_by_key: the place of this name in a sorted table, or 0.
Search(table, name) ==
    LET Within[range \in (Nat \ {0}) \X Nat] ==
            LET lo == range[1]
                hi == range[2]
                mid == (lo + hi) \div 2
            IN  IF lo > hi THEN 0
                ELSE IF RankOf[table[mid][1]] = RankOf[name] THEN mid
                ELSE IF RankOf[table[mid][1]] < RankOf[name] THEN Within[<<mid + 1, hi>>]
                ELSE Within[<<lo, mid - 1>>]
    IN  Within[<<1, Len(table)>>]

\* api_function, in the table the plugin has been built with.
Known(name) == Search(Table[file], name) # 0
Arity(name) == Table[file][Search(Table[file], name)][2]

(***************************************************************************)
(* Correctness.                                                            *)
(***************************************************************************)

\* Every variable has its type.
CodegenTypeOK ==
    /\ installed \in Versions \cup {"none"} /\ file \in Versions \cup {"none", "partial"}
    /\ verdict \in [against : Versions \cup {"none"}, fresh : BOOLEAN]
    /\ shipped \in BOOLEAN

\* --check passes if and only if the file has the functions of the installed
\* editor, each with as many parameters as it has there, and its release (which stands for
\* the rest of the text: the comparison is of all of it);
\* whatever order the editor lists them in, and after a generation that was cut
\* short too (main, parse_api).
CheckIsParity ==
    verdict.against # "none" =>
        (verdict.fresh <=> /\ Parses(verdict.against) /\ file \in Versions
                           /\ Api[file] = Api[verdict.against]
                           /\ Metadata[file].release = Metadata[verdict.against].release)

\* What has been built has compiled; what has not been checked has not passed.
Built ==
    /\ shipped => file \in Versions /\ Used \subseteq Api[file]
    /\ verdict.against = "none" => ~verdict.fresh
=============================================================================
