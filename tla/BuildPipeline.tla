---- MODULE BuildPipeline ----
(***************************************************************************)
(* The targets of fstar/Makefile: make tables prints the two table         *)
(* modules, make generate extracts and vendors the C, make verify runs the *)
(* proofs.  A step is one command of a recipe.  Each may fail half way or  *)
(* be interrupted, which ends the target; the developer may then edit, or  *)
(* start any target again.  A file's content is reduced to the version of  *)
(* the RFC table, or of the toolchain, it was made from.                   *)
(***************************************************************************)
EXTENDS Integers, Sequences

CONSTANTS MaxEdits, MaxFaults,      \* how often sources change, how often a command fails
          Missing, Partial, Slip    \* no file, a truncated one, one a generator got wrong

ASSUME PipelineBounds == MaxEdits \in Nat /\ MaxFaults \in Nat

VARIABLES table,         \* the version of Hpack.Huffman.Table.fst
          home,          \* the version of the toolchain at KRML_HOME
          module, tmp,   \* Lowstar.Tables.fst and Lowstar.DfaTables.fst, their .tmp files
          krml,          \* dfa.krml and out.krml
          extract,       \* the C staged in EXTRACT_DIR
          generated,     \* the files of GENERATED_DIR
          target, todo,  \* what make runs, and the commands it has left
          done,          \* the targets that ended well on the sources as they are
          edits, faults

sources == <<table, home, edits>>
modules == <<module, tmp>>
staging == <<krml, extract>>
vars == <<sources, modules, staging, generated, target, todo, done, faults>>

Emitted == {"c", "h", "internal"}  \* the files KaRaMeL writes and strip_header.py rewrites
Headers == {"include", "minimal"}  \* the files copied from KRML_HOME
Version == 0..MaxEdits

NoKrml == [dfa |-> Missing, out |-> Missing]
EmittedFrom(code, stripped) == [code |-> code, stripped |-> stripped]

Init ==
    /\ table = 0 /\ home = 0 /\ edits = 0 /\ faults = 0
    /\ module = [enc |-> 0, dfa |-> 0] /\ tmp = [enc |-> Missing, dfa |-> Missing]
    /\ krml = NoKrml /\ extract = Missing
    /\ generated = [f \in Emitted \cup Headers |->
           IF f \in Headers THEN 0 ELSE EmittedFrom([enc |-> 0, dfa |-> 0, home |-> 0], TRUE)]
    /\ target = "none" /\ todo = <<>> /\ done = {"verify", "generate"}

--------------------------------------------------------------------------
(* The recipes; && joins two commands of a line as a new line would. *)

Tables == <<"gen enc", "mv enc", "gen dfa", "mv dfa">>
Extract == <<"test home", "rm extract", "pass A", "mv krml", "pass B", "krml">>
Vendor == <<"rm generated", "cp emitted", "cp internal", "cp include", "cp minimal", "strip">>

(* Mutants of Generate: what lies in EXTRACT_DIR is vendored; the old tree *)
(* is written over.                                                        *)
GenerateOnly == Vendor
GenerateOver == Extract \o Tail(Vendor)

Generate == Extract \o Vendor

Recipe == [tables |-> Tables, extract |-> Extract, generate |-> Generate, verify |-> <<"verify">>]

(* make <target> *)
Start ==
    /\ todo = <<>>
    /\ \E t \in DOMAIN Recipe : target' = t /\ todo' = Recipe[t] /\ done' = done \ {t}
    /\ UNCHANGED <<sources, modules, staging, generated, faults>>

(* The developer changes the RFC table, or moves to another toolchain. *)
Edit ==
    /\ todo = <<>> /\ edits < MaxEdits
    /\ edits' = edits + 1
    /\ \/ table' = table + 1 /\ UNCHANGED home
       \/ home' = home + 1 /\ UNCHANGED table
    /\ done' = {}
    /\ UNCHANGED <<modules, staging, generated, target, todo, faults>>

--------------------------------------------------------------------------
(* One command: it ends well, and the last one ends its target ... *)
Does(c) ==
    /\ todo # <<>> /\ Head(todo) = c
    /\ todo' = Tail(todo)
    /\ UNCHANGED <<sources, target, faults>>

Ended == IF Len(todo) = 1 THEN {target} ELSE {}

(* ... or it fails or is cut short, and make stops. *)
Fails(c) ==
    /\ todo # <<>> /\ Head(todo) = c
    /\ todo' = <<>>
    /\ faults < MaxFaults /\ faults' = faults + 1
    /\ UNCHANGED <<sources, target, done>>

Writes(c) == Does(c) /\ done' = done \cup Ended

GenName(m) == IF m = "enc" THEN "gen enc" ELSE "gen dfa"
MvName(m) == IF m = "enc" THEN "mv enc" ELSE "mv dfa"

(* Mutant of gen: a semicolon in place of &&, so mv runs all the same. *)
genSemicolon(m) ==
    /\ Writes(GenName(m))
    /\ \E out \in {table, Slip, Partial} : tmp' = [tmp EXCEPT ![m] = out]
    /\ UNCHANGED <<module, staging, generated>>

(* python3 gen_*_tables.py > *.tmp prints the table as it is, or a slip. *)
gen(m) ==
    /\ \/ Writes(GenName(m)) /\ \E out \in {table, Slip} : tmp' = [tmp EXCEPT ![m] = out]
       \/ Fails(GenName(m)) /\ tmp' = [tmp EXCEPT ![m] = Partial]
    /\ UNCHANGED <<module, staging, generated>>

(* mv replaces the module at once; a failure leaves it as it was. *)
mv(m) ==
    /\ \/ /\ Does(MvName(m)) /\ done' = Ended
          /\ module' = [module EXCEPT ![m] = tmp[m]]
          /\ tmp' = [tmp EXCEPT ![m] = Missing]
       \/ Fails(MvName(m)) /\ UNCHANGED modules
    /\ UNCHANGED <<staging, generated>>

(* The KRML_HOME test comes first, before anything is removed. *)
test_home ==
    /\ Writes("test home") \/ Fails("test home")
    /\ UNCHANGED <<modules, staging, generated>>

rm_extract ==
    /\ \/ Writes("rm extract") /\ extract' = Missing /\ krml' = NoKrml
       \/ /\ Fails("rm extract")
          /\ extract' \in {extract, Partial, Missing} /\ krml' \in {krml, NoKrml}
    /\ UNCHANGED <<modules, generated>>

(* One F* extraction pass; both write out.krml. *)
pass(c, m) ==
    /\ \/ Writes(c) /\ krml' = [krml EXCEPT !.out = module[m]]
       \/ Fails(c) /\ \E x \in {krml.out, Partial} : krml' = [krml EXCEPT !.out = x]
    /\ UNCHANGED <<modules, extract, generated>>

mv_krml ==
    /\ \/ Writes("mv krml") /\ krml' = [dfa |-> krml.out, out |-> Missing]
       \/ Fails("mv krml") /\ UNCHANGED krml
    /\ UNCHANGED <<modules, extract, generated>>

krml_bundle ==
    /\ \/ Writes("krml") /\ extract' = [enc |-> krml.out, dfa |-> krml.dfa, home |-> home]
       \/ Fails("krml") /\ extract' \in {Missing, Partial}
    /\ UNCHANGED <<modules, krml, generated>>

(* rm -rf removes every file, or those it came to. *)
rm_generated ==
    /\ \E gone \in SUBSET DOMAIN generated :
          /\ \/ Writes("rm generated") /\ gone = DOMAIN generated
             \/ Fails("rm generated")
          /\ generated' = [f \in DOMAIN generated |-> IF f \in gone THEN Missing ELSE generated[f]]
    /\ UNCHANGED <<modules, staging>>

(* cp: all of its files, or some, and some cut short. *)
cp(c, files, content) ==
    /\ \/ /\ Writes(c)
          /\ generated' = [f \in DOMAIN generated |-> IF f \in files THEN content ELSE generated[f]]
       \/ /\ Fails(c)
          /\ \E copied, cut \in SUBSET files :
                generated' = [f \in DOMAIN generated |->
                    IF f \in cut THEN Partial ELSE IF f \in copied THEN content ELSE generated[f]]
    /\ UNCHANGED <<modules, staging>>

Order == <<"c", "h", "internal">>
StrippedUpTo(n) ==
    [f \in DOMAIN generated |->
        IF \E k \in 1..n : Order[k] = f THEN [generated[f] EXCEPT !.stripped = TRUE]
        ELSE generated[f]]

(* strip_header.py truncates a file before it writes it. *)
strip ==
    /\ \/ Writes("strip") /\ generated' = StrippedUpTo(3)
       \/ /\ Fails("strip")
          /\ \E n \in 0..2 : \/ generated' = StrippedUpTo(n)
                             \/ generated' = [StrippedUpTo(n) EXCEPT ![Order[n + 1]] = Partial]
    /\ UNCHANGED <<modules, staging>>

(* Mutant of Proofs: the proof that the table is the automaton's is left out. *)
ProofsOfEncoder == module.enc = table

(* Refine.Encode and Refine.DfaTable hold of the modules as they are. *)
Proofs == module.enc = table /\ module.dfa = table

verify ==
    /\ \/ Writes("verify") /\ Proofs
       \/ Fails("verify")
       \/ Does("verify") /\ ~Proofs /\ UNCHANGED done
    /\ UNCHANGED <<modules, staging, generated>>

Commands ==
    \/ \E m \in {"enc", "dfa"} : gen(m) \/ mv(m)
    \/ test_home \/ rm_extract \/ pass("pass A", "dfa") \/ mv_krml \/ pass("pass B", "enc")
    \/ krml_bundle \/ rm_generated
    \/ cp("cp emitted", {"c", "h"}, EmittedFrom(extract, FALSE))
    \/ cp("cp internal", {"internal"}, EmittedFrom(extract, FALSE))
    \/ cp("cp include", {"include"}, home) \/ cp("cp minimal", {"minimal"}, home)
    \/ strip \/ verify

Next == Start \/ Edit \/ Commands

Spec == Init /\ [][Next]_vars

--------------------------------------------------------------------------
(* A generator that fails, or a target cut short, never leaves a committed *)
(* table module missing or truncated: it is whole at every moment.         *)
ModulesWhole == \A m \in DOMAIN module : module[m] \in Version \cup {Slip}

Whole == \A f \in DOMAIN generated : generated[f] \notin {Missing, Partial}

(* A vendored tree in which every file is there and whole comes from one   *)
(* extraction and one toolchain, wherever earlier runs of make stopped; a  *)
(* tree that mixes two lacks a file, so it does not build.                 *)
OneExtraction ==
    Whole => \E code \in {generated[f].code : f \in Emitted} :
                 /\ \A f \in Emitted : generated[f].code = code
                 /\ \A f \in Headers : generated[f] = code.home

VendoredFrom(enc, dfa) ==
    /\ \A f \in Emitted :
          generated[f] = EmittedFrom([enc |-> enc, dfa |-> dfa, home |-> home], TRUE)
    /\ \A f \in Headers : generated[f] = home

(* When make generate has ended well, the tree is the extraction of the    *)
(* modules as they are, with the toolchain as it is and the stable header, *)
(* whatever earlier runs left in EXTRACT_DIR or among the .krml files.     *)
VendorsCurrentModules ==
    "generate" \in done => VendoredFrom(module.enc, module.dfa)

(* When make verify and make generate have both ended well on the same     *)
(* sources, in either order, the tree is that of the RFC table: a slip of  *)
(* a generator or a half-finished make tables is not in it.                *)
VerifiedShipsTable ==
    {"verify", "generate"} \subseteq done => VendoredFrom(table, table)

(* ARCHITECTURE.md and the Makefile say that make generate verifies before *)
(* it extracts.                                                            *)
GenerateVerifies == "generate" \in done => VendoredFrom(table, table)
====
