---- MODULE BuildPipelineProofs ----
(***************************************************************************)
(* Proofs about the targets of fstar/Makefile, for any number of changes   *)
(* and of failing commands.  The invariant follows the commands of the     *)
(* running target: what each has left behind for the ones that come after, *)
(* and what the targets that ended well have left in the tree.             *)
(***************************************************************************)
EXTENDS BuildPipeline, SequenceTheorems, TLAPS

Parts == {"enc", "dfa"}
Good == Version \cup {Slip}
Content == Good \cup {Missing, Partial}
Files == Emitted \cup Headers

Command ==
    {"gen enc", "mv enc", "gen dfa", "mv dfa", "test home", "rm extract", "pass A", "mv krml",
     "pass B", "krml", "rm generated", "cp emitted", "cp internal", "cp include", "cp minimal",
     "strip", "verify"}

ExtractCommands == {"test home", "rm extract", "pass A", "mv krml", "pass B", "krml"}

(* How many commands of the running target have ended well. *)
at == Len(Recipe[target]) - Len(todo)

Runs(targets) == todo # <<>> /\ target \in targets

KrmlTyped == krml \in [{"dfa", "out"} -> Content]

TypeInv ==
    /\ table \in Nat /\ home \in Nat /\ edits \in Nat
    /\ table <= edits /\ edits <= MaxEdits
    /\ module \in [Parts -> Good] /\ tmp \in [Parts -> Content]
    /\ KrmlTyped
    /\ todo \in Seq(Command)
    /\ DOMAIN generated = Files

(* todo is the rest of the target's recipe; the target has not ended. *)
Schedule ==
    todo # <<>> =>
        /\ target \in DOMAIN Recipe \ done
        /\ Len(todo) <= Len(Recipe[target])
        /\ \A i \in 1..Len(todo) : todo[i] = Recipe[target][at + i]

Printed ==
    Runs({"tables"}) =>
        /\ at = 1 => tmp["enc"] \in Good
        /\ at = 3 => tmp["dfa"] \in Good

(* The extraction of the modules as they are. *)
Current == [enc |-> module["enc"], dfa |-> module["dfa"], home |-> home]

Staged ==
    Runs({"extract", "generate"}) =>
        /\ at = 3 => krml["out"] = module["dfa"]
        /\ at \in {4, 5} => krml["dfa"] = module["dfa"]
        /\ at = 5 => krml["out"] = module["enc"]
        /\ at >= 6 => extract = Current

(* The files copied by the first k commands of make generate. *)
Filled(k) ==
    {f \in Files : \/ f \in {"c", "h"} /\ k >= 8
                   \/ f = "internal" /\ k >= 9
                   \/ f = "include" /\ k >= 10
                   \/ f = "minimal" /\ k >= 11}

Fresh(f) == IF f \in Headers THEN home ELSE EmittedFrom(extract, FALSE)

Copied ==
    Runs({"generate"}) /\ at >= 7 =>
        \A f \in Files : generated[f] = IF f \in Filled(at) THEN Fresh(f) ELSE Missing

(* Every file that is there and whole is from the extraction `code`. *)
From(code) ==
    /\ \A f \in Emitted : generated[f] \in {Missing, Partial, EmittedFrom(code, TRUE),
                                            EmittedFrom(code, FALSE)}
    /\ \A f \in Headers : generated[f] \in {Missing, Partial, code.home}

OneSource == \E code : From(code)

Ships ==
    /\ "generate" \in done => VendoredFrom(module["enc"], module["dfa"])
    /\ "verify" \in done => Proofs

Inv ==
    TypeInv /\ Schedule /\ Printed /\ Staged /\ Copied /\ OneSource /\ Ships

--------------------------------------------------------------------------
(* The recipes. *)

LEMMA GenerateIs ==
    /\ Generate \in Seq(Command) /\ Len(Generate) = 12
    /\ \A i \in 1..6 : Generate[i] = Extract[i] /\ Generate[i + 6] = Vendor[i]
<1>1. Extract \in Seq(Command) /\ Len(Extract) = 6
  BY DEF Extract, Command
<1>2. Vendor \in Seq(Command) /\ Len(Vendor) = 6
  BY DEF Vendor, Command
<1>3. /\ Generate \in Seq(Command) /\ Len(Generate) = Len(Extract) + Len(Vendor)
      /\ \A i \in 1..Len(Extract) + Len(Vendor) :
            Generate[i] = IF i <= Len(Extract) THEN Extract[i] ELSE Vendor[i - Len(Extract)]
  BY ONLY <1>1, <1>2, ConcatProperties DEF Generate
<1>4. Len(Generate) = 12
  BY <1>1, <1>2, <1>3
<1>5. \A i \in 1..12 : Generate[i] = IF i <= 6 THEN Extract[i] ELSE Vendor[i - 6]
  BY <1>1, <1>2, <1>3
<1>6. ASSUME NEW i \in 1..6 PROVE Generate[i] = Extract[i] /\ Generate[i + 6] = Vendor[i]
  BY <1>5
<1> QED
  BY <1>3, <1>4, <1>6

LEMMA RecipeIs ==
    /\ DOMAIN Recipe = {"tables", "extract", "generate", "verify"}
    /\ Recipe["tables"] = Tables /\ Recipe["extract"] = Extract
    /\ Recipe["generate"] = Generate /\ Recipe["verify"] = <<"verify">>
<1>1. DOMAIN Recipe = {"tables", "extract", "generate", "verify"}
  BY DEF Recipe
<1>2. Recipe["tables"] = Tables /\ Recipe["extract"] = Extract
  BY DEF Recipe
<1>3. Recipe["generate"] = Generate /\ Recipe["verify"] = <<"verify">>
  BY DEF Recipe
<1> QED
  BY <1>1, <1>2, <1>3

LEMMA RecipeLengths ==
    /\ DOMAIN Recipe = {"tables", "extract", "generate", "verify"}
    /\ \A t \in DOMAIN Recipe : Recipe[t] \in Seq(Command)
    /\ Len(Recipe["tables"]) = 4 /\ Len(Recipe["extract"]) = 6
    /\ Len(Recipe["generate"]) = 12 /\ Len(Recipe["verify"]) = 1
<1>1. Tables \in Seq(Command) /\ Len(Tables) = 4
  BY DEF Tables, Command
<1>2. Extract \in Seq(Command) /\ Len(Extract) = 6
  BY DEF Extract, Command
<1>3. <<"verify">> \in Seq(Command) /\ Len(<<"verify">>) = 1
  BY DEF Command
<1>4. ASSUME NEW t \in DOMAIN Recipe PROVE Recipe[t] \in Seq(Command)
  <2>1. t \in {"tables", "extract", "generate", "verify"}
    BY RecipeIs
  <2> QED
    BY <1>1, <1>2, <1>3, <2>1, GenerateIs, RecipeIs
<1>5. Len(Recipe["tables"]) = 4 /\ Len(Recipe["extract"]) = 6
  BY <1>1, <1>2, RecipeIs
<1>6. Len(Recipe["generate"]) = 12 /\ Len(Recipe["verify"]) = 1
  BY <1>3, GenerateIs, RecipeIs
<1> QED
  BY <1>4, <1>5, <1>6, RecipeIs

(* Where in its recipe a command stands. *)
LEMMA Places ==
    ASSUME TypeInv, Schedule, todo # <<>>
    PROVE  /\ at \in 0..Len(Recipe[target]) - 1
           /\ Head(todo) = Recipe[target][at + 1]
           /\ target = "tables" => Head(todo) = Tables[at + 1]
           /\ target = "extract" => Head(todo) = Extract[at + 1]
           /\ target = "generate" => /\ at < 6 => Head(todo) = Extract[at + 1]
                                     /\ at >= 6 => Head(todo) = Vendor[at - 5]
           /\ target = "verify" => Head(todo) = "verify" /\ at = 0
           /\ Len(todo) = 1 <=> at = Len(Recipe[target]) - 1
<1>1. todo \in Seq(Command) /\ Len(todo) \in Nat /\ Len(todo) >= 1 /\ Head(todo) = todo[1]
  BY DEF TypeInv
<1>2. target \in DOMAIN Recipe /\ Len(Recipe[target]) \in Nat
      /\ Len(todo) <= Len(Recipe[target])
  BY RecipeLengths DEF Schedule
<1>3. at \in 0..Len(Recipe[target]) - 1
  BY <1>1, <1>2 DEF at
<1>4. Head(todo) = Recipe[target][at + 1]
  BY <1>1 DEF Schedule
<1>a. Len(todo) = 1 <=> at = Len(Recipe[target]) - 1
  <2>1. PICK L \in Nat, R \in Nat : L = Len(todo) /\ R = Len(Recipe[target])
    BY <1>1, <1>2
  <2>2. at = R - L
    BY <2>1 DEF at
  <2>3. L = 1 <=> R - L = R - 1
    OBVIOUS
  <2> QED
    BY <2>1, <2>2, <2>3
<1>5. target = "tables" => Head(todo) = Tables[at + 1]
  BY <1>4, RecipeIs
<1>6. target = "extract" => Head(todo) = Extract[at + 1]
  BY <1>4, RecipeIs
<1>7. ASSUME target = "generate"
      PROVE  /\ at < 6 => Head(todo) = Extract[at + 1]
             /\ at >= 6 => Head(todo) = Vendor[at - 5]
  <2>1. at \in 0..11
    BY <1>3, <1>7, RecipeLengths
  <2>2. Head(todo) = Generate[at + 1]
    BY <1>4, <1>7, RecipeIs
  <2>3. at < 6 => Head(todo) = Extract[at + 1]
    BY <2>1, <2>2, GenerateIs
  <2>4. ASSUME at >= 6 PROVE Head(todo) = Vendor[at - 5]
    <3>1. PICK i \in 1..6 : i = at - 5
      BY <2>1, <2>4
    <3>2. at + 1 = i + 6
      BY <2>1, <3>1
    <3> QED
      BY <2>2, <3>1, <3>2, GenerateIs
  <2> QED
    BY <2>3, <2>4
<1>8. ASSUME target = "verify" PROVE Head(todo) = "verify" /\ at = 0
  <2>1. at = 0
    BY <1>3, <1>8, RecipeLengths
  <2>2. Head(todo) = <<"verify">>[1]
    BY <1>4, <1>8, <2>1, RecipeIs
  <2> QED
    BY <2>1, <2>2
<1> QED
  BY <1>3, <1>4, <1>a, <1>5, <1>6, <1>7, <1>8

LEMMA Bounds ==
    ASSUME TypeInv, Schedule, todo # <<>>
    PROVE  /\ target = "tables" => at \in 0..3 /\ (Len(todo) = 1 => at = 3)
           /\ target = "extract" => at \in 0..5 /\ (Len(todo) = 1 => at = 5)
           /\ target = "generate" => at \in 0..11 /\ (Len(todo) = 1 => at = 11)
<1>1. at \in 0..Len(Recipe[target]) - 1 /\ (Len(todo) = 1 => at = Len(Recipe[target]) - 1)
  <2>1. at \in 0..Len(Recipe[target]) - 1
    BY Places
  <2>2. Len(todo) = 1 <=> at = Len(Recipe[target]) - 1
    BY Places
  <2>3. Len(todo) = 1 => at = Len(Recipe[target]) - 1
    BY <2>2
  <2> QED
    BY <2>1, <2>3
<1>2. target = "tables" => Len(Recipe[target]) = 4
  BY RecipeLengths
<1>3. target = "extract" => Len(Recipe[target]) = 6
  BY RecipeLengths
<1>4. target = "generate" => Len(Recipe[target]) = 12
  BY RecipeLengths
<1>5. ASSUME target = "tables" PROVE at \in 0..3 /\ (Len(todo) = 1 => at = 3)
  <2>1. PICK R \in Nat : R = Len(Recipe[target]) /\ R = 4
    BY <1>2, <1>5
  <2>2. at \in 0..3
    BY <1>1, <2>1
  <2>3. ASSUME Len(todo) = 1 PROVE at = 3
    BY <1>1, <2>1, <2>3
  <2> QED
    BY <2>2, <2>3
<1>6. ASSUME target = "extract" PROVE at \in 0..5 /\ (Len(todo) = 1 => at = 5)
  <2>1. PICK R \in Nat : R = Len(Recipe[target]) /\ R = 6
    BY <1>3, <1>6
  <2>2. at \in 0..5
    BY <1>1, <2>1
  <2>3. ASSUME Len(todo) = 1 PROVE at = 5
    BY <1>1, <2>1, <2>3
  <2> QED
    BY <2>2, <2>3
<1>7. ASSUME target = "generate" PROVE at \in 0..11 /\ (Len(todo) = 1 => at = 11)
  <2>1. PICK R \in Nat : R = Len(Recipe[target]) /\ R = 12
    BY <1>4, <1>7
  <2>2. at \in 0..11
    BY <1>1, <2>1
  <2>3. ASSUME Len(todo) = 1 PROVE at = 11
    BY <1>1, <2>1, <2>3
  <2> QED
    BY <2>2, <2>3
<1> QED
  BY <1>5, <1>6, <1>7

LEMMA Position ==
    ASSUME TypeInv, Schedule, todo # <<>>, NEW c, Head(todo) = c
    PROVE  /\ target \in DOMAIN Recipe
           /\ c = "gen enc" => target = "tables" /\ at = 0
           /\ c = "mv enc" => target = "tables" /\ at = 1
           /\ c = "gen dfa" => target = "tables" /\ at = 2
           /\ c = "mv dfa" => target = "tables" /\ at = 3
           /\ c = "test home" => target \in {"extract", "generate"} /\ at = 0
           /\ c = "rm extract" => target \in {"extract", "generate"} /\ at = 1
           /\ c = "pass A" => target \in {"extract", "generate"} /\ at = 2
           /\ c = "mv krml" => target \in {"extract", "generate"} /\ at = 3
           /\ c = "pass B" => target \in {"extract", "generate"} /\ at = 4
           /\ c = "krml" => target \in {"extract", "generate"} /\ at = 5
           /\ c = "rm generated" => target = "generate" /\ at = 6
           /\ c = "cp emitted" => target = "generate" /\ at = 7
           /\ c = "cp internal" => target = "generate" /\ at = 8
           /\ c = "cp include" => target = "generate" /\ at = 9
           /\ c = "cp minimal" => target = "generate" /\ at = 10
           /\ c = "strip" => target = "generate" /\ at = 11
           /\ c = "verify" => target = "verify" /\ at = 0
           /\ Ended = {target} \/ Ended = {}
           /\ Len(todo) = 1 => \/ c \in {"mv dfa", "strip", "verify"}
                               \/ c = "krml" /\ target = "extract"
<1>1. target \in {"tables", "extract", "generate", "verify"}
  BY RecipeLengths DEF Schedule
<1>2. Ended = {target} \/ Ended = {}
  BY DEF Ended
<1>3. CASE target = "tables"
  <2>1. at \in 0..3 /\ c = Tables[at + 1] /\ (Len(todo) = 1 => at = 3)
    BY <1>3, Places, Bounds
  <2>2. /\ Tables[1] = "gen enc" /\ Tables[2] = "mv enc"
        /\ Tables[3] = "gen dfa" /\ Tables[4] = "mv dfa"
    BY DEF Tables
  <2>3. at = 0 \/ at = 1 \/ at = 2 \/ at = 3
    BY <2>1
  <2>4. \/ at = 0 /\ c = "gen enc"
        \/ at = 1 /\ c = "mv enc"
        \/ at = 2 /\ c = "gen dfa"
        \/ at = 3 /\ c = "mv dfa"
    <3>1. CASE at = 0
      <4>1. at + 1 = 1
        BY <3>1
      <4> QED
        BY <2>1, <2>2, <3>1, <4>1
    <3>2. CASE at = 1
      <4>1. at + 1 = 2
        BY <3>2
      <4> QED
        BY <2>1, <2>2, <3>2, <4>1
    <3>3. CASE at = 2
      <4>1. at + 1 = 3
        BY <3>3
      <4> QED
        BY <2>1, <2>2, <3>3, <4>1
    <3>4. CASE at = 3
      <4>1. at + 1 = 4
        BY <3>4
      <4> QED
        BY <2>1, <2>2, <3>4, <4>1
    <3> QED
      BY <2>3, <3>1, <3>2, <3>3, <3>4
  <2>5. ASSUME Len(todo) = 1 PROVE c = "mv dfa"
    <3>1. at = 3 /\ at + 1 = 4
      BY <2>1, <2>5
    <3> QED
      BY <2>1, <2>2, <3>1
  <2>6. target \in DOMAIN Recipe
    BY <1>1, RecipeLengths
  <2> QED
    BY <1>2, <1>3, <2>4, <2>5, <2>6
<1>4. CASE target \in {"extract", "generate"} /\ at < 6
  <2>1. at \in 0..5 /\ c = Extract[at + 1]
        /\ (Len(todo) = 1 => target = "extract" /\ at = 5)
    <3>1. c = Extract[at + 1]
      BY <1>4, Places
    <3> QED
      BY <1>4, <3>1, Bounds
  <2>2. /\ Extract[1] = "test home" /\ Extract[2] = "rm extract" /\ Extract[3] = "pass A"
        /\ Extract[4] = "mv krml" /\ Extract[5] = "pass B" /\ Extract[6] = "krml"
    BY DEF Extract
  <2>3. at = 0 \/ at = 1 \/ at = 2 \/ at = 3 \/ at = 4 \/ at = 5
    BY <2>1
  <2>4. \/ at = 0 /\ c = "test home"
        \/ at = 1 /\ c = "rm extract"
        \/ at = 2 /\ c = "pass A"
        \/ at = 3 /\ c = "mv krml"
        \/ at = 4 /\ c = "pass B"
        \/ at = 5 /\ c = "krml"
    <3>1. CASE at = 0
      <4>1. at + 1 = 1
        BY <3>1
      <4> QED
        BY <2>1, <2>2, <3>1, <4>1
    <3>2. CASE at = 1
      <4>1. at + 1 = 2
        BY <3>2
      <4> QED
        BY <2>1, <2>2, <3>2, <4>1
    <3>3. CASE at = 2
      <4>1. at + 1 = 3
        BY <3>3
      <4> QED
        BY <2>1, <2>2, <3>3, <4>1
    <3>4. CASE at = 3
      <4>1. at + 1 = 4
        BY <3>4
      <4> QED
        BY <2>1, <2>2, <3>4, <4>1
    <3>5. CASE at = 4
      <4>1. at + 1 = 5
        BY <3>5
      <4> QED
        BY <2>1, <2>2, <3>5, <4>1
    <3>6. CASE at = 5
      <4>1. at + 1 = 6
        BY <3>6
      <4> QED
        BY <2>1, <2>2, <3>6, <4>1
    <3> QED
      BY <2>3, <3>1, <3>2, <3>3, <3>4, <3>5, <3>6
  <2>5. Len(todo) = 1 => c = "krml" /\ target = "extract"
    BY <2>1, <2>4
  <2>6. target \in DOMAIN Recipe
    BY <1>1, RecipeLengths
  <2> QED
    BY <1>2, <1>4, <2>4, <2>5, <2>6
<1>5. CASE target \in {"extract", "generate"} /\ ~(at < 6)
  <2>1. at \in 6..11 /\ target = "generate" /\ c = Vendor[at - 5]
        /\ (Len(todo) = 1 => at = 11)
    <3>1. target = "generate" /\ at \in 6..11 /\ (Len(todo) = 1 => at = 11)
      BY <1>5, Bounds
    <3>2. c = Vendor[at - 5]
      BY <3>1, Places
    <3> QED
      BY <3>1, <3>2
  <2>2. /\ Vendor[1] = "rm generated" /\ Vendor[2] = "cp emitted" /\ Vendor[3] = "cp internal"
        /\ Vendor[4] = "cp include" /\ Vendor[5] = "cp minimal" /\ Vendor[6] = "strip"
    BY DEF Vendor
  <2>3. at = 6 \/ at = 7 \/ at = 8 \/ at = 9 \/ at = 10 \/ at = 11
    BY <2>1
  <2>4. \/ at = 6 /\ c = "rm generated"
        \/ at = 7 /\ c = "cp emitted"
        \/ at = 8 /\ c = "cp internal"
        \/ at = 9 /\ c = "cp include"
        \/ at = 10 /\ c = "cp minimal"
        \/ at = 11 /\ c = "strip"
    <3>1. CASE at = 6
      <4>1. at - 5 = 1
        BY <3>1
      <4> QED
        BY <2>1, <2>2, <3>1, <4>1
    <3>2. CASE at = 7
      <4>1. at - 5 = 2
        BY <3>2
      <4> QED
        BY <2>1, <2>2, <3>2, <4>1
    <3>3. CASE at = 8
      <4>1. at - 5 = 3
        BY <3>3
      <4> QED
        BY <2>1, <2>2, <3>3, <4>1
    <3>4. CASE at = 9
      <4>1. at - 5 = 4
        BY <3>4
      <4> QED
        BY <2>1, <2>2, <3>4, <4>1
    <3>5. CASE at = 10
      <4>1. at - 5 = 5
        BY <3>5
      <4> QED
        BY <2>1, <2>2, <3>5, <4>1
    <3>6. CASE at = 11
      <4>1. at - 5 = 6
        BY <3>6
      <4> QED
        BY <2>1, <2>2, <3>6, <4>1
    <3> QED
      BY <2>3, <3>1, <3>2, <3>3, <3>4, <3>5, <3>6
  <2>5. Len(todo) = 1 => c = "strip"
    BY <2>1, <2>4
  <2>6. target \in DOMAIN Recipe
    BY <1>1, RecipeLengths
  <2> QED
    BY <1>2, <2>1, <2>4, <2>5, <2>6
<1>6. CASE target = "verify"
  <2>1. at = 0 /\ c = "verify"
    BY <1>6, Places
  <2> QED
    BY <1>1, <1>2, <1>6, <2>1, RecipeLengths
<1> QED
  BY <1>1, <1>3, <1>4, <1>5, <1>6

(* A command that ends well brings its target one command further. *)
LEMMA Progress ==
    ASSUME TypeInv, Schedule, NEW c, Does(c), done' \subseteq done \cup Ended
    PROVE  /\ todo # <<>> /\ Head(todo) = c /\ target' = target /\ target \notin done
           /\ todo' \in Seq(Command) /\ Schedule'
           /\ todo' # <<>> => at' = at + 1
           /\ todo' # <<>> => Ended = {}
           /\ todo' = <<>> => Len(todo) = 1
<1>1. todo \in Seq(Command) /\ todo # <<>> /\ todo' = Tail(todo) /\ target' = target
      /\ Head(todo) = c
  BY DEF TypeInv, Does
<1>2. todo' \in Seq(Command) /\ Len(todo') = Len(todo) - 1
      /\ \A i \in 1..Len(todo') : todo'[i] = todo[i + 1]
  BY <1>1, HeadTailProperties
<1>3. target \in DOMAIN Recipe \ done /\ Len(todo) <= Len(Recipe[target])
      /\ \A i \in 1..Len(todo) : todo[i] = Recipe[target][at + i]
  BY <1>1 DEF Schedule
<1>4. PICK L \in Nat, R \in Nat : L = Len(todo) /\ R = Len(Recipe[target])
  BY <1>1, <1>3, RecipeLengths
<1>5. at = R - L /\ Len(todo') = L - 1 /\ at' = R - (L - 1) /\ L >= 1
  BY <1>1, <1>2, <1>4 DEF at
<1>6. todo' # <<>> => L # 1
  BY <1>2, <1>5
<1>7. todo' = <<>> => L = 1
  BY <1>5
<1>8. L # 1 => Ended = {}
  BY <1>4 DEF Ended
<1>9. Schedule'
  <2> SUFFICES ASSUME todo' # <<>>
               PROVE  /\ target' \in DOMAIN Recipe \ done'
                      /\ Len(todo') <= Len(Recipe[target'])
                      /\ \A i \in 1..Len(todo') : todo'[i] = Recipe[target'][at' + i]
    BY DEF Schedule
  <2>1. ASSUME NEW i \in 1..Len(todo') PROVE todo'[i] = Recipe[target'][at' + i]
    <3>1. i \in 1..L - 1 /\ i + 1 \in 1..L /\ at' + i = at + (i + 1)
      BY <1>5, <2>1
    <3> QED
      BY <1>1, <1>2, <1>3, <1>4, <2>1, <3>1
  <2>2. target' \in DOMAIN Recipe \ done'
    BY <1>1, <1>3, <1>6, <1>8
  <2>3. Len(todo') <= Len(Recipe[target'])
    BY <1>1, <1>3, <1>4, <1>5
  <2> QED
    BY <2>1, <2>2, <2>3
<1> QED
  BY <1>1, <1>2, <1>3, <1>4, <1>5, <1>6, <1>7, <1>8, <1>9

(* Once a target has stopped nothing is staged for later commands. *)
LEMMA Stopped ==
    ASSUME todo' = <<>>
    PROVE  todo' \in Seq(Command) /\ Schedule' /\ Printed' /\ Staged' /\ Copied'
BY DEF Schedule, Printed, Staged, Copied, Runs

LEMMA ShipsKept ==
    ASSUME Ships, UNCHANGED <<table, home, module, generated>>,
           done' \subseteq done \cup {"tables", "extract"}
    PROVE  Ships'
BY DEF Ships, VendoredFrom, Proofs

LEMMA SourceKept == ASSUME OneSource, generated' = generated PROVE OneSource'
BY DEF OneSource, From

--------------------------------------------------------------------------
(* make tables *)

LEMMA GenKeeps == ASSUME Inv, NEW m \in Parts, gen(m) PROVE Inv'
<1> USE DEF Inv
<1>0. UNCHANGED <<sources, module, krml, extract, generated>> /\ OneSource'
  BY SourceKept DEF gen, Writes, Does, Fails, staging
<1>1. CASE Writes(GenName(m)) /\ \E x \in {table, Slip} : tmp' = [tmp EXCEPT ![m] = x]
  <2>1. PICK x \in {table, Slip} : tmp' = [tmp EXCEPT ![m] = x]
    BY <1>1
  <2>2. x \in Good /\ tmp' \in [Parts -> Content] /\ tmp'[m] = x
    <3>1. x \in Good
      BY <2>1, PipelineBounds DEF TypeInv, Good, Version
    <3>2. tmp \in [Parts -> Content] /\ x \in Content
      BY <3>1 DEF TypeInv, Content
    <3> QED
      BY <2>1, <3>1, <3>2
  <2>3. Does(GenName(m)) /\ done' = done \cup Ended
    BY <1>1 DEF Writes
  <2>4. target = "tables" /\ Len(todo) # 1 /\ at = IF m = "enc" THEN 0 ELSE 2
    <3>1. todo # <<>> /\ Head(todo) = GenName(m)
      BY <2>3, Progress
    <3>2. CASE m = "enc"
      <4>1. GenName(m) = "gen enc"
        BY <3>2 DEF GenName
      <4> QED
        BY <3>1, <3>2, <4>1, Position
    <3>3. CASE m = "dfa"
      <4>1. GenName(m) = "gen dfa"
        BY <3>3 DEF GenName
      <4> QED
        BY <3>1, <3>3, <4>1, Position
    <3> QED
      BY <3>2, <3>3 DEF Parts
  <2>5. todo' # <<>> /\ at' = at + 1 /\ Ended = {} /\ target' = "tables"
        /\ todo' \in Seq(Command) /\ Schedule'
    BY <2>3, <2>4, Progress
  <2>6. TypeInv'
    BY <1>0, <2>2, <2>5 DEF TypeInv, sources, KrmlTyped
  <2>7. Printed'
    BY <2>2, <2>4, <2>5 DEF Printed, Parts
  <2>8. Staged' /\ Copied'
    BY <2>5 DEF Staged, Copied, Runs
  <2>9. Ships'
    BY <1>0, <2>3, <2>5, ShipsKept DEF sources
  <2> QED
    BY <1>0, <2>5, <2>6, <2>7, <2>8, <2>9
<1>2. CASE Fails(GenName(m)) /\ tmp' = [tmp EXCEPT ![m] = Partial]
  <2>1. todo' = <<>> /\ done' = done
    BY <1>2 DEF Fails
  <2>2. tmp' \in [Parts -> Content]
    BY <1>2 DEF TypeInv, Content
  <2>3. TypeInv'
    BY <1>0, <2>1, <2>2, Stopped DEF TypeInv, sources, KrmlTyped
  <2>4. Ships'
    BY <1>0, <2>1, ShipsKept DEF sources
  <2> QED
    BY <1>0, <2>1, <2>3, <2>4, Stopped
<1> QED
  BY <1>1, <1>2 DEF gen

LEMMA MvKeeps == ASSUME Inv, NEW m \in Parts, mv(m) PROVE Inv'
<1> USE DEF Inv
<1>0. UNCHANGED <<sources, krml, extract, generated>> /\ OneSource'
  BY SourceKept DEF mv, Does, Fails, staging
<1>1. CASE /\ Does(MvName(m)) /\ done' = Ended
           /\ module' = [module EXCEPT ![m] = tmp[m]]
           /\ tmp' = [tmp EXCEPT ![m] = Missing]
  <2>1. todo # <<>> /\ target = "tables" /\ at = (IF m = "enc" THEN 1 ELSE 3)
    BY <1>1, Progress, Position DEF MvName, Parts
  <2>2. tmp[m] \in Good
    BY <2>1 DEF Printed, Runs, Parts
  <2>3. module' \in [Parts -> Good] /\ tmp' \in [Parts -> Content]
    BY <1>1, <2>2 DEF TypeInv, Content
  <2>4. todo' \in Seq(Command) /\ Schedule' /\ target' = "tables"
        /\ (todo' # <<>> => at' = at + 1)
    BY <1>1, <2>1, Progress
  <2>5. TypeInv'
    BY <1>0, <2>3, <2>4 DEF TypeInv, sources, KrmlTyped
  <2>6. Printed'
    BY <2>1, <2>4 DEF Printed, Runs
  <2>7. Staged' /\ Copied'
    BY <2>4 DEF Staged, Copied, Runs
  <2>8. Ships'
    BY <1>1, <2>1 DEF Ships, Ended
  <2> QED
    BY <1>0, <2>4, <2>5, <2>6, <2>7, <2>8
<1>2. CASE Fails(MvName(m)) /\ UNCHANGED modules
  <2>1. todo' = <<>> /\ done' = done
    BY <1>2 DEF Fails
  <2>2. TypeInv'
    BY <1>0, <1>2, <2>1, Stopped DEF TypeInv, sources, modules, KrmlTyped
  <2>3. Ships'
    BY <1>0, <1>2, <2>1, ShipsKept DEF sources, modules
  <2> QED
    BY <1>0, <2>1, <2>2, <2>3, Stopped
<1> QED
  BY <1>1, <1>2 DEF mv

--------------------------------------------------------------------------
(* make extract, and the first half of make generate *)

(* A command that fails or is cut short and leaves the tree alone. *)
LEMMA FailureKeeps ==
    ASSUME Inv, NEW c, Fails(c), UNCHANGED <<modules, generated>>,
           KrmlTyped'
    PROVE  Inv'
<1> USE DEF Inv
<1>1. todo' = <<>> /\ done' = done /\ UNCHANGED sources
  BY DEF Fails
<1>2. TypeInv'
  BY <1>1, Stopped DEF TypeInv, sources, modules
<1>3. Ships'
  BY <1>1, ShipsKept DEF sources, modules
<1> QED
  BY <1>1, <1>2, <1>3, Stopped, SourceKept

(* A command of the extraction that ends well, given what it stages. *)
LEMMA StagingKeeps ==
    ASSUME Inv, NEW c, Writes(c), UNCHANGED <<modules, generated>>,
           c \in ExtractCommands,
           KrmlTyped', Staged'
    PROVE  Inv'
<1> USE DEF Inv
<1>1. Does(c) /\ done' = done \cup Ended /\ UNCHANGED sources
  BY DEF Writes, Does
<1>2. todo # <<>> /\ Head(todo) = c /\ todo' \in Seq(Command) /\ Schedule'
      /\ target' = target /\ (todo' # <<>> => at' = at + 1 /\ Ended = {})
      /\ (todo' = <<>> => Len(todo) = 1)
  BY <1>1, Progress
<1>3. target \in {"extract", "generate"} /\ at \in 0..5
      /\ (Len(todo) = 1 => target = "extract")
  <2>1. c = "test home" \/ c = "rm extract" \/ c = "pass A"
        \/ c = "mv krml" \/ c = "pass B" \/ c = "krml"
    BY DEF ExtractCommands
  <2>2. Len(todo) = 1 => target = "extract"
    BY <1>2, <2>1, Position
  <2>a. target \in {"extract", "generate"}
    BY <1>2, <2>1, Position
  <2>b. at = 0 \/ at = 1 \/ at = 2 \/ at = 3 \/ at = 4 \/ at = 5
    BY <1>2, <2>1, Position
  <2>3. target \in {"extract", "generate"} /\ at \in 0..5
    BY <2>a, <2>b
  <2> QED
    BY <2>2, <2>3
<1>4. Ended \subseteq {"extract"}
  BY <1>2, <1>3 DEF Ended
<1>5. TypeInv'
  BY <1>1, <1>2 DEF TypeInv, sources, modules
<1>6. Printed'
  BY <1>2, <1>3 DEF Printed, Runs
<1>7. Copied'
  <2>1. ASSUME todo' # <<>> PROVE ~(at' >= 7)
    <3>1. at' = at + 1
      BY <1>2, <2>1
    <3>2. at \in 0..5
      BY <1>3
    <3> QED
      BY <3>1, <3>2
  <2> QED
    BY <2>1 DEF Copied, Runs
<1>8. Ships'
  BY <1>1, <1>4, ShipsKept DEF sources, modules
<1> QED
  BY <1>2, <1>5, <1>6, <1>7, <1>8, SourceKept

(* Where a command of the extraction leaves its target. *)
LEMMA StagingPosition ==
    ASSUME Inv, NEW c, Writes(c),
           c \in ExtractCommands
    PROVE  /\ Runs({"extract", "generate"})
           /\ UNCHANGED sources
           /\ todo' # <<>> => at' = at + 1
           /\ c = "test home" => at = 0
           /\ c = "rm extract" => at = 1
           /\ c = "pass A" => at = 2
           /\ c = "mv krml" => at = 3
           /\ c = "pass B" => at = 4
           /\ c = "krml" => at = 5
<1>1. Does(c) /\ done' = done \cup Ended /\ UNCHANGED sources
  BY DEF Writes, Does
<1>2. todo # <<>> /\ Head(todo) = c /\ (todo' # <<>> => at' = at + 1)
  BY <1>1, Progress DEF Inv
<1>3. /\ c = "test home" => target \in {"extract", "generate"} /\ at = 0
      /\ c = "rm extract" => target \in {"extract", "generate"} /\ at = 1
      /\ c = "pass A" => target \in {"extract", "generate"} /\ at = 2
      /\ c = "mv krml" => target \in {"extract", "generate"} /\ at = 3
      /\ c = "pass B" => target \in {"extract", "generate"} /\ at = 4
      /\ c = "krml" => target \in {"extract", "generate"} /\ at = 5
  BY <1>2, Position DEF Inv
<1> QED
  BY <1>1, <1>2, <1>3 DEF Runs, ExtractCommands

LEMMA TestHomeKeeps == ASSUME Inv, test_home PROVE Inv'
<1>1. UNCHANGED <<modules, generated, krml>> /\ KrmlTyped'
  BY DEF test_home, staging, Inv, TypeInv, KrmlTyped
<1>2. CASE Writes("test home")
  <2>a. at = 0
    BY <1>2, StagingPosition DEF ExtractCommands
  <2>b. todo' # <<>> => at' = at + 1
    BY <1>2, StagingPosition DEF ExtractCommands
  <2>1. todo' # <<>> => at' = 1
    BY <2>a, <2>b
  <2>2. Staged'
    BY <2>1 DEF Staged, Runs
  <2> QED
    BY <1>1, <1>2, <2>2, StagingKeeps DEF ExtractCommands
<1>3. CASE Fails("test home")
  BY <1>1, <1>3, FailureKeeps
<1> QED
  BY <1>2, <1>3 DEF test_home

LEMMA RmExtractKeeps == ASSUME Inv, rm_extract PROVE Inv'
<1>1. UNCHANGED <<modules, generated>> /\ krml' \in {krml, NoKrml}
  BY DEF rm_extract
<1>2. NoKrml \in [{"dfa", "out"} -> Content]
  BY DEF NoKrml, Content
<1>3. KrmlTyped'
  BY <1>1, <1>2 DEF Inv, TypeInv, KrmlTyped
<1>4. CASE Writes("rm extract")
  <2>b. at = 1
    BY <1>4, StagingPosition DEF ExtractCommands
  <2>c. todo' # <<>> => at' = at + 1
    BY <1>4, StagingPosition DEF ExtractCommands
  <2>a. at = 1 /\ (todo' # <<>> => at' = at + 1)
    BY <2>b, <2>c
  <2>1. todo' # <<>> => at' = 2
    BY <2>a
  <2>2. Staged'
    BY <2>1 DEF Staged, Runs
  <2> QED
    BY <1>1, <1>3, <1>4, <2>2, StagingKeeps DEF ExtractCommands
<1>5. CASE Fails("rm extract")
  BY <1>1, <1>3, <1>5, FailureKeeps
<1> QED
  BY <1>4, <1>5 DEF rm_extract

(* The two extraction passes, and the module each extracts. *)
PassOf(c, m) == (c = "pass A" /\ m = "dfa") \/ (c = "pass B" /\ m = "enc")

LEMMA PassKeeps ==
    ASSUME Inv, NEW c, NEW m, pass(c, m), PassOf(c, m)
    PROVE  Inv'
<1>1. UNCHANGED <<modules, generated>>
  BY DEF pass
<1>2. KrmlTyped /\ module[m] \in Content
  BY DEF Inv, TypeInv, Content, Parts, PassOf
<1>3. CASE Writes(c) /\ krml' = [krml EXCEPT !.out = module[m]]
  <2>1. KrmlTyped'
        /\ krml'["out"] = module[m] /\ krml'["dfa"] = krml["dfa"]
    BY <1>2, <1>3 DEF KrmlTyped
  <2>2. Runs({"extract", "generate"}) /\ (todo' # <<>> => at' = at + 1)
    BY <1>3, StagingPosition DEF ExtractCommands, PassOf
  <2>3. module' = module
    BY <1>1 DEF modules
  <2>4. Staged'
    <3>1. CASE c = "pass A" /\ m = "dfa"
      <4>1. at = 2
        BY <1>3, <3>1, StagingPosition DEF ExtractCommands
      <4>2. todo' # <<>> => at' = 3
        BY <2>2, <4>1
      <4>3. krml'["out"] = module'["dfa"]
        BY <2>1, <2>3, <3>1
      <4> QED
        BY <4>2, <4>3 DEF Staged, Runs
    <3>2. CASE c = "pass B" /\ m = "enc"
      <4>1. at = 4
        BY <1>3, <3>2, StagingPosition DEF ExtractCommands
      <4>2. todo' # <<>> => at' = 5
        BY <2>2, <4>1
      <4>3. krml["dfa"] = module["dfa"]
        BY <2>2, <4>1 DEF Inv, Staged
      <4>4. krml'["out"] = module'["enc"] /\ krml'["dfa"] = module'["dfa"]
        BY <2>1, <2>3, <3>2, <4>3
      <4> QED
        BY <4>2, <4>4 DEF Staged, Runs
    <3> QED
      BY <3>1, <3>2 DEF PassOf
  <2> QED
    BY <1>1, <1>3, <2>1, <2>4, StagingKeeps DEF ExtractCommands, PassOf
<1>4. CASE Fails(c) /\ \E x \in {krml.out, Partial} : krml' = [krml EXCEPT !.out = x]
  <2>1. KrmlTyped'
    BY <1>2, <1>4 DEF Content, KrmlTyped
  <2> QED
    BY <1>1, <1>4, <2>1, FailureKeeps
<1> QED
  BY <1>3, <1>4 DEF pass

LEMMA MvKrmlKeeps == ASSUME Inv, mv_krml PROVE Inv'
<1>1. UNCHANGED <<modules, generated>>
  BY DEF mv_krml
<1>2. KrmlTyped
  BY DEF Inv, TypeInv
<1>3. CASE Writes("mv krml") /\ krml' = [dfa |-> krml.out, out |-> Missing]
  <2>1. KrmlTyped' /\ krml'["dfa"] = krml["out"]
    <3>1. krml["out"] \in Content /\ Missing \in Content /\ krml["out"] = krml.out
      BY <1>2 DEF Content, KrmlTyped
    <3> QED
      <4>1. krml' = [dfa |-> krml["out"], out |-> Missing]
        BY <1>3, <3>1
      <4>2. krml'["dfa"] = krml["out"]
        BY <4>1
      <4>3. KrmlTyped'
        BY <3>1, <4>1 DEF KrmlTyped
      <4> QED
        BY <4>2, <4>3
  <2>a. Runs({"extract", "generate"}) /\ at = 3 /\ (todo' # <<>> => at' = at + 1)
    BY <1>3, StagingPosition DEF ExtractCommands
  <2>2. Runs({"extract", "generate"}) /\ at = 3 /\ (todo' # <<>> => at' = 4)
    BY <2>a
  <2>3. krml["out"] = module["dfa"]
    BY <2>2 DEF Inv, Staged
  <2>4. Staged'
    BY <1>1, <2>1, <2>2, <2>3 DEF Staged, Runs, modules
  <2> QED
    BY <1>1, <1>3, <2>1, <2>4, StagingKeeps DEF ExtractCommands
<1>4. CASE Fails("mv krml") /\ UNCHANGED krml
  <2>1. KrmlTyped'
    BY <1>2, <1>4 DEF KrmlTyped
  <2> QED
    BY <1>1, <1>4, <2>1, FailureKeeps
<1> QED
  BY <1>3, <1>4 DEF mv_krml

LEMMA KrmlKeeps == ASSUME Inv, krml_bundle PROVE Inv'
<1>1. UNCHANGED <<modules, krml, generated>> /\ KrmlTyped'
  BY DEF krml_bundle, Inv, TypeInv, KrmlTyped
<1>2. CASE /\ Writes("krml")
           /\ extract' = [enc |-> krml.out, dfa |-> krml.dfa, home |-> home]
  <2>1. Runs({"extract", "generate"}) /\ at = 5 /\ UNCHANGED sources
        /\ (todo' # <<>> => at' = 6)
    <3>1. Runs({"extract", "generate"}) /\ at = 5 /\ UNCHANGED sources
          /\ (todo' # <<>> => at' = at + 1)
      BY <1>2, StagingPosition DEF ExtractCommands
    <3> QED
      BY <3>1
  <2>2. krml["dfa"] = module["dfa"] /\ krml["out"] = module["enc"]
    BY <2>1 DEF Inv, Staged
  <2>3. extract' = Current /\ Current' = Current
    BY <1>1, <1>2, <2>1, <2>2 DEF Current, sources, modules
  <2>4. Staged'
    BY <2>1, <2>3 DEF Staged, Runs
  <2> QED
    BY <1>1, <1>2, <2>4, StagingKeeps DEF ExtractCommands
<1>3. CASE Fails("krml")
  BY <1>1, <1>3, FailureKeeps
<1> QED
  BY <1>2, <1>3 DEF krml_bundle

--------------------------------------------------------------------------
(* The second half of make generate *)

CopyCommands == {"cp emitted", "cp internal", "cp include", "cp minimal"}
VendorCommands == CopyCommands \cup {"rm generated", "strip"}

LEMMA VendorPosition ==
    ASSUME Inv, NEW c, c \in VendorCommands, todo # <<>>, Head(todo) = c
    PROVE  /\ target = "generate" /\ "generate" \notin done
           /\ extract = Current /\ extract.home = home
           /\ c = "rm generated" => at = 6
           /\ c = "cp emitted" => at = 7
           /\ c = "cp internal" => at = 8
           /\ c = "cp include" => at = 9
           /\ c = "cp minimal" => at = 10
           /\ c = "strip" => at = 11
           /\ at >= 6 /\ (Len(todo) = 1 => c = "strip")
           /\ at >= 7 => \A f \in Files : generated[f] = IF f \in Filled(at) THEN Fresh(f)
                                                         ELSE Missing
<1>1. c = "rm generated" \/ c = "cp emitted" \/ c = "cp internal"
      \/ c = "cp include" \/ c = "cp minimal" \/ c = "strip"
  BY DEF VendorCommands, CopyCommands
<1>2. target = "generate"
  BY <1>1, Position DEF Inv
<1>3. "generate" \notin done
  BY <1>2 DEF Inv, Schedule
<1>4. /\ c = "rm generated" => at = 6
      /\ c = "cp emitted" => at = 7
      /\ c = "cp internal" => at = 8
      /\ c = "cp include" => at = 9
      /\ c = "cp minimal" => at = 10
      /\ c = "strip" => at = 11
      /\ Len(todo) = 1 => c = "strip"
  BY <1>1, Position DEF Inv
<1>5. at = 6 \/ at = 7 \/ at = 8 \/ at = 9 \/ at = 10 \/ at = 11
  BY <1>1, <1>4
<1> HIDE <1>1
<1>6. at >= 6
  BY ONLY <1>5
<1>7. extract = Current
  BY <1>2, <1>6 DEF Inv, Staged, Runs
<1>8. extract.home = home
  BY <1>7 DEF Current
<1>9. at >= 7 => \A f \in Files : generated[f] = IF f \in Filled(at) THEN Fresh(f) ELSE Missing
  BY <1>2 DEF Inv, Copied, Runs
<1> QED
  BY <1>2, <1>3, <1>4, <1>6, <1>7, <1>8, <1>9

LEMMA VendorFailureKeeps ==
    ASSUME Inv, NEW c, Fails(c), c \in VendorCommands, UNCHANGED <<modules, staging>>,
           DOMAIN generated' = Files, OneSource'
    PROVE  Inv'
<1> USE DEF Inv
<1>1. todo # <<>> /\ Head(todo) = c /\ todo' = <<>> /\ done' = done /\ UNCHANGED sources
  BY DEF Fails
<1>2. "generate" \notin done
  BY <1>1, VendorPosition
<1>3. TypeInv'
  BY <1>1, Stopped DEF TypeInv, sources, modules, staging, KrmlTyped
<1>4. Ships'
  BY <1>1, <1>2 DEF Ships, Proofs, sources, modules
<1> QED
  BY <1>1, <1>3, <1>4, Stopped

LEMMA VendorKeeps ==
    ASSUME Inv, NEW c, Writes(c), c \in VendorCommands, c # "strip",
           UNCHANGED <<modules, staging>>, DOMAIN generated' = Files, OneSource',
           at' = at + 1 => Copied'
    PROVE  Inv'
<1> USE DEF Inv
<1>1. Does(c) /\ done' = done \cup Ended /\ UNCHANGED sources
  BY DEF Writes, Does
<1>2. todo # <<>> /\ Head(todo) = c /\ todo' \in Seq(Command) /\ Schedule' /\ target' = target
      /\ (todo' # <<>> => at' = at + 1 /\ Ended = {}) /\ (todo' = <<>> => Len(todo) = 1)
  BY <1>1, Progress
<1>3. target = "generate" /\ "generate" \notin done /\ extract = Current /\ at >= 6
      /\ Len(todo) # 1
  BY <1>2, VendorPosition
<1>4. todo' # <<>> /\ at' = at + 1 /\ done' = done
  BY <1>1, <1>2, <1>3
<1>5. TypeInv'
  BY <1>1, <1>2 DEF TypeInv, sources, modules, staging, KrmlTyped
<1>6. Printed'
  BY <1>2, <1>3 DEF Printed, Runs
<1>7. Staged'
  <2>1. extract' = Current'
    BY <1>1, <1>3 DEF Current, sources, modules, staging
  <2>2. PICK a \in Int : a = at /\ a >= 6
    <3>1. at \in Int
      BY <1>2, Places, RecipeLengths
    <3> QED
      BY <1>3, <3>1
  <2>3. at' # 3 /\ at' \notin {4, 5}
    BY <1>4, <2>2
  <2>4. at' # 5
    BY <1>4, <2>2
  <2> QED
    BY <2>1, <2>3, <2>4 DEF Staged
<1>8. Ships'
  BY <1>1, <1>3, <1>4 DEF Ships, Proofs, sources, modules
<1> QED
  BY <1>2, <1>4, <1>5, <1>6, <1>7, <1>8

LEMMA FileSets ==
    /\ Files = Emitted \cup Headers
    /\ \A f \in Emitted : f \notin Headers
    /\ {"c", "h"} \subseteq Files /\ {"internal"} \subseteq Files
    /\ {"include"} \subseteq Headers /\ {"minimal"} \subseteq Headers
    /\ "c" \notin Headers /\ "h" \notin Headers /\ "internal" \notin Headers
BY DEF Files, Emitted, Headers

LEMMA RmGeneratedKeeps == ASSUME Inv, rm_generated PROVE Inv'
<1>1. UNCHANGED <<modules, staging>>
  BY DEF rm_generated
<1>2. PICK gone \in SUBSET DOMAIN generated :
          /\ \/ Writes("rm generated") /\ gone = DOMAIN generated
             \/ Fails("rm generated")
          /\ generated' = [f \in DOMAIN generated |->
                              IF f \in gone THEN Missing ELSE generated[f]]
  BY DEF rm_generated
<1>3. DOMAIN generated = Files
  BY DEF Inv, TypeInv
<1>4. DOMAIN generated' = Files
      /\ \A f \in Files : generated'[f] = IF f \in gone THEN Missing ELSE generated[f]
  BY <1>2, <1>3
<1>5. OneSource'
  <2>1. PICK code : From(code)
    BY DEF Inv, OneSource
  <2>2. ASSUME NEW f \in Emitted
        PROVE  generated'[f] \in {Missing, Partial, EmittedFrom(code, TRUE),
                                  EmittedFrom(code, FALSE)}
    BY <1>4, <2>1, FileSets DEF From
  <2>3. ASSUME NEW f \in Headers PROVE generated'[f] \in {Missing, Partial, code.home}
    BY <1>4, <2>1, FileSets DEF From
  <2> QED
    BY <2>2, <2>3 DEF OneSource, From
<1>6. CASE Writes("rm generated") /\ gone = DOMAIN generated
  <2>1. todo # <<>> /\ Head(todo) = "rm generated"
    BY <1>6 DEF Writes, Does
  <2>2. "rm generated" \in VendorCommands /\ "rm generated" # "strip"
    BY DEF VendorCommands
  <2>3. at = 6
    BY <2>1, <2>2, VendorPosition
  <2>4. ASSUME at' = at + 1 PROVE Copied'
    <3>1. at' = 7
      BY <2>3, <2>4
    <3>2. Filled(7) = {}
      BY DEF Filled
    <3>3. \A f \in Files : generated'[f] = Missing
      BY <1>3, <1>4, <1>6
    <3>4. Filled(at') = {}
      BY <3>1, <3>2
    <3>5. Filled(at)' = Filled(at')
      BY DEF Filled
    <3> QED
      BY <3>3, <3>4, <3>5 DEF Copied
  <2> QED
    BY <1>1, <1>4, <1>5, <1>6, <2>2, <2>4, VendorKeeps
<1>7. CASE Fails("rm generated")
  <2>1. "rm generated" \in VendorCommands
    BY DEF VendorCommands
  <2> QED
    BY <1>1, <1>4, <1>5, <1>7, <2>1, VendorFailureKeeps
<1> QED
  BY <1>2, <1>6, <1>7

(* Files that are fresh, cut short or missing are from the extraction. *)
LEMMA FreshSource ==
    ASSUME extract.home = home,
           \A f \in Files : generated'[f] \in {Missing, Partial, Fresh(f)}
    PROVE  OneSource'
<1>1. ASSUME NEW f \in Emitted
      PROVE  generated'[f] \in {Missing, Partial, EmittedFrom(extract, TRUE),
                                EmittedFrom(extract, FALSE)}
  BY FileSets DEF Fresh
<1>2. ASSUME NEW f \in Headers PROVE generated'[f] \in {Missing, Partial, extract.home}
  BY FileSets DEF Fresh
<1> QED
  BY <1>1, <1>2 DEF OneSource, From

LEMMA CpKeeps ==
    ASSUME Inv, NEW c, NEW files, NEW content, cp(c, files, content),
           c \in VendorCommands, c # "strip", at >= 7,
           Filled(at + 1) = Filled(at) \cup files,
           \A f \in files : f \in Files /\ content = Fresh(f)
    PROVE  Inv'
<1>1. UNCHANGED <<modules, staging>> /\ DOMAIN generated = Files
  BY DEF cp, Inv, TypeInv
<1>2. todo # <<>> /\ Head(todo) = c /\ UNCHANGED sources
  BY DEF cp, Writes, Does, Fails
<1>3. extract.home = home
      /\ \A f \in Files : generated[f] = IF f \in Filled(at) THEN Fresh(f) ELSE Missing
  BY <1>2, VendorPosition
<1>4. CASE /\ Writes(c)
           /\ generated' = [f \in DOMAIN generated |->
                               IF f \in files THEN content ELSE generated[f]]
  <2>1. DOMAIN generated' = Files
        /\ \A f \in Files : generated'[f] = IF f \in files THEN content ELSE generated[f]
    BY <1>1, <1>4
  <2>2. \A f \in Files : generated'[f] = IF f \in Filled(at + 1) THEN Fresh(f) ELSE Missing
    BY <1>3, <2>1
  <2>3. OneSource'
    BY <1>3, <2>2, FreshSource
  <2>4. ASSUME at' = at + 1 PROVE Copied'
    <3>1. Filled(at)' = Filled(at + 1)
      BY <2>4 DEF Filled
    <3>2. \A f \in Files : Fresh(f)' = Fresh(f)
      BY <1>1, <1>2 DEF Fresh, sources, staging
    <3> QED
      BY <2>2, <3>1, <3>2 DEF Copied
  <2> QED
    BY <1>1, <1>4, <2>1, <2>3, <2>4, VendorKeeps
<1>5. CASE /\ Fails(c)
           /\ \E copied, cut \in SUBSET files :
                generated' = [f \in DOMAIN generated |->
                    IF f \in cut THEN Partial ELSE IF f \in copied THEN content ELSE generated[f]]
  <2>1. PICK copied \in SUBSET files, cut \in SUBSET files :
            generated' = [f \in DOMAIN generated |->
                IF f \in cut THEN Partial ELSE IF f \in copied THEN content ELSE generated[f]]
    BY <1>5
  <2>2. DOMAIN generated' = Files
        /\ \A f \in Files : generated'[f] \in {Missing, Partial, Fresh(f)}
    BY <1>1, <1>3, <2>1
  <2>3. OneSource'
    BY <1>3, <2>2, FreshSource
  <2> QED
    BY <1>1, <1>5, <2>2, <2>3, VendorFailureKeeps
<1> QED
  BY <1>4, <1>5 DEF cp

LEMMA FilledSteps ==
    /\ Filled(8) = Filled(7) \cup {"c", "h"}
    /\ Filled(9) = Filled(8) \cup {"internal"}
    /\ Filled(10) = Filled(9) \cup {"include"}
    /\ Filled(11) = Filled(10) \cup {"minimal"}
    /\ Filled(11) = Files
<1> DEFINE F(k) == {f \in Files : \/ f \in {"c", "h"} /\ k >= 8
                                  \/ f = "internal" /\ k >= 9
                                  \/ f = "include" /\ k >= 10
                                  \/ f = "minimal" /\ k >= 11}
<1>1. F(7) = {} /\ F(8) = {"c", "h"} /\ F(9) = {"c", "h", "internal"}
      /\ F(10) = {"c", "h", "internal", "include"}
  BY DEF Files, Emitted, Headers
<1>2. F(11) = {"c", "h", "internal", "include", "minimal"}
  BY DEF Files, Emitted, Headers
<1>3. Files = {"c", "h", "internal", "include", "minimal"}
  BY DEF Files, Emitted, Headers
<1>4. \A k \in 7..11 : Filled(k) = F(k)
  BY DEF Filled
<1> HIDE DEF F
<1>5. Filled(7) = F(7) /\ Filled(8) = F(8) /\ Filled(9) = F(9)
      /\ Filled(10) = F(10) /\ Filled(11) = F(11)
  BY <1>4
<1> QED
  BY <1>1, <1>2, <1>3, <1>5

(* The four copies of make generate. *)
CopySteps ==
    \/ cp("cp emitted", {"c", "h"}, EmittedFrom(extract, FALSE))
    \/ cp("cp internal", {"internal"}, EmittedFrom(extract, FALSE))
    \/ cp("cp include", {"include"}, home)
    \/ cp("cp minimal", {"minimal"}, home)

LEMMA CopyAt ==
    ASSUME Inv, NEW c, NEW files, NEW content, cp(c, files, content), c \in CopyCommands
    PROVE  /\ c \in VendorCommands /\ c # "strip"
           /\ c = "cp emitted" => at = 7
           /\ c = "cp internal" => at = 8
           /\ c = "cp include" => at = 9
           /\ c = "cp minimal" => at = 10
<1>1. c \in VendorCommands /\ c # "strip"
  BY DEF CopyCommands, VendorCommands
<1>2. todo # <<>> /\ Head(todo) = c
  BY DEF cp, Writes, Does, Fails
<1> QED
  BY <1>1, <1>2, VendorPosition

LEMMA CopiesKeep == ASSUME Inv, CopySteps PROVE Inv'
<1>1. CASE cp("cp emitted", {"c", "h"}, EmittedFrom(extract, FALSE))
  <2>1. "cp emitted" \in VendorCommands /\ "cp emitted" # "strip"
    BY <1>1, CopyAt DEF CopyCommands
  <2>a. at = 7
    BY <1>1, CopyAt DEF CopyCommands
  <2>2. at + 1 = 8 /\ at >= 7
    BY <2>a
  <2>3. \A f \in {"c", "h"} : f \in Files /\ EmittedFrom(extract, FALSE) = Fresh(f)
    BY FileSets DEF Fresh
  <2>4. Filled(at + 1) = Filled(at) \cup {"c", "h"}
    BY <2>a, <2>2, FilledSteps
  <2> QED
    <3>1. PICK c, files, content :
              c = "cp emitted" /\ files = {"c", "h"} /\ content = EmittedFrom(extract, FALSE)
      OBVIOUS
    <3>2. cp(c, files, content) /\ c \in VendorCommands /\ c # "strip"
      BY <1>1, <2>1, <3>1
    <3>3. Filled(at + 1) = Filled(at) \cup files
          /\ \A f \in files : f \in Files /\ content = Fresh(f)
      BY <2>3, <2>4, <3>1
    <3> HIDE <3>1
    <3> QED
      BY <2>2, <3>2, <3>3, CpKeeps
<1>2. CASE cp("cp internal", {"internal"}, EmittedFrom(extract, FALSE))
  <2>1. "cp internal" \in VendorCommands /\ "cp internal" # "strip"
    BY <1>2, CopyAt DEF CopyCommands
  <2>a. at = 8
    BY <1>2, CopyAt DEF CopyCommands
  <2>2. at + 1 = 9 /\ at >= 7
    BY <2>a
  <2>3. \A f \in {"internal"} : f \in Files /\ EmittedFrom(extract, FALSE) = Fresh(f)
    BY FileSets DEF Fresh
  <2>4. Filled(at + 1) = Filled(at) \cup {"internal"}
    BY <2>a, <2>2, FilledSteps
  <2> QED
    <3>1. PICK c, files, content :
              c = "cp internal" /\ files = {"internal"} /\ content = EmittedFrom(extract, FALSE)
      OBVIOUS
    <3>2. cp(c, files, content) /\ c \in VendorCommands /\ c # "strip"
      BY <1>2, <2>1, <3>1
    <3>3. Filled(at + 1) = Filled(at) \cup files
          /\ \A f \in files : f \in Files /\ content = Fresh(f)
      BY <2>3, <2>4, <3>1
    <3> HIDE <3>1
    <3> QED
      BY <2>2, <3>2, <3>3, CpKeeps
<1>3. CASE cp("cp include", {"include"}, home)
  <2>1. "cp include" \in VendorCommands /\ "cp include" # "strip"
    BY <1>3, CopyAt DEF CopyCommands
  <2>a. at = 9
    BY <1>3, CopyAt DEF CopyCommands
  <2>2. at + 1 = 10 /\ at >= 7
    BY <2>a
  <2>3. \A f \in {"include"} : f \in Files /\ home = Fresh(f)
    BY FileSets DEF Fresh
  <2>4. Filled(at + 1) = Filled(at) \cup {"include"}
    BY <2>a, <2>2, FilledSteps
  <2> QED
    <3>1. PICK c, files, content :
              c = "cp include" /\ files = {"include"} /\ content = home
      OBVIOUS
    <3>2. cp(c, files, content) /\ c \in VendorCommands /\ c # "strip"
      BY <1>3, <2>1, <3>1
    <3>3. Filled(at + 1) = Filled(at) \cup files
          /\ \A f \in files : f \in Files /\ content = Fresh(f)
      BY <2>3, <2>4, <3>1
    <3> HIDE <3>1
    <3> QED
      BY <2>2, <3>2, <3>3, CpKeeps
<1>4. CASE cp("cp minimal", {"minimal"}, home)
  <2>1. "cp minimal" \in VendorCommands /\ "cp minimal" # "strip"
    BY <1>4, CopyAt DEF CopyCommands
  <2>a. at = 10
    BY <1>4, CopyAt DEF CopyCommands
  <2>2. at + 1 = 11 /\ at >= 7
    BY <2>a
  <2>3. \A f \in {"minimal"} : f \in Files /\ home = Fresh(f)
    BY FileSets DEF Fresh
  <2>4. Filled(at + 1) = Filled(at) \cup {"minimal"}
    BY <2>a, <2>2, FilledSteps
  <2> QED
    <3>1. PICK c, files, content :
              c = "cp minimal" /\ files = {"minimal"} /\ content = home
      OBVIOUS
    <3>2. cp(c, files, content) /\ c \in VendorCommands /\ c # "strip"
      BY <1>4, <2>1, <3>1
    <3>3. Filled(at + 1) = Filled(at) \cup files
          /\ \A f \in files : f \in Files /\ content = Fresh(f)
      BY <2>3, <2>4, <3>1
    <3> HIDE <3>1
    <3> QED
      BY <2>2, <3>2, <3>3, CpKeeps
<1> QED
  BY <1>1, <1>2, <1>3, <1>4 DEF CopySteps

LEMMA StripOne ==
    ASSUME NEW code, NEW a, NEW b
    PROVE  [EmittedFrom(code, a) EXCEPT !.stripped = b] = EmittedFrom(code, b)
BY DEF EmittedFrom

(* The tree when the first k of the emitted files have been stripped. *)
LEMMA StrippedTree ==
    ASSUME DOMAIN generated = Files, \A f \in Files : generated[f] = Fresh(f),
           NEW k \in 0..3
    PROVE  /\ DOMAIN StrippedUpTo(k) = Files
           /\ \A f \in Headers : StrippedUpTo(k)[f] = home
           /\ \A f \in Emitted : StrippedUpTo(k)[f] \in {EmittedFrom(extract, TRUE),
                                                         EmittedFrom(extract, FALSE)}
           /\ k = 3 => \A f \in Emitted : StrippedUpTo(k)[f] = EmittedFrom(extract, TRUE)
<1>1. StrippedUpTo(k) = [f \in Files |->
          IF \E j \in 1..k : Order[j] = f THEN [generated[f] EXCEPT !.stripped = TRUE]
          ELSE generated[f]]
  BY DEF StrippedUpTo
<1>2. Order[1] = "c" /\ Order[2] = "h" /\ Order[3] = "internal"
  BY DEF Order
<1>3. \A j \in 1..k : Order[j] \in Emitted
  <2>1. ASSUME NEW j \in 1..k PROVE Order[j] \in Emitted
    <3>1. j = 1 \/ j = 2 \/ j = 3
      OBVIOUS
    <3> QED
      BY <1>2, <3>1 DEF Emitted
  <2> QED
    BY <2>1
<1>4. [EmittedFrom(extract, FALSE) EXCEPT !.stripped = TRUE] = EmittedFrom(extract, TRUE)
  BY StripOne
<1>5. ASSUME NEW f \in Headers PROVE StrippedUpTo(k)[f] = home
  <2>1. f \in Files /\ ~(\E j \in 1..k : Order[j] = f)
    BY <1>3, FileSets
  <2> QED
    BY <1>1, <2>1 DEF Fresh
<1>6. ASSUME NEW f \in Emitted
      PROVE  StrippedUpTo(k)[f] = IF \E j \in 1..k : Order[j] = f
                                  THEN EmittedFrom(extract, TRUE) ELSE EmittedFrom(extract, FALSE)
  <2>1. f \in Files /\ generated[f] = EmittedFrom(extract, FALSE)
    BY FileSets DEF Fresh
  <2> QED
    BY <1>1, <1>4, <2>1
<1>7. ASSUME k = 3, NEW f \in Emitted PROVE \E j \in 1..k : Order[j] = f
  <2>1. f = "c" \/ f = "h" \/ f = "internal"
    BY DEF Emitted
  <2>2. 1 \in 1..k /\ 2 \in 1..k /\ 3 \in 1..k
    BY <1>7
  <2> QED
    BY <1>2, <2>1, <2>2
<1> QED
  BY <1>1, <1>5, <1>6, <1>7

LEMMA StripKeeps == ASSUME Inv, strip PROVE Inv'
<1>1. UNCHANGED <<modules, staging>> /\ DOMAIN generated = Files
  BY DEF strip, Inv, TypeInv
<1>2. todo # <<>> /\ Head(todo) = "strip" /\ UNCHANGED sources
  BY DEF strip, Writes, Does, Fails
<1>3. "strip" \in VendorCommands
  BY DEF VendorCommands
<1>4. target = "generate" /\ extract = Current /\ extract.home = home /\ at = 11
      /\ (at >= 7 => \A f \in Files : generated[f] = IF f \in Filled(at) THEN Fresh(f) ELSE Missing)
  BY <1>2, <1>3, VendorPosition
<1>5. \A f \in Files : generated[f] = Fresh(f)
  BY <1>4, FilledSteps
<1>6. CASE Writes("strip") /\ generated' = StrippedUpTo(3)
  <2>1. DOMAIN generated' = Files /\ (\A f \in Headers : generated'[f] = home)
        /\ (\A f \in Emitted : generated'[f] = EmittedFrom(extract, TRUE))
    <3>1. /\ DOMAIN StrippedUpTo(3) = Files
          /\ \A f \in Headers : StrippedUpTo(3)[f] = home
          /\ \A f \in Emitted : StrippedUpTo(3)[f] = EmittedFrom(extract, TRUE)
      <4>1. 3 \in 0..3
        OBVIOUS
      <4> QED
        BY <1>1, <1>5, <4>1, StrippedTree
    <3> QED
      BY <1>6, <3>1
  <2>2. OneSource'
    BY <1>4, <2>1 DEF OneSource, From
  <2>3. Does("strip") /\ done' = done \cup Ended
    BY <1>6 DEF Writes
  <2>4. todo' \in Seq(Command) /\ Schedule' /\ target' = target /\ (todo' # <<>> => at' = 12)
    <3>1. todo' \in Seq(Command) /\ Schedule' /\ target' = target
          /\ (todo' # <<>> => at' = at + 1)
      BY <2>3, Progress DEF Inv
    <3> QED
      BY <1>4, <3>1
  <2>5. todo' = <<>>
    <3> SUFFICES ASSUME todo' # <<>> PROVE FALSE
      OBVIOUS
    <3>1. Len(todo) = Len(Tail(todo)) + 1 /\ Tail(todo) # <<>> /\ todo \in Seq(Command)
          /\ Tail(todo) \in Seq(Command)
      BY <1>2, <2>3, HeadTailProperties DEF Does, Inv, TypeInv
    <3>2. Len(Recipe[target]) = 12
      BY <1>4, RecipeLengths
    <3>3. Len(todo) = 1
      BY <1>4, <3>1, <3>2 DEF at
    <3>4. Len(Tail(todo)) \in Nat \ {0}
      BY <3>1, EmptySeq
    <3> QED
      <4>1. PICK x \in Nat \ {0} : x = Len(Tail(todo))
        BY <3>4
      <4>2. Len(todo) = x + 1
        BY <3>1, <4>1
      <4> QED
        BY <3>3, <4>2
  <2>6. TypeInv'
    BY <1>1, <1>2, <2>1, <2>4 DEF Inv, TypeInv, sources, modules, staging, KrmlTyped
  <2>7. VendoredFrom(module["enc"], module["dfa"])'
    <3>1. extract = [enc |-> module["enc"], dfa |-> module["dfa"], home |-> home]
      BY <1>4 DEF Current
    <3>2. module' = module /\ home' = home
      BY <1>1, <1>2 DEF sources, modules
    <3> QED
      BY <2>1, <3>1, <3>2 DEF VendoredFrom
  <2>8. "verify" \in done' => Proofs'
    <3>1. "verify" \in done' => "verify" \in done
      BY <1>4, <2>3 DEF Ended
    <3> QED
      BY <1>1, <1>2, <3>1 DEF Inv, Ships, Proofs, sources, modules
  <2>9. Ships'
    BY <2>7, <2>8 DEF Ships
  <2> QED
    BY <2>2, <2>4, <2>5, <2>6, <2>9, Stopped DEF Inv
<1>7. CASE /\ Fails("strip")
           /\ \E k \in 0..2 : \/ generated' = StrippedUpTo(k)
                              \/ generated' = [StrippedUpTo(k) EXCEPT ![Order[k + 1]] = Partial]
  <2>1. PICK k \in 0..2 : \/ generated' = StrippedUpTo(k)
                          \/ generated' = [StrippedUpTo(k) EXCEPT ![Order[k + 1]] = Partial]
    BY <1>7
  <2>2. k \in 0..3
    OBVIOUS
  <2>3. DOMAIN StrippedUpTo(k) = Files /\ (\A f \in Headers : StrippedUpTo(k)[f] = home)
        /\ (\A f \in Emitted : StrippedUpTo(k)[f] \in {EmittedFrom(extract, TRUE),
                                                       EmittedFrom(extract, FALSE)})
    BY <1>1, <1>5, <2>2, StrippedTree
  <2>4. DOMAIN generated' = Files
        /\ \A f \in Files : generated'[f] = StrippedUpTo(k)[f] \/ generated'[f] = Partial
    BY <2>1, <2>3 DEF StrippedUpTo
  <2>5. OneSource'
    BY <1>4, <2>3, <2>4, FileSets DEF OneSource, From
  <2> QED
    BY <1>1, <1>3, <1>7, <2>4, <2>5, VendorFailureKeeps
<1> QED
  BY <1>6, <1>7 DEF strip

--------------------------------------------------------------------------
(* make verify, the start of a target and the developer's edits *)

LEMMA VerifyKeeps == ASSUME Inv, verify PROVE Inv'
<1> USE DEF Inv
<1>1. UNCHANGED <<modules, staging, generated>> /\ UNCHANGED sources
  BY DEF verify, Writes, Does, Fails
<1>2. OneSource' /\ KrmlTyped'
  BY <1>1, SourceKept DEF staging, TypeInv, KrmlTyped
<1>3. CASE Fails("verify")
  BY <1>1, <1>2, <1>3, FailureKeeps
<1>4. CASE /\ Does("verify")
           /\ done' = done \/ (done' = done \cup Ended /\ Proofs)
  <2>1. todo # <<>> /\ Head(todo) = "verify" /\ todo' \in Seq(Command) /\ Schedule'
        /\ target' = target
    BY <1>4, Progress
  <2>2. target = "verify"
    BY <2>1, Position
  <2>3. TypeInv'
    BY <1>1, <1>2, <2>1 DEF TypeInv, sources, modules
  <2>4. Printed' /\ Staged' /\ Copied'
    BY <2>1, <2>2 DEF Printed, Staged, Copied, Runs
  <2>5. Ships'
    <3>1. "generate" \in done' => "generate" \in done
      BY <1>4, <2>2 DEF Ended
    <3>2. "verify" \in done' => Proofs
      BY <1>4 DEF Ships
    <3> QED
      BY <1>1, <3>1, <3>2 DEF Ships, VendoredFrom, Proofs, sources, modules
  <2> QED
    BY <1>2, <2>1, <2>3, <2>4, <2>5
<1> QED
  BY <1>3, <1>4 DEF verify, Writes

LEMMA StartKeeps == ASSUME Inv, Start PROVE Inv'
<1> USE DEF Inv
<1>1. PICK t \in DOMAIN Recipe : target' = t /\ todo' = Recipe[t] /\ done' = done \ {t}
  BY DEF Start
<1>2. UNCHANGED <<sources, modules, staging, generated>>
  BY DEF Start
<1>3. todo' \in Seq(Command) /\ Len(todo') \in Nat /\ at' = 0
  BY <1>1, RecipeLengths DEF at
<1>4. Schedule'
  BY <1>1, <1>3 DEF Schedule
<1>5. TypeInv'
  BY <1>2, <1>3 DEF TypeInv, sources, modules, staging, KrmlTyped
<1>6. Printed' /\ Staged' /\ Copied'
  BY <1>3 DEF Printed, Staged, Copied
<1>7. Ships'
  BY <1>1, <1>2, ShipsKept DEF sources, modules
<1> QED
  BY <1>2, <1>4, <1>5, <1>6, <1>7, SourceKept

LEMMA EditKeeps == ASSUME Inv, Edit PROVE Inv'
<1> USE DEF Inv
<1>1. todo' = <<>> /\ done' = {} /\ UNCHANGED <<modules, staging, generated>>
  BY DEF Edit
<1>2. TypeInv'
  BY <1>1, Stopped, PipelineBounds DEF TypeInv, Edit, modules, staging, KrmlTyped
<1>3. Ships'
  BY <1>1 DEF Ships
<1> QED
  BY <1>1, <1>2, <1>3, Stopped, SourceKept

LEMMA Initially == Init => Inv
<1> SUFFICES ASSUME Init PROVE Inv
  OBVIOUS
<1>1. todo = <<>> /\ table = 0 /\ home = 0 /\ edits = 0
  BY DEF Init
<1>2. 0 \in Good
  BY PipelineBounds DEF Good, Version
<1>3. module \in [Parts -> Good] /\ module["enc"] = 0 /\ module["dfa"] = 0
  BY <1>2 DEF Init, Parts
<1>4. tmp \in [Parts -> Content] /\ KrmlTyped
  BY DEF Init, Parts, Content, KrmlTyped, NoKrml
<1>5. DOMAIN generated = Files
  BY DEF Init, Files
<1>6. TypeInv
  BY <1>1, <1>3, <1>4, <1>5, PipelineBounds DEF TypeInv
<1>7. /\ \A f \in Headers : generated[f] = 0
      /\ \A f \in Emitted : generated[f] = EmittedFrom([enc |-> 0, dfa |-> 0, home |-> 0], TRUE)
  BY FileSets DEF Init
<1>8. OneSource
  <2>1. PICK code : code = [enc |-> 0, dfa |-> 0, home |-> 0]
    OBVIOUS
  <2>2. code.home = 0
    BY <2>1
  <2>3. From(code)
    BY <1>7, <2>1, <2>2 DEF From
  <2> QED
    BY <2>3 DEF OneSource
<1>9. Ships
  BY <1>1, <1>3, <1>7 DEF Ships, VendoredFrom, Proofs
<1>10. Schedule /\ Printed /\ Staged /\ Copied
  BY <1>1 DEF Schedule, Printed, Staged, Copied, Runs
<1> QED
  BY <1>6, <1>8, <1>9, <1>10 DEF Inv

LEMMA StepKeeps == Inv /\ [Next]_vars => Inv'
<1> SUFFICES ASSUME Inv, [Next]_vars PROVE Inv'
  OBVIOUS
<1>1. CASE Start
  BY <1>1, StartKeeps
<1>2. CASE Edit
  BY <1>2, EditKeeps
<1>3. CASE \E m \in {"enc", "dfa"} : gen(m) \/ mv(m)
  BY <1>3, GenKeeps, MvKeeps DEF Parts
<1>4. CASE test_home \/ rm_extract \/ mv_krml \/ krml_bundle
  BY <1>4, TestHomeKeeps, RmExtractKeeps, MvKrmlKeeps, KrmlKeeps
<1>5. CASE pass("pass A", "dfa") \/ pass("pass B", "enc")
  BY <1>5, PassKeeps DEF PassOf
<1>6. CASE rm_generated \/ strip \/ verify
  BY <1>6, RmGeneratedKeeps, StripKeeps, VerifyKeeps
<1>7. CASE CopySteps
  BY <1>7, CopiesKeep
<1>8. CASE UNCHANGED vars
  BY <1>8, ZenonT(30) DEF vars, sources, modules, staging, Inv, TypeInv, KrmlTyped, Schedule, Printed, Staged,
     Copied, OneSource, From, Ships, VendoredFrom, Proofs, Runs, at, Current, Filled, Fresh
<1> QED
  BY <1>1, <1>2, <1>3, <1>4, <1>5, <1>6, <1>7, <1>8 DEF Next, Commands, CopySteps

LEMMA Invariance == Spec => []Inv
<1> QED
  BY Initially, StepKeeps, PTL DEF Spec

--------------------------------------------------------------------------
(* However often sources change and commands fail, a committed table       *)
(* module is whole at every moment (the recipe of make tables).            *)
THEOREM ModulesStayWhole == Spec => []ModulesWhole
<1>1. Inv => ModulesWhole
  BY DEF Inv, TypeInv, ModulesWhole, Good
<1> QED
  BY <1>1, Invariance, PTL

(* However often sources change and commands fail, a vendored tree with    *)
(* every file there and whole is from one extraction (make generate).      *)
THEOREM TreeFromOneExtraction == Spec => []OneExtraction
<1>1. Inv => OneExtraction
  <2> SUFFICES ASSUME Inv, Whole
               PROVE  \E code \in {generated[f].code : f \in Emitted} :
                          /\ \A f \in Emitted : generated[f].code = code
                          /\ \A f \in Headers : generated[f] = code.home
    BY DEF OneExtraction
  <2>1. PICK code : From(code)
    BY DEF Inv, OneSource
  <2>2. \A f \in Files : generated[f] \notin {Missing, Partial}
    BY DEF Whole, Inv, TypeInv
  <2>3. \A x : EmittedFrom(code, x).code = code
    BY DEF EmittedFrom
  <2>4. \A f \in Emitted : generated[f].code = code
    BY <2>1, <2>2, <2>3, FileSets DEF From
  <2>5. \A f \in Headers : generated[f] = code.home
    BY <2>1, <2>2, FileSets DEF From
  <2>6. code \in {generated[f].code : f \in Emitted}
    <3>1. "c" \in Emitted
      BY DEF Emitted
    <3> QED
      BY <2>4, <3>1
  <2> QED
    BY <2>4, <2>5, <2>6
<1> QED
  BY <1>1, Invariance, PTL

(* When make generate has ended well, the tree is the extraction of the    *)
(* modules and of the toolchain as they are.                               *)
THEOREM GenerateVendorsCurrent == Spec => []VendorsCurrentModules
<1>1. Inv => VendorsCurrentModules
  BY DEF Inv, Ships, VendorsCurrentModules
<1> QED
  BY <1>1, Invariance, PTL

(* When make verify and make generate have both ended well on the sources  *)
(* as they are, in either order, the tree is that of the RFC table.        *)
THEOREM VerifiedTreeIsTheTable == Spec => []VerifiedShipsTable
<1>1. Inv => VerifiedShipsTable
  BY DEF Inv, Ships, Proofs, VerifiedShipsTable
<1> QED
  BY <1>1, Invariance, PTL
====
