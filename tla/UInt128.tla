---- MODULE UInt128 ----
(***************************************************************************)
(* FStar_UInt128_* as a build has it: the compiler's predefined macros and *)
(* KRML_VERIFIED_UINT128 choose one of three implementations, and a caller *)
(* computes with it.  latest holds the answer as the number it stands for. *)
(***************************************************************************)
EXTENDS Words

CONSTANT Operands

ASSUME OperandsFit == Operands \subseteq 0..Power(2, 2 * W) - 1

VARIABLES impl,   \* the implementation this build has
          acc,    \* the left operand, as the implementation represents it
          latest  \* the latest call: operation, argument, answer

NotCalled == <<>>

vars == <<impl, acc, latest>>

Verified == INSTANCE UInt128Verified
Gcc64 == INSTANCE UInt128Gcc64
Msvc == INSTANCE UInt128Msvc

(* types.h: the extracted code when it is asked for or nothing else fits. *)
Chosen(forced, msvc64, int128) ==
    IF ~forced /\ msvc64 THEN "msvc"
    ELSE IF ~forced /\ int128 THEN "gcc64"
    ELSE "verified"

Represented(i, n) == IF i = "gcc64" THEN Gcc64!FromNumber(n) ELSE Verified!FromNumber(n)

number == IF impl = "gcc64" THEN acc ELSE Verified!Value(acc)

Numbers == INSTANCE UInt128Spec WITH acc <- number

Init ==
    /\ \E forced, msvc64, int128 \in BOOLEAN : impl = Chosen(forced, msvc64, int128)
    /\ \E n \in Operands : acc = Represented(impl, n)
    /\ latest = NotCalled

(* The build's implementation answers one call. *)
May(i) == impl = i /\ latest = NotCalled /\ UNCHANGED <<impl, acc>>

CallVerified ==
    /\ May("verified")
    /\ \E r \in Numbers!Requests : latest' = <<r[1], r[2], Verified!Answer(r[1], acc, r[2])>>

CallGcc64 ==
    /\ May("gcc64")
    /\ \E r \in Numbers!Requests : latest' = <<r[1], r[2], Gcc64!Answer(r[1], acc, r[2])>>

CallMsvc ==
    /\ May("msvc")
    /\ \E r \in Numbers!Requests : latest' = <<r[1], r[2], Msvc!Answer(r[1], acc, r[2])>>

Returned == latest # NotCalled /\ UNCHANGED vars

Next == CallVerified \/ CallGcc64 \/ CallMsvc \/ Returned

Spec == Init /\ [][Next]_vars

--------------------------------------------------------------------------
(* Whichever implementation a build gets, with its carries, split shifts,  *)
(* masks and cross products, each call answers what the arithmetic of      *)
(* 128-bit numbers says.                                                   *)
ImplementsNumbers == Numbers!Spec
====
