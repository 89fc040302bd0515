---- MODULE Endianness ----
(***************************************************************************)
(* lowstar_endianness.h and the 128-bit accessors built on it: one host    *)
(* stores an integer into a byte buffer in a chosen byte order, another    *)
(* loads it.  A host has a byte order of its own, a branch of the header   *)
(* (the system's conversions, or the generic fallback) and one of the      *)
(* 128-bit implementations.  A byte has the values 0..B - 1.               *)
(***************************************************************************)
EXTENDS Radix, SequencesExt

CONSTANTS B,       \* the number of byte values, 256 in the code
          Values,  \* Values[n] are the integers of n bytes the sender stores
          Old      \* what a byte of the buffer holds at first

ASSUME ByteBounds ==
    /\ B \in Nat /\ B > 1 /\ Old \notin 0..B - 1
    /\ \A n \in {2, 4, 8, 16} : Values[n] \subseteq 0..Power(B, n) - 1

VARIABLES sender, receiver,  \* the two hosts
          buf,               \* the bytes between them
          stored,            \* ghost: the order, size and value of the store
          loaded             \* the order and value of the load

transfer == <<sender, receiver, buf, stored, loaded>>

None == [order |-> "none"]
Orders == {"le", "be"}

(* The generic branches know their byte order from __BYTE_ORDER__; MSVC    *)
(* builds are little-endian and have a branch of their own.  The struct    *)
(* and the __int128 implementations take 128 bits as two words.            *)
Hosts ==
    {h \in [order : Orders, branch : {"system", "generic"}, impl : {"words", "msvc"}] :
        h.impl = "msvc" => h.order = "le" /\ h.branch = "system"}

(* The sizes a host has accessors for: the generic branches have no 16-bit *)
(* conversions.                                                            *)
Sizes(h) == IF h.branch = "generic" THEN {4, 8, 16} ELSE {2, 4, 8, 16}

TransferInit ==
    /\ sender \in Hosts /\ receiver \in Hosts
    /\ buf = [k \in 0..15 |-> Old]
    /\ stored = None /\ loaded = None

--------------------------------------------------------------------------
(* An integer's bytes, the least significant first, and back. *)

Lane(x, k) == Digit(B, x, k)
LittleBytes(x, n) == Digits(B, x, n)
FromBytes(bytes) == Number(B, bytes)

(* memcpy between an integer of n bytes and the buffer. *)
InMemory(h, x, n) == IF h.order = "le" THEN LittleBytes(x, n) ELSE Reverse(LittleBytes(x, n))

Overwritten(m, at, bytes) ==
    [k \in DOMAIN m |-> IF k - at \in 0..Len(bytes) - 1 THEN bytes[k - at + 1] ELSE m[k]]

Copied(h, m, at, n) ==
    LET bytes == [k \in 1..n |-> m[at + k - 1]]
    IN  FromBytes(IF h.order = "le" THEN bytes ELSE Reverse(bytes))

--------------------------------------------------------------------------
(* Converting between the host's order and a given one. *)

byteswap(x, n) == FromBytes(Reverse(LittleBytes(x, n)))

(* The conversions of <endian.h>, of the other systems' headers and of the *)
(* compilers.                                                              *)
system_convert(h, order, x, n) == IF h.order = order THEN x ELSE byteswap(x, n)

(* The generic branches: shifts and masks for 32 bits ... *)
generic_swap32(x) == Lane(x, 3) + Lane(x, 2) * B + Lane(x, 1) * B * B + Lane(x, 0) * B * B * B

(* ... which htobe64, in the little-endian branch, applies to each half.   *)
(* htole64, in the big-endian branch, applies htobe32 to each half, and    *)
(* that is the identity there.                                             *)
htobe32(h, x) == IF h.order = "be" THEN x ELSE generic_swap32(x)

(* Mutant of generic_swap64: the halves keep their places. *)
generic_swap_in_place(h, x) ==
    htobe32(h, x \div Power(B, 4)) * Power(B, 4) + htobe32(h, x % Power(B, 4))

generic_swap64(h, x) ==
    htobe32(h, x % Power(B, 4)) * Power(B, 4) + htobe32(h, x \div Power(B, 4))

generic_convert(h, order, x, n) ==
    IF h.order = order THEN x
    ELSE IF n = 4 THEN generic_swap32(x)
    ELSE generic_swap64(h, x)

(* htole and htobe; letoh and betoh are the same functions. *)
convert(h, order, x, n) ==
    IF h.branch = "generic" THEN generic_convert(h, order, x, n)
    ELSE system_convert(h, order, x, n)

--------------------------------------------------------------------------
(* store16_le to store64_be and load16_le to load64_be, at an offset. *)

store(h, m, at, order, x, n) == Overwritten(m, at, InMemory(h, convert(h, order, x, n), n))
load(h, m, at, order, n) == convert(h, order, Copied(h, m, at, n), n)

(* 128 bits: two words, the one the order puts first at the lower address. *)
store128(h, m, order, x) ==
    LET high == x \div Power(B, 8)
        low == x % Power(B, 8)
    IN  IF order = "le" THEN store(h, store(h, m, 0, "le", low, 8), 8, "le", high, 8)
        ELSE store(h, store(h, m, 0, "be", high, 8), 8, "be", low, 8)

(* Mutant of load128: the words are taken in the order of memory. *)
load128_in_memory_order(h, m, order) ==
    load(h, m, 8, order, 8) * Power(B, 8) + load(h, m, 0, order, 8)

load128(h, m, order) ==
    IF order = "le" THEN load(h, m, 8, "le", 8) * Power(B, 8) + load(h, m, 0, "le", 8)
    ELSE load(h, m, 0, "be", 8) * Power(B, 8) + load(h, m, 8, "be", 8)

(* MSVC loads a little-endian register as it lies in memory. *)
msvc_load128(h, m, order) ==
    IF order = "le" THEN Copied(h, m, 0, 16) ELSE load128(h, m, order)

--------------------------------------------------------------------------
Store ==
    /\ stored = None
    /\ \E order \in Orders, n \in Sizes(sender) : \E x \in Values[n] :
          /\ buf' = IF n = 16 THEN store128(sender, buf, order, x)
                    ELSE store(sender, buf, 0, order, x, n)
          /\ stored' = [order |-> order, size |-> n, value |-> x]
    /\ UNCHANGED <<sender, receiver, loaded>>

Load ==
    /\ stored # None /\ loaded = None
    /\ stored.size \in Sizes(receiver)
    /\ \E order \in Orders :
          loaded' = [order |-> order,
                     value |-> IF stored.size < 16 THEN load(receiver, buf, 0, order, stored.size)
                               ELSE IF receiver.impl = "msvc" THEN msvc_load128(receiver, buf, order)
                               ELSE load128(receiver, buf, order)]
    /\ UNCHANGED <<sender, receiver, buf, stored>>

Ended ==
    /\ stored # None
    /\ loaded # None \/ stored.size \notin Sizes(receiver)
    /\ UNCHANGED transfer

TransferNext == Store \/ Load \/ Ended

TransferSpec == TransferInit /\ [][TransferNext]_transfer

--------------------------------------------------------------------------
BytesStored == [k \in 1..stored.size |-> buf[k - 1]]

InOrder(order, x, n) ==
    IF order = "le" THEN LittleBytes(x, n) ELSE Reverse(LittleBytes(x, n))

(* htole64 of the big-endian generic branch only exchanges the halves. *)
Misplaces(h, order, n) == h.branch = "generic" /\ h.order = "be" /\ order = "le" /\ n >= 8
StoreMisplaced == Misplaces(sender, stored.order, stored.size)
LoadMisplaces == Misplaces(receiver, loaded.order, stored.size)

(* The bytes after a store are those of the chosen order and no others     *)
(* change, whichever host stored and by whichever branch; the one          *)
(* conversion that gets it wrong is set apart.                             *)
WireOrder ==
    stored # None =>
        /\ StoreMisplaced \/ BytesStored = InOrder(stored.order, stored.value, stored.size)
        /\ \A k \in stored.size..15 : buf[k] = Old

(* A load in the order of the store gives back the value, between any two  *)
(* hosts that have the wrong conversion both or neither; a load in the     *)
(* other order gives its bytes reversed.                                   *)
ReadsBack ==
    loaded # None =>
        /\ loaded.order = stored.order /\ StoreMisplaced = LoadMisplaces =>
               loaded.value = stored.value
        /\ loaded.order # stored.order /\ ~StoreMisplaced /\ ~LoadMisplaces =>
               loaded.value = byteswap(stored.value, stored.size)

(* The names promise the order on every host: htole64 is little-endian.    *)
WireOrderEverywhere ==
    stored # None => BytesStored = InOrder(stored.order, stored.value, stored.size)
====
