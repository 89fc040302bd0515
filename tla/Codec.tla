---- MODULE Codec ----
(***************************************************************************)
(* The public API, cbits/hpack_huffman.c, between one caller and the       *)
(* extracted functions.  The caller keeps a buffer enc it encodes into and *)
(* a buffer dec with an out_len it decodes into, and uses them call after  *)
(* call, as the benchmark and the test harness do.  A call into the        *)
(* extracted code answers what its contract says (Encoder and DfaDecoder   *)
(* implement those); the shim's guards, clamp and casts are the code's.    *)
(* size_t values are plain numbers, uint32_t values wrap at U32.           *)
(***************************************************************************)
EXTENDS HuffmanSpec

CONSTANTS MAX_LEN,  \* HPACK_HUFFMAN_MAX_LEN
          U32,      \* the number of uint32 values
          EncSize, DecSize,  \* the sizes of the caller's buffers
          Messages, \* what the caller encodes, over-long messages included
          Caps,     \* the capacities the caller states for dec
          MaxCalls, \* how many calls the caller makes
          Old       \* what a cell holds that nothing was stored in

ASSUME CodecBounds ==
    /\ MAX_LEN \in Nat \ {0} /\ U32 \in Nat /\ 32 * MAX_LEN <= U32
    /\ EncSize \in Nat /\ DecSize \in Nat
    /\ \A y \in Byte : Len(Code[y]) <= 30  \* len_in_range
    /\ 4 * (MAX_LEN - 1) + 1 <= EncSize  \* dst holds 4 * len + 1 bytes
    /\ Caps \subseteq 0..DecSize
    /\ \A m \in Messages : m \in Seq(Byte)
    /\ MaxCalls \in Nat
    /\ Old \notin Byte

VARIABLES enc, elen,          \* the caller's encoding and what encode returned
          dec, out_len, rc,   \* what decode left
          announced,          \* the latest encode_len: its message and its answer
          sent,               \* ghost: the message of the latest encode
          asked,              \* ghost: the arguments of the latest decode since then
          calls               \* how many calls were made

vars == <<enc, elen, dec, out_len, rc, announced, sent, asked, calls>>
decoder == <<dec, out_len, rc>>

NotAsked == [src |-> <<>>, cap |-> -1]
UINT32_MAX == U32 - 1

Cells(n) == [k \in 0..n - 1 |-> Old]

Init ==
    /\ enc = Cells(EncSize) /\ elen = 0
    /\ dec = Cells(DecSize) /\ out_len = 0 /\ rc = 0
    /\ announced = [src |-> <<>>, len |-> 0]
    /\ sent = <<>> /\ asked = NotAsked
    /\ calls = 0

--------------------------------------------------------------------------
(* The buffer after the bytes of s were stored from its start on. *)
Stored(buf, s) ==
    [k \in DOMAIN buf \cup 0..Len(s) - 1 |-> IF k < Len(s) THEN s[k + 1] ELSE buf[k]]

FirstOf(buf, n) == [k \in 1..n |-> buf[k - 1]]

(* (uint32_t)len: the extracted code sees that many bytes of the message. *)
uint32_t(n) == n % U32
Seen(m) == SubSeq(m, 1, uint32_t(Len(m)))

(* Mutants of TooLong: the bound itself passes; the length is cut to 32    *)
(* bits first.                                                             *)
TooLongOffByOne(n) == n > MAX_LEN
TooLongAfterCast(n) == uint32_t(n) >= MAX_LEN

TooLong(n) == n >= MAX_LEN

(* Mutant of hpack_huffman_encode_len: it does not refuse. *)
encode_len_any(m) ==
    /\ announced' = [src |-> m, len |-> uint32_t(Len(Encoding(Seen(m))))]
    /\ UNCHANGED <<enc, elen, decoder, sent, asked>>

hpack_huffman_encode_len(m) ==
    /\ announced' = [src |-> m,
                     len |-> IF TooLong(Len(m)) THEN 0
                             ELSE uint32_t(Len(Encoding(Seen(m))))]
    /\ UNCHANGED <<enc, elen, decoder, sent, asked>>

hpack_huffman_encode(m) ==
    /\ IF TooLong(Len(m))
       THEN elen' = 0 /\ UNCHANGED enc
       ELSE LET e == Encoding(Seen(m))
            IN  elen' = uint32_t(Len(e)) /\ enc' = Stored(enc, e)
    /\ sent' = m /\ asked' = NotAsked
    /\ UNCHANGED <<announced, decoder>>

(* Mutants of cap32: a plain cast; the largest capacity for every call. *)
cap32Cast(cap) == uint32_t(cap)
cap32Largest(cap) == UINT32_MAX

(* The capacity clamped into 32 bits. *)
cap32(cap) == IF cap > UINT32_MAX THEN UINT32_MAX ELSE uint32_t(cap)

(* Mutant of Refuse: out_len is left alone. *)
RefuseSilently == rc' = -1 /\ UNCHANGED <<dec, out_len>>

Refuse == rc' = -1 /\ out_len' = 0 /\ UNCHANGED dec

(* On the first n bytes of enc: all of the encoding, less of it, or more,  *)
(* when an earlier and longer one has left its tail.  Hpack_Huffman_decode *)
(* answers as decode_dfa's contract says.                                  *)
hpack_huffman_decode(n, cap) ==
    LET s == FirstOf(enc, n)
    IN  /\ IF TooLong(n)
           THEN Refuse
           ELSE \E a \in DecodeAnswers(SubSeq(s, 1, uint32_t(n)), cap32(cap)) :
                    /\ dec' = Stored(dec, a.out)
                    /\ out_len' = Len(a.out)
                    /\ rc' = IF a.rc = 0 THEN 0 ELSE -1
        /\ asked' = [src |-> s, cap |-> cap]
        /\ UNCHANGED <<enc, elen, announced, sent>>

Call ==
    /\ calls < MaxCalls /\ calls' = calls + 1
    /\ \/ \E m \in Messages : hpack_huffman_encode_len(m) \/ hpack_huffman_encode(m)
       \/ \E n \in 0..EncSize, cap \in Caps :
             /\ \A k \in 0..n - 1 : enc[k] \in Byte
             /\ hpack_huffman_decode(n, cap)

Finished == calls = MaxCalls /\ UNCHANGED vars

Next == Call \/ Finished

Spec == Init /\ [][Next]_vars

--------------------------------------------------------------------------
(* Nothing is stored outside a buffer and no length exceeds one. *)
TypeOK ==
    /\ enc \in [0..EncSize - 1 -> Byte \cup {Old}] /\ elen \in 0..EncSize
    /\ dec \in [0..DecSize - 1 -> Byte \cup {Old}] /\ out_len \in 0..DecSize
    /\ rc \in {-1, 0}
    /\ announced.src \in Messages \cup {<<>>} /\ announced.len \in 0..EncSize
    /\ sent \in Messages \cup {<<>>} /\ asked.cap \in Caps \cup {-1}
    /\ calls \in 0..MaxCalls

(* The caller hands decode exactly what encode returned, with room for the *)
(* message.                                                                *)
DecodesWhatWasEncoded ==
    /\ asked.src = FirstOf(enc, elen)
    /\ asked.cap >= Len(sent)

Recovered == rc = 0 /\ FirstOf(dec, out_len) = sent

(* The round trip holds for a message below the bound whose encoding is    *)
(* below it too, whatever calls went before and left in the buffers, with  *)
(* every capacity that is large enough, those over 32 bits included.       *)
RoundTrip ==
    DecodesWhatWasEncoded /\ Len(sent) < MAX_LEN /\ elen < MAX_LEN => Recovered

(* README.md claims the round trip for every message. *)
RoundTripUnbounded == DecodesWhatWasEncoded => Recovered

(* Whatever decode answers, the bytes it counts in out_len are the first   *)
(* bytes of what this stream decodes to, never those of an earlier call.   *)
ReportsThisCall ==
    asked # NotAsked =>
        IsPrefix(FirstOf(dec, out_len), decode_bits(bytes_to_bits(asked.src)).out)

(* A caller who allocates what encode_len announces and passes the same    *)
(* message to encode gets that many bytes, refused messages included.      *)
AnnouncedIsReturned == announced.src = sent => announced.len = elen

(* Encoding is all or nothing: the buffer starts with the encoding of the  *)
(* whole message, or no byte of it has changed and the answer is 0.        *)
WholeOrNothing ==
    [][sent' # sent =>
          \/ elen' > 0 /\ FirstOf(enc', elen') = Encoding(sent')
          \/ elen' = 0 /\ enc' = enc]_vars

(* decode stores nothing at or past the capacity the caller stated. *)
CapacityHonoured ==
    [][\A k \in DOMAIN dec' : k >= asked'.cap /\ asked' # NotAsked =>
          k \in DOMAIN dec /\ dec'[k] = dec[k]]_vars
====
