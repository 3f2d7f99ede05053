----------------------------- MODULE Sha1Stream -----------------------------
(***************************************************************************)
(* The buffering and the padding of src/core/sha1.c: a message comes in     *)
(* pieces of any length, and whole blocks of it go to sha1_transform.       *)
(*                                                                         *)
(* What sha1_transform computes is left out.  The state of a context is a   *)
(* function of the bytes handed to it, in their order, so those bytes stand *)
(* for the state.  A byte of the message is its position.                   *)
(***************************************************************************)
EXTENDS Integers, Sequences

CONSTANTS
    Block,      \* bytes in a block, 64
    Digit,      \* values of a byte in the count of the padding, 256
    Half,       \* bytes in one of the two words of that count, 4
    MaxLen      \* bound on the model: bytes in a message

Field == 2 * Half

\* Digit to the power i.
Power[i \in 0..Field] == IF i = 0 THEN 1 ELSE Digit * Power[i - 1]

Word == Power[Half]      \* 2^32: count[0] and count[1] are uint32_t

ASSUME StreamAssumption ==
    /\ {Block, Digit, Half} \subseteq Nat \ {0}
    /\ MaxLen \in Nat
    /\ Field < Block
    /\ Word % (8 * Block) = 0

VARIABLES
    phase,      \* "data", "padding" or "done"
    lo, hi,     \* count[0] and count[1]
    buffer,     \* its bytes; those of an earlier message stay in it
    fed,        \* the bytes sha1_transform has been given
    finalcount,
    given,      \* history: the bytes git_sha1_update has been given
    message     \* history: those of them that are the message

vars == <<phase, lo, hi, buffer, fed, finalcount, given, message>>

Byte(k) == [kind |-> "message", value |-> k]
Mark == [kind |-> "mark", value |-> 0]       \* 0x80
Zero == [kind |-> "zero", value |-> 0]
CountByte(n) == [kind |-> "count", value |-> n]

Init ==
    /\ phase = "data"
    /\ lo = 0 /\ hi = 0
    /\ buffer = [i \in 1..Block |-> Zero]
    /\ fed = <<>> /\ finalcount = <<>> /\ given = <<>> /\ message = <<>>

-----------------------------------------------------------------------------
(* git_sha1_update                                                         *)

Position == (lo \div 8) % Block

\* The bits of a piece, as far as they fit in a word.
Bits(piece) == (8 * Len(piece)) % Word

\* The low word has overflowed if it is less than what was added to it.
Carry(piece) == IF (lo + Bits(piece)) % Word < Bits(piece) THEN 1 ELSE 0

\* Variant: a block that is just full waits for the next byte.
FillsLate(piece) == Position + Len(piece) > Block

Fills(piece) == Position + Len(piece) > Block - 1

Put(piece, at) == [i \in 1..Block |-> IF i \in at + 1..at + Len(piece)
                                      THEN piece[i - at] ELSE buffer[i]]

\* git_sha1_update.  Its index into a piece is a uint32_t: a piece has less than
\* 2^32 bytes, as all that the program hashes has, which is capped far below.
Update(piece) ==
    /\ lo' = (lo + Bits(piece)) % Word
    /\ hi' = (hi + Carry(piece) + Len(piece) \div (Word \div 8)) % Word
    /\ given' = given \o piece
    /\ IF Fills(piece)
       THEN LET first == Block - Position       \* the bytes that fill the buffer
                full == Put(SubSeq(piece, 1, first), Position)
                whole == first + Block * ((Len(piece) - first) \div Block)
                rest == SubSeq(piece, whole + 1, Len(piece))
            IN /\ fed' = fed \o full \o SubSeq(piece, first + 1, whole)
               /\ buffer' = [i \in 1..Block |->
                                IF i <= Len(rest) THEN rest[i] ELSE full[i]]
       ELSE /\ buffer' = Put(piece, Position)
            /\ UNCHANGED fed

\* The next bytes of the message.
Write(len) ==
    /\ phase = "data"
    /\ Len(given) + len <= MaxLen
    /\ Update([i \in 1..len |-> Byte(Len(given) + i)])
    /\ UNCHANGED <<phase, finalcount, message>>

-----------------------------------------------------------------------------
(* git_sha1_final                                                          *)

\* The bytes of the two words, the high one and the high bytes first.
CountBytes(low, high) ==
    [i \in 1..Field |->
        CountByte(((IF i > Half THEN low ELSE high)
                   \div Power[Half - 1 - ((i - 1) % Half)]) % Digit)]

\* Variant: the mark is counted.
FinalCountLate == CountBytes(lo', hi')

FinalCount == CountBytes(lo, hi)

BeginFinal ==
    /\ phase = "data" /\ phase' = "padding"
    /\ message' = given
    /\ Update(<<Mark>>)
    /\ finalcount' = FinalCount

Padded == Position = Block - Field

Pad ==
    /\ phase = "padding" /\ ~Padded
    /\ Update(<<Zero>>)
    /\ UNCHANGED <<phase, finalcount, message>>

EndFinal ==
    /\ phase = "padding" /\ Padded
    /\ Update(finalcount)
    /\ phase' = "done"
    /\ UNCHANGED <<finalcount, message>>

\* git_sha1_init of another context, whose buffer is what the stack holds.
Begin ==
    /\ phase = "done" /\ phase' = "data"
    /\ lo' = 0 /\ hi' = 0
    /\ fed' = <<>> /\ finalcount' = <<>> /\ given' = <<>> /\ message' = <<>>
    /\ UNCHANGED buffer

Next == (\E len \in 0..MaxLen : Write(len)) \/ BeginFinal \/ Pad \/ EndFinal \/ Begin

Spec == Init /\ [][Next]_vars

-----------------------------------------------------------------------------
(* Properties                                                              *)

\* At any time, also while padding, the blocks that were handed on and the
\* part of the buffer that is in use are what was given, in order and
\* complete, and the two words are its length in bits: however a message is
\* cut into pieces, and where the words wrap around.
StreamKept ==
    /\ Len(fed) % Block = 0
    /\ fed \o SubSeq(buffer, 1, Position) = given
    /\ lo + Word * hi = (8 * Len(given)) % (Word * Word)

\* The padding of FIPS 180-4: a mark, as few zeros as make whole blocks, and
\* the length in bits, the high bytes first.
Reference(m) ==
    LET zeros == CHOOSE z \in 0..Block - 1 : (Len(m) + 1 + z + Field) % Block = 0
    IN m \o <<Mark>> \o [i \in 1..zeros |-> Zero]
       \o [i \in 1..Field |-> CountByte(((8 * Len(m)) \div Power[Field - i]) % Digit)]

\* What has been hashed in the end is the message, in one piece, as it is to
\* be padded: its digest does not depend on the pieces it came in, and the
\* padding never runs past the place of the count.
DigestIsOfMessage == phase = "done" => fed = Reference(message)
=============================================================================
