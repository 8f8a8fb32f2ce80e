------------------------------ MODULE digests -------------------------------
(***************************************************************************)
(* A client that streams a message into a digest, an rhash or an rcrc, cut *)
(* into buffers as it likes, and may ask for the result after each buffer. *)
(*                                                                         *)
(* stream is the client's view: the bytes it has added.                    *)
(***************************************************************************)
EXTENDS rhash, rcrc, FiniteSets

CONSTANTS
    Keys,           \* keys for rhash_init
    Algorithms,     \* parameters for rcrc_init
    HashBytes,      \* bytes streamed into an rhash
    MaxHashed,      \* bound: length of a stream into an rhash
    MaxChecked      \* bound: length of a stream into an rcrc

ASSUME DigestAssumption ==
    /\ Algorithms \subseteq Algorithm
    /\ HashBytes \subseteq Byte
    /\ MaxHashed \in Nat /\ MaxChecked \in Nat

VARIABLES
    kind,       \* which digest this is
    digest,     \* the rhash or the rcrc
    key,        \* the key or the parameters it was initialized with
    stream

digestVars == <<kind, digest, key, stream>>

DigestInit ==
    /\ stream = <<>>
    /\ \/ kind = "hash" /\ key \in Keys /\ digest = rhash_init(key)
       \/ kind = "crc" /\ key \in Algorithms /\ digest = rcrc_init(key)

(* Buffers of bytes of the set bytes that keep the stream within max.      *)
Buffers(bytes, max) ==
    UNION {[1..n -> bytes] : n \in 0..(max - Len(stream))}

Streamed(buf) == stream' = stream \o buf /\ UNCHANGED <<kind, key>>

AddToHash ==
    /\ kind = "hash"
    /\ \E buf \in Buffers(HashBytes, MaxHashed) :
          digest' = rhash_add(digest, buf) /\ Streamed(buf)

AddToCrc ==
    /\ kind = "crc"
    /\ \E buf \in Buffers(Byte, MaxChecked) :
          digest' = rcrc_add(digest, buf) /\ Streamed(buf)

DigestNext == AddToHash \/ AddToCrc

DigestSpec == DigestInit /\ [][DigestNext]_digestVars

-----------------------------------------------------------------------------
(* The words SipHash compresses for a message: the message, zeros up to    *)
(* the last byte of a word, and there its length.                          *)
PaddedWords(msg) ==
    LET zeros == WordSize - 1 - (Len(msg) % WordSize)
    IN  Words(msg \o [i \in 1..zeros |-> {}] \o <<LowByte(Len(msg))>>)

(* However the stream was cut into buffers, and at any time, rhash_result  *)
(* is the SipHash of all that was added (HalfSipHash, rat_rhash.c:9), and  *)
(* that of rhash_calc in one call.                                         *)
HashOfStream ==
    kind = "hash" =>
        /\ rhash_result(digest) = Finished(FoldLeft(Compressed, Keyed(key), PaddedWords(stream)))
        /\ rhash_result(digest) = rhash_calc(key, stream)

(* Polynomials over GF(2) as sets of exponents.                            *)
Product(p, q, degrees) ==
    {e \in degrees : Cardinality({i \in p : e - i \in q}) % 2 = 1}

(* The stream as a polynomial, the first bit of the first byte on top.     *)
StreamBits == CHAR_BIT * Len(stream)

StreamPolynomial ==
    {e \in 0..(StreamBits - 1) :
        LET byte == stream[Len(stream) - e \div CHAR_BIT]
        IN  e % CHAR_BIT \in (IF key.refIn THEN reflect(byte, CHAR_BIT) ELSE byte)}

(* The definition of the CRC Catalogue: the remainder, by poly with its    *)
(* leading term, of the stream times x^bitWidth, the register having been  *)
(* init before the first bit; reflected if refOut, XORed with xorOut.      *)
IsCrc(result) ==
    LET w == key.bitWidth
        dividend == Xor({e + w : e \in StreamPolynomial}, {e + StreamBits : e \in key.init})
    IN  \E quotient \in SUBSET (0..(StreamBits - 1)) :
            LET rest == Xor(dividend, Product(quotient, key.poly \cup {w}, 0..(StreamBits + w - 1)))
            IN  /\ rest \subseteq 0..(w - 1)
                /\ result = Xor(IF key.refOut THEN reflect(rest, w) ELSE rest, key.xorOut)

(* However the stream was cut, rcrc_result is the CRC of all that was      *)
(* added, for streams of at least bitWidth bits: those that have taken in  *)
(* all of init.                                                            *)
CrcOfStream ==
    kind = "crc" /\ StreamBits >= key.bitWidth => IsCrc(rcrc_result(digest))

(* The same for streams of any length but zero, as a catalogue entry       *)
(* promises (rcrc.h:10-11).                                                *)
CrcOfAnyStream ==
    kind = "crc" /\ stream # <<>> => IsCrc(rcrc_result(digest))

=============================================================================
