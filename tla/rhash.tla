------------------------------- MODULE rhash --------------------------------
(***************************************************************************)
(* The incremental keyed hash, src/rat/src/rat_rhash.c.                    *)
(*                                                                         *)
(* A byte is the set of its one bits and a word a function of byte         *)
(* positions, so |= is union, byte by byte, and a byte put on top of one   *)
(* that should have been cleared shows.  The SipHash rounds are a constant *)
(* operator: what is modelled is which words they are given, and when.     *)
(***************************************************************************)
EXTENDS rbit, Sequences, SequencesExt

CONSTANTS
    WordSize,       \* sizeof(rhash_val)
    Keyed(_),       \* val[0..3] for a pair of keys
    Compressed(_,_),\* v3 ^= word, CROUNDS rounds, v0 ^= word
    Finished(_)     \* v2 ^= 0xFF, DROUNDS rounds, v1 ^ v3

ASSUME HashAssumption == WordSize \in Nat \ {0, 1}

Positions == 0..(WordSize - 1)
NoBytes == [i \in Positions |-> {}]

(* word |= the bytes of buf, the first at position at.                     *)
Loaded(word, at, buf) ==
    [i \in Positions |->
        word[i] \cup (IF i - at \in 0..(Len(buf) - 1) THEN buf[i - at + 1] ELSE {})]

(* The whole words of buf, least significant byte first, through memcpy.   *)
Words(buf) ==
    [w \in 1..(Len(buf) \div WordSize) |->
        [i \in Positions |-> buf[(w - 1) * WordSize + i + 1]]]

rhash_init(key) == [val |-> Keyed(key), rem |-> NoBytes, totalSize |-> 0]

(* The state after the whole words of buf; the bytes left over are kept.   *)
AddWords(val, totalSize, buf) ==
    LET rest == SubSeq(buf, Len(buf) - (Len(buf) % WordSize) + 1, Len(buf)) IN
    [val |-> FoldLeft(Compressed, val, Words(buf)),
     rem |-> Loaded(NoBytes, 0, rest),
     totalSize |-> totalSize]

oldRemSize(p) == p.totalSize % WordSize
needSize(p) == WordSize - oldRemSize(p)

(* Mutant of StaysIncomplete: off by one when buf just completes the word. *)
StaysIncompleteLate(p, buf) == oldRemSize(p) # 0 /\ needSize(p) >= Len(buf)

(* buf does not complete the word that earlier calls left incomplete.      *)
StaysIncomplete(p, buf) == oldRemSize(p) # 0 /\ needSize(p) > Len(buf)

rhash_add(p, buf) ==
    LET total == p.totalSize + Len(buf)
        completed == Loaded(p.rem, oldRemSize(p), SubSeq(buf, 1, needSize(p)))
        rest == SubSeq(buf, needSize(p) + 1, Len(buf))
    IN  CASE StaysIncomplete(p, buf) ->
                [p EXCEPT !.rem = Loaded(@, oldRemSize(p), buf), !.totalSize = total]
          [] oldRemSize(p) = 0 -> AddWords(p.val, total, buf)
          [] OTHER -> AddWords(Compressed(p.val, completed), total, rest)

(* The last word holds the bytes left over and, on top, the low byte of    *)
(* the number of bytes of the stream.                                      *)
rhash_result(p) ==
    Finished(Compressed(p.val, [p.rem EXCEPT ![WordSize - 1] = @ \cup LowByte(p.totalSize)]))

rhash_calc(key, buf) == rhash_result(rhash_add(rhash_init(key), buf))

=============================================================================
