----------------------------- MODULE MCdigests ------------------------------
(* Bytes of two bits and words of four bytes: the length byte wraps at 4,  *)
(* the stream at 9 bytes has every cut of the first two words.  Every      *)
(* algorithm of at most 3 bits, which leave garbage in the high bits of a  *)
(* uintmax_t of 5, and some of 5 bits, which take init from three bytes.   *)
EXTENDS digests

(* Nothing is assumed of the rounds: they keep all words apart.            *)
MCKeyed(k) == <<k>>
MCCompressed(v, w) == Append(v, w)
MCFinished(v) == Append(v, "finished")

MCHashBytes == {{0}, {1}}

Five == {{0, 2, 4}, {0, 3}}
MCAlgorithms ==
    {a \in Algorithm :
        \/ a.bitWidth \in {1, 2, 3} /\ a.xorOut = {0}
        \/ a.bitWidth = 5 /\ a.poly \in Five /\ a.init \in {{}, {0, 3}, 0..4} /\ a.xorOut = 0..4}

=============================================================================
