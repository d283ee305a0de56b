------------------------------- MODULE MCCodecs -------------------------------
(* Codecs with small widths.  The widths of keys, signatures and digests are *)
(* different from each other and from every sum of them that is read.        *)
EXTENDS Codecs

MCWidth == [digest |-> 5, point |-> 3, compact |-> 6,
            mldsa44 |-> 4, mldsa65 |-> 7, mldsa87 |-> 9,
            detached44 |-> 6, detached65 |-> 6, detached87 |-> 7]

MCKinds == DOMAIN Root
MCAmounts == -MaxAmount .. MaxAmount
MCCodes == {<<1>>, <<2, 1>>}
=============================================================================
