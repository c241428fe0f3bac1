----------------------------- MODULE MCInvCodec -----------------------------
EXTENDS InvCodec

\* Hashes shrink to one byte; two values tell items apart.
MCHashLen == 1

\* Every Inv of at most two items over all kinds (decode sets count to the
\* number of items, and no other constructor exists).
MCInvValues ==
    {[count |-> Len(s), inventory |-> s] :
        s \in BoundedSeq({[kind |-> k, hash |-> <<b>>] : k \in Kinds, b \in {0, 255}}, 2)}

\* All payloads of up to six bytes over bytes that are small counts and
\* kinds (0, 1), an out-of-range kind (4) and the u16 VarInt prefix (253),
\* and two short payloads announcing large counts in the u32 and u64 forms.
MCInputs ==
    BoundedSeq({0, 1, 4, 253}, 6)
      \cup {<<254>> \o ToLe(2147483647, 4), <<255>> \o ToLe(1073741824, 8)}
=============================================================================
