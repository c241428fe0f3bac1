------------------------------ MODULE InvCodec ------------------------------
(***************************************************************************)
(* The Inv payload codec of protocol/payload/inv.rs: an Inv is a VarInt   *)
(* count followed by that many InvHash items, each a little-endian u32     *)
(* ObjectKind and a hash.  Encoding is a pure operator; Inv::decode is a   *)
(* state machine whose cursor `pos` walks an untrusted byte string one     *)
(* loop iteration at a time, so that what it does at each point where the *)
(* input can run out, or hold a value out of range, is a step of its own.  *)
(*                                                                         *)
(* VarInt, Hash and read_n_bytes live outside this source tree; they are   *)
(* modelled from the wire format of the spec (section 3).  A Hash is an    *)
(* opaque string of HashLen bytes: its content is copied, never examined.  *)
(***************************************************************************)
EXTENDS Integers, Sequences, SequencesExt

CONSTANTS
    HashLen,     \* bytes of a Hash on the wire (32 in the protocol)
    InvValues,   \* Inv values whose encodings are decoded
    Inputs       \* arbitrary byte strings a peer may send as an Inv payload

VARIABLES
    input,       \* the bytes under the Cursor
    sent,        \* the Inv that was encoded into input, or NoInv
    pos,         \* the Cursor position (1-based)
    count,       \* the decoded VarInt count
    reserved,    \* the capacity passed to Vec::with_capacity
    inventory,   \* the InvHash items pushed so far
    phase        \* "count", "items", or how decode ended

vars == <<input, sent, pos, count, reserved, inventory, phase>>

NoInv == [count |-> -1, inventory |-> <<>>]

-----------------------------------------------------------------------------
(* Bytes and integers                                                      *)

\* u32::from_le_bytes / u64::from_le_bytes: the first byte is least
\* significant.
RECURSIVE FromLe(_)
FromLe(s) == IF s = <<>> THEN 0 ELSE Head(s) + 256 * FromLe(Tail(s))

\* to_le_bytes into n bytes.
RECURSIVE ToLe(_, _)
ToLe(v, n) == IF n = 0 THEN <<>> ELSE <<v % 256>> \o ToLe(v \div 256, n - 1)

\* The little-endian value of s exceeds k < 256: some higher byte is set or
\* the lowest byte exceeds k.  It decides `value > k` for a u32 without
\* forming the u32, which may leave TLC's 31-bit integers.
LeExceeds(s, k) == s[1] > k \/ \E i \in 2 .. Len(s) : s[i] # 0

\* read_n_bytes: n bytes at the cursor, or UnexpectedEof when fewer remain.
HasN(s, p, n) == Len(s) - p + 1 >= n
Take(s, p, n) == SubSeq(s, p, p + n - 1)

\* VarInt::decode: a prefix byte below 0xFD is the value; 0xFD, 0xFE and
\* 0xFF announce a u16, u32 or u64 that follows.  Non-canonical forms are
\* accepted, as the spec's default-lenient policy says.
VarIntWidth(prefix) ==
    CASE prefix < 253 -> 0 [] prefix = 253 -> 2 [] prefix = 254 -> 4 [] OTHER -> 8
VarIntDecode(s, p) ==
    IF ~HasN(s, p, 1) \/ ~HasN(s, p + 1, VarIntWidth(s[p]))
    THEN [status |-> "UnexpectedEof"]
    ELSE [status |-> "none",
          val |-> IF s[p] < 253 THEN s[p] ELSE FromLe(Take(s, p + 1, VarIntWidth(s[p]))),
          next |-> p + 1 + VarIntWidth(s[p])]

\* VarInt::encode, canonical form.  Counts of 2^32 and more are outside
\* TLC's integers and never encoded here.
VarIntEncode(v) ==
    CASE v < 253 -> <<v>> [] v <= 65535 -> <<253>> \o ToLe(v, 2)
      [] OTHER -> <<254>> \o ToLe(v, 4)

-----------------------------------------------------------------------------
(* ObjectKind and InvHash                                                  *)

Kinds == {"Error", "Tx", "Block", "FilteredBlock"}
KindName == <<"Error", "Tx", "Block", "FilteredBlock">>   \* indexed by value + 1

\* Mutant of ObjectKindEncode: FilteredBlock written with Block's value.
ObjectKindEncodeSwapped(k) ==
    ToLe(CASE k = "Error" -> 0 [] k = "Tx" -> 1 [] k = "Block" -> 2
           [] k = "FilteredBlock" -> 2, 4)

\* ObjectKind::encode: the variant's value as a little-endian u32.
ObjectKindEncode(k) ==
    ToLe(CASE k = "Error" -> 0 [] k = "Tx" -> 1 [] k = "Block" -> 2
           [] k = "FilteredBlock" -> 3, 4)

\* ObjectKind::decode: read a u32; 0..3 name a variant, anything else
\* reaches `unreachable!()`, a panic.
ObjectKindDecode(s, p) ==
    IF ~HasN(s, p, 4) THEN [status |-> "UnexpectedEof"]
    ELSE IF LeExceeds(Take(s, p, 4), 3) THEN [status |-> "panic"]
    ELSE [status |-> "none", val |-> KindName[s[p] + 1], next |-> p + 4]

InvHashEncode(h) == ObjectKindEncode(h.kind) \o h.hash

\* InvHash::decode: the kind, then the hash.
InvHashDecode(s, p) ==
    LET k == ObjectKindDecode(s, p) IN
    IF k.status # "none" THEN k
    ELSE IF ~HasN(s, k.next, HashLen) THEN [status |-> "UnexpectedEof"]
    ELSE [status |-> "none",
          val |-> [kind |-> k.val, hash |-> Take(s, k.next, HashLen)],
          next |-> k.next + HashLen]

\* Inv::encode: the stored count, then every item in order.
InvEncode(inv) ==
    FoldLeft(LAMBDA acc, h : acc \o InvHashEncode(h), VarIntEncode(inv.count),
             inv.inventory)

-----------------------------------------------------------------------------
(* Inv::decode                                                             *)

Init ==
    /\ \/ \E v \in InvValues : input = InvEncode(v) /\ sent = v
       \/ input \in Inputs /\ sent = NoInv
    /\ pos = 1
    /\ count = 0
    /\ reserved = 0
    /\ inventory = <<>>
    /\ phase = "count"

\* Read the count and reserve that much capacity (lines 23-24).
DecodeCount ==
    /\ phase = "count"
    /\ LET c == VarIntDecode(input, pos) IN
       \/ /\ c.status = "none"
          /\ count' = c.val
          /\ reserved' = c.val
          /\ pos' = c.next
          /\ phase' = "items"
       \/ /\ c.status # "none"
          /\ phase' = c.status
          /\ UNCHANGED <<pos, count, reserved>>
    /\ UNCHANGED <<input, sent, inventory>>

\* Mutant of DecodeItem: the loop written `for _ in 0..=count.0`.
DecodeItemInclusive ==
    /\ phase = "items"
    /\ Len(inventory) <= count
    /\ LET h == InvHashDecode(input, pos) IN
       \/ /\ h.status = "none"
          /\ inventory' = Append(inventory, h.val)
          /\ pos' = h.next
          /\ UNCHANGED phase
       \/ /\ h.status # "none"
          /\ phase' = h.status
          /\ UNCHANGED <<inventory, pos>>
    /\ UNCHANGED <<input, sent, count, reserved>>

\* One iteration of the loop (lines 26-29): decode an InvHash and push it,
\* or return its error.
DecodeItem ==
    /\ phase = "items"
    /\ Len(inventory) < count
    /\ LET h == InvHashDecode(input, pos) IN
       \/ /\ h.status = "none"
          /\ inventory' = Append(inventory, h.val)
          /\ pos' = h.next
          /\ UNCHANGED phase
       \/ /\ h.status # "none"
          /\ phase' = h.status
          /\ UNCHANGED <<inventory, pos>>
    /\ UNCHANGED <<input, sent, count, reserved>>

\* The loop has run count times: Ok (line 31).
DecodeReturn ==
    /\ phase = "items"
    /\ Len(inventory) = count
    /\ phase' = "ok"
    /\ UNCHANGED <<input, sent, pos, count, reserved, inventory>>

Next == DecodeCount \/ DecodeItem \/ DecodeReturn

Spec == Init /\ [][Next]_vars

Finished == phase \in {"ok", "UnexpectedEof", "panic"}

-----------------------------------------------------------------------------
(* Reference: the wire format read as a whole (spec section 3), item i at *)
(* a fixed offset, an out-of-range kind an InvalidData error.              *)

ItemLen == 4 + HashLen
RefStart(s) == VarIntDecode(s, 1).next
RefItemAt(s, i) == RefStart(s) + (i - 1) * ItemLen
RefKindBad(s, i) ==
    HasN(s, RefItemAt(s, i), 4) /\ LeExceeds(Take(s, RefItemAt(s, i), 4), 3)
RefItemOk(s, i) == HasN(s, RefItemAt(s, i), ItemLen) /\ ~RefKindBad(s, i)
\* The first failing item can be at most one past the whole items present.
RefCandidates(s) ==
    LET c == VarIntDecode(s, 1).val
        whole == (Len(s) - RefStart(s) + 1) \div ItemLen
    IN 1 .. (IF c < whole + 1 THEN c ELSE whole + 1)
RefOutcome(s) ==
    IF VarIntDecode(s, 1).status # "none" THEN "UnexpectedEof"
    ELSE LET bad == {i \in RefCandidates(s) : ~RefItemOk(s, i)} IN
         IF bad = {} THEN "ok"
         ELSE IF RefKindBad(s, Min(bad)) THEN "InvalidData" ELSE "UnexpectedEof"
RefInventory(s) ==
    [i \in 1 .. VarIntDecode(s, 1).val |->
        [kind |-> KindName[FromLe(Take(s, RefItemAt(s, i), 4)) + 1],
         hash |-> Take(s, RefItemAt(s, i) + 4, HashLen)]]

-----------------------------------------------------------------------------
(* Properties                                                              *)

\* Round trip: decoding what Inv::encode wrote returns the same count and
\* items, in order, and consumes exactly the encoding.
RoundTrip ==
    (sent # NoInv /\ Finished) =>
        /\ phase = "ok"
        /\ count = sent.count
        /\ inventory = sent.inventory
        /\ pos = Len(input) + 1

\* Whenever Inv::decode returns, on any input, it returns what the
\* reference reading of the wire format gives: Ok with the same items and
\* cursor after the last one, or UnexpectedEof.
ReferenceAgreement ==
    phase \in {"ok", "UnexpectedEof"} =>
        /\ phase = RefOutcome(input)
        /\ phase = "ok" => /\ inventory = RefInventory(input)
                           /\ pos = RefItemAt(input, count + 1)

\* Inv::decode reports malformed input from the network as an io::Error
\* and never panics: an item whose kind is not one of the four
\* ObjectKinds is InvalidData (spec section 9, "Unreachable decoding").
\* ObjectKind::decode reaches unreachable!() instead (inv.rs:87).
DecodeNeverPanics == phase # "panic"

\* The capacity Inv::decode reserves before reading any item is bounded by
\* the items the payload could hold, so a short message cannot make the
\* reader allocate without bound.
ReservationBounded == reserved <= Len(input) \div ItemLen

=============================================================================
