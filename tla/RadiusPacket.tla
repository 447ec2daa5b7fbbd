---------------------------- MODULE RadiusPacket ----------------------------
(***************************************************************************)
(* A RADIUS packet as the proxy keeps it: the bytes of its attributes and  *)
(* the index Attrs_ of where they are.  Every edit is a move of bytes; an  *)
(* edit that moves an attribute must rebuild the index.  The header is 20  *)
(* bytes long and is left out, with the digests over the packet: Size_ is  *)
(* 20 more than the length of attributes.                                  *)
(***************************************************************************)
EXTENDS Naturals, Sequences

CONSTANTS
    Type,           \* types of attributes
    Value,          \* their values, sequences of bytes
    Packet,         \* packets that arrive, as sequences of [type, value]
    ByteSize,       \* 256
    Word,           \* 2^32: the length of an attribute is an unsigned int
    MaxAttributes,  \* 25: ParseRadius looks no further
    MaxBytes        \* bound of the model

\* Values fit the length byte, as do those of the code's callers.
ASSUME PacketAssumption ==
    /\ Type \subseteq 0..ByteSize - 1 /\ Value \subseteq Seq(0..ByteSize - 1)
    /\ \A v \in Value : Len(v) + 2 < ByteSize
    /\ Packet \subseteq Seq([type: Type, value: Value])
    /\ ByteSize \in Nat /\ Word \in Nat /\ ByteSize <= Word
    /\ MaxAttributes \in Nat

VARIABLES
    attributes,  \* P_.attributes, the bytes in use
    Attrs_       \* the index: [type, pos, len], pos counted from 0

pktVars == <<attributes, Attrs_>>

Encoded(t, v) == <<t, (Len(v) + 2) % ByteSize>> \o v

EncodedPacket(p) ==
    LET E[i \in 0..Len(p)] ==
            IF i = 0 THEN <<>> ELSE E[i - 1] \o Encoded(p[i].type, p[i].value)
    IN  E[Len(p)]

\* ParseRadius: what the index is after it, in success and in failure.  A
\* round of its loop adds an attribute and goes on to the next one, or ends.
ParseRadius(b) ==
    LET Size == Len(b)
        Attr(pos) == [type |-> b[pos + 1], pos |-> pos + 2,
                      len |-> (b[pos + 2] + Word - 2) % Word]
        Round[s \in [pos: Nat, Attrs: Seq([type: Nat, pos: Nat, len: Nat])]] ==
            IF s.pos >= Size THEN s
            ELSE IF (s.pos + Attr(s.pos).len) % Word > Size THEN [s EXCEPT !.pos = Size]
            ELSE [pos   |-> IF b[s.pos + 2] = 0 THEN Size ELSE s.pos + b[s.pos + 2],
                  Attrs |-> Append(s.Attrs, Attr(s.pos))]
        Loop[x \in 0..MaxAttributes] ==
            IF x = 0 THEN [pos |-> 0, Attrs |-> <<>>] ELSE Round[Loop[x - 1]]
    IN  Loop[MaxAttributes].Attrs

PktInit ==
    \E p \in Packet :
        /\ attributes = EncodedPacket(p)
        /\ Attrs_ = ParseRadius(attributes)

\* Mutant: the index is not rebuilt.
ReParseMutant == Attrs_' = Attrs_

\* The length of the packet is set and the index rebuilt.
ReParse == Attrs_' = ParseRadius(attributes')

\* The loops over Attrs_ stop at the first attribute of the type.
Indices(t) == {i \in 1..Len(Attrs_) : Attrs_[i].type = t}

HasAttribute(t) == Indices(t) # {}

\* Mutant: the loop goes on to the last one.
AttrOfMutant(t) == Attrs_[CHOOSE i \in Indices(t) : \A j \in Indices(t) : j <= i]

AttrOf(t) == Attrs_[CHOOSE i \in Indices(t) : \A j \in Indices(t) : i <= j]

Upto(n) == SubSeq(attributes, 1, n)

After(n) == SubSeq(attributes, n + 1, Len(attributes))

----------------------------------------------------------------------------
(* The edits. *)

AppendAttribute(t, v) ==
    /\ attributes' = attributes \o Encoded(t, v)
    /\ ReParse

\* A value of another length moves what follows; one of the same length, as
\* every integer has, is written in place and the index left alone.
ReplaceAttribute(t, v) ==
    /\ HasAttribute(t)
    /\ LET a == AttrOf(t)
       IN  /\ attributes' = Upto(a.pos - 1) \o <<Len(v) + 2>> \o v
                             \o After(a.pos + a.len)
           /\ IF a.len = Len(v) THEN UNCHANGED Attrs_ ELSE ReParse

RemoveAttribute(t) ==
    /\ HasAttribute(t)
    /\ LET a == AttrOf(t) IN attributes' = Upto(a.pos - 2) \o After(a.pos + a.len)
    /\ ReParse

\* AddAttribute: behind the first attribute of type l.
AddAttribute(l, t, v) ==
    /\ HasAttribute(l)
    /\ LET a == AttrOf(l)
       IN  attributes' = Upto(a.pos + a.len) \o Encoded(t, v) \o After(a.pos + a.len)
    /\ ReParse

ReplaceOrAdd(t, v) ==
    \/ ReplaceAttribute(t, v)
    \/ ~HasAttribute(t) /\ AppendAttribute(t, v)

\* Mutant: the first attribute of the type, empty or not.
ExtractMutant(t) ==
    IF HasAttribute(t)
    THEN LET a == AttrOf(t) IN SubSeq(attributes, a.pos + 1, a.pos + a.len)
    ELSE <<>>

\* The Extract functions: the first value of the type that is
\* not empty, the empty string when there is none.
Extract(t) ==
    LET I == {i \in Indices(t) : Attrs_[i].len > 0}
    IN  IF I = {} THEN <<>>
        ELSE LET a == Attrs_[CHOOSE i \in I : \A j \in I : i <= j]
             IN  SubSeq(attributes, a.pos + 1, a.pos + a.len)

Room(v) == Len(attributes) + 2 + Len(v) <= MaxBytes

PktNext ==
    \E t \in Type :
        \/ RemoveAttribute(t)
        \/ \E v \in Value :
            /\ Room(v)
            /\ \/ AppendAttribute(t, v)
               \/ ReplaceOrAdd(t, v)
               \/ \E l \in Type : AddAttribute(l, t, v)

PktSpec == PktInit /\ [][PktNext]_pktVars

----------------------------------------------------------------------------
(* Properties. *)

\* The list of attributes that bytes stand for, all of them: as many
\* rounds as there are bytes go over them all.
Decode(b) ==
    LET Size == Len(b)
        Round[s \in [pos: Nat, list: Seq([type: Nat, value: Seq(Nat)])]] ==
            IF s.pos = Size THEN s
            ELSE LET next == s.pos + b[s.pos + 2]
                 IN  [pos  |-> next,
                      list |-> Append(s.list, [type  |-> b[s.pos + 1],
                                               value |-> SubSeq(b, s.pos + 3, next)])]
        Loop[x \in 0..Size] ==
            IF x = 0 THEN [pos |-> 0, list |-> <<>>] ELSE Round[Loop[x - 1]]
    IN  Loop[Size].list

Decoded == Decode(attributes)

List == INSTANCE RadiusAttributes WITH list <- Decoded

\* The packet implements the list of attributes: an edit of the bytes through
\* the index edits one attribute and cuts, joins or shifts no other one.
ImplementsAttributeList == List!ListSpec

\* The index describes the bytes: a later edit or extraction never works
\* with the positions that an earlier edit moved.
IndexMatchesBytes ==
    Attrs_ = ParseRadius(attributes)

\* What is extracted is the value the list has for the type, as far as
\* ParseRadius looks.
ExtractsFromList ==
    \A t \in Type :
        LET F == {i \in 1..Len(Decoded) :
                      i <= MaxAttributes /\ Decoded[i].type = t /\ Decoded[i].value # <<>>}
        IN  Extract(t) = IF F = {} THEN <<>>
                         ELSE Decoded[CHOOSE i \in F : \A j \in F : i <= j].value

\* The index of a RADIUS packet can be relied on by every edit and by
\* the proxy's extraction of the destination.
IndexIsTrue == IndexMatchesBytes /\ ExtractsFromList
=============================================================================
