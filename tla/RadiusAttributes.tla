------------------------- MODULE RadiusAttributes -------------------------
(***************************************************************************)
(* What editing a RADIUS packet means: the packet is a list of typed       *)
(* attributes.  An edit looks for the first attribute of a type, among the *)
(* first MaxAttributes of them, and touches nothing else.                  *)
(***************************************************************************)
EXTENDS Naturals, Sequences, SequencesExt

CONSTANTS Type, Value, MaxAttributes

VARIABLE list   \* sequence of [type, value]

Found(t) == {i \in 1..Len(list) : i <= MaxAttributes /\ list[i].type = t}

First(t) == CHOOSE i \in Found(t) : \A j \in Found(t) : i <= j

Append_(t, v) == list' = Append(list, [type |-> t, value |-> v])

Replace_(t, v) ==
    /\ Found(t) # {}
    /\ list' = [list EXCEPT ![First(t)].value = v]

Remove_(t) ==
    /\ Found(t) # {}
    /\ list' = RemoveAt(list, First(t))

Add_(l, t, v) ==
    /\ Found(l) # {}
    /\ list' = InsertAt(list, First(l) + 1, [type |-> t, value |-> v])

ListNext ==
    \E t \in Type :
        \/ Remove_(t)
        \/ \E v \in Value :
            \/ Append_(t, v)
            \/ Replace_(t, v)
            \/ \E l \in Type : Add_(l, t, v)

ListSpec == list \in Seq([type: Type, value: Value]) /\ [][ListNext]_list
=============================================================================
