------------------------------ MODULE JsonFields ------------------------------
(***************************************************************************)
(* How a structure of the REST API is written to and read from JSON: a     *)
(* structure is a function from its members to what to_json and from_json  *)
(* do with each.  The kinds are the overloads of field_to_json and         *)
(* field_from_json (framework/RESTAPI_utils.h).                            *)
(***************************************************************************)
EXTENDS Sequences, TLC

NoType == "none"

\* A member both directions handle: its kind, and the type it is made of.
Member(kind, of) == [kind |-> kind, of |-> of, written |-> TRUE, read |-> TRUE]

\* Numbers, booleans and strings.
Values(S) == [n \in S |-> Member("value", NoType)]

\* Vectors of strings or numbers: from_json clears them first.
Lists(S) == [n \in S |-> Member("list", NoType)]

\* Vectors of (tag, value) pairs: from_json appends to them.
Pairs(S) == [n \in S |-> Member("appended", NoType)]

\* Counted maps, which nothing reads.
Counts(S) == [n \in S |-> Member("list", NoType)]

\* A string that holds JSON and is written as an embedded document.
Documents(S) == [n \in S |-> Member("document", NoType)]

\* An enumeration, written by name.
Named(n, enum) == n :> Member("named", enum)

\* A structure, and a vector of structures (from_json appends to it).
One(n, t) == n :> Member("one", t)

Many(n, t) == n :> Member("many", t)

\* A name whose value to_json takes from elsewhere than the member.
Computed(S) == [n \in S |-> Member("computed", NoType)]

\* Members only to_json, only from_json, or neither of them mentions.
WrittenOnly(f) == [n \in DOMAIN f |-> [f[n] EXCEPT !.read = FALSE]]

ReadOnly(f) == [n \in DOMAIN f |-> [f[n] EXCEPT !.written = FALSE]]

Unsaid(S) == WrittenOnly(ReadOnly(Values(S)))

NoFields == Values({})
==============================================================================
