------------------------------ MODULE MCEnqueue ------------------------------
(***************************************************************************)
(* A small instance of Enqueue for TLC.  Two of the three bodies ask for   *)
(* the same in two ways, with members in another order inside a member and *)
(* with a default written out or not; the third differs from them only in  *)
(* how deep a member is nested.                                            *)
(***************************************************************************)
EXTENDS Enqueue

Order == <<"max_retries", "payload", "priority", "type", "a", "b">>

SomeNames == ToSet(Order)

RankInOrder(name) == CHOOSE i \in DOMAIN Order : Order[i] = name

SomeTokens == {"null", "send_email", "3", "5"}

a == <<"a", Scalar("3")>>
b == <<"b", <<"array", <<Scalar("null"), <<"array", <<>> >> >> >> >>

Of(members) == <<"object", members>>

\* {"a": {"a": 3, "b": [null, []]}} in two ways, and {"a": {"a": 3}, "b": [null, []]}.
Within == Of(<< <<"a", Of(<<a, b>>)>> >>)
Swapped == Of(<< <<"a", Of(<<b, a>>)>> >>)
Beside == Of(<< <<"a", Of(<<a>>)>>, b >>)

SomePayloads == {Within, Swapped, Beside}

RECURSIVE WithParts(_)

WithParts(value) == {value} \cup UNION { WithParts(p) : p \in Parts(value) }

SomeValues == { Scalar(t) : t \in SomeTokens } \cup UNION { WithParts(p) : p \in SomePayloads }

RECURSIVE DepthOf(_)

DepthOf(value) ==
    IF value[1] = "scalar" THEN 0 ELSE 1 + Max({0} \cup { DepthOf(p) : p \in Parts(value) })

SomeBodies ==
    { [type |-> "send_email", payload |-> p, max_retries |-> "3",
       priority |-> IF p = Within THEN Absent ELSE "5"] : p \in SomePayloads }
=============================================================================
