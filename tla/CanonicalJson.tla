---------------------------- MODULE CanonicalJson ----------------------------
(***************************************************************************)
(* The request hash of createJob: the body that the validator returns,     *)
(* written as canonical text.  Only this text decides whether a repeated   *)
(* request is the same (SHA-256 is taken to be injective, and what         *)
(* JSON.stringify makes of a name or a scalar to be one token of its own). *)
(*                                                                         *)
(* A JSON value is <<"scalar", token>>, <<"array", sequence of values>> or *)
(* <<"object", sequence of <<name, value>> in the order of Object.entries>>*)
(* without a name twice.  A text is a sequence of tokens.                  *)
(***************************************************************************)
EXTENDS Naturals, Sequences, SequencesExt

CONSTANTS
    Name,      \* names of members
    Token,     \* texts of scalars
    Value,     \* the values that occur in payloads, their parts included
    Depth(_),  \* how deep a value is nested
    Rank(_),   \* the position of a name in the order of strings
    Payload,   \* the payloads requests have: objects with at least one member
    Types,     \* job types
    Numbers,   \* values of max_retries and priority
    Absent     \* an optional member that is not there

Comma == ","

Punctuation == {"[", "]", "{", "}", ":", Comma}

Scalar(token) == <<"scalar", token>>

Object == { o \in {"object"} \X Seq(Name \X Value) :
              \A i, j \in DOMAIN o[2] : i # j => o[2][i][1] # o[2][j][1] }

\* A value whose parts, if it has any, are values.
Json == ({"scalar"} \X Token) \cup ({"array"} \X Seq(Value)) \cup Object

Parts(value) ==
    CASE value[1] = "array"  -> ToSet(value[2])
      [] value[1] = "object" -> { m[2] : m \in ToSet(value[2]) }
      [] OTHER -> {}

ASSUME JsonAssumption ==
    /\ (Name \cup Token) \cap Punctuation = {}
    /\ \A m \in Name : Rank(m) \in Nat
    /\ \A m, n \in Name : Rank(m) = Rank(n) => m = n
    /\ Value \subseteq Json
    /\ \A v \in Value : Depth(v) \in Nat /\ \A p \in Parts(v) : Depth(p) < Depth(v)
    /\ Payload \subseteq Value
    /\ { Scalar(t) : t \in Types \cup Numbers \cup {"3", "5"} } \subseteq Value
    /\ {"type", "payload", "max_retries", "priority"} \subseteq Name

\* What a client may send, as far as createJobSchema accepts it.
RequestBody == [type: Types, payload: Payload, max_retries: Numbers \cup {Absent},
                priority: Numbers \cup {Absent}]

Effective(number, default) == IF number = Absent THEN default ELSE number

\* createJobSchema.parse: the members it knows, in its order, with defaults.
Parsed(body) ==
    <<"object", << <<"type", Scalar(body.type)>>,
                   <<"payload", body.payload>>,
                   <<"max_retries", Scalar(Effective(body.max_retries, "3"))>>,
                   <<"priority", Scalar(Effective(body.priority, "5"))>> >> >>

-----------------------------------------------------------------------------
\* Bug variant: members in the order they were sent.
SortedNot(members) == members

\* .sort(([a], [b]) => ...): no two members have the same name.
Sorted(members) ==
    CHOOSE s \in [DOMAIN members -> ToSet(members)] :
        /\ ToSet(s) = ToSet(members)
        /\ \A i, j \in DOMAIN s : i < j => Rank(s[i][1]) < Rank(s[j][1])

\* .join(',')
Joined(texts) ==
    LET from[i \in 1 .. Len(texts) + 1] ==
          IF i > Len(texts) THEN <<>>
          ELSE (IF i = 1 THEN texts[i] ELSE <<Comma>> \o texts[i]) \o from[i + 1]
    IN  from[1]

\* The body of canonical; text is what its recursive calls return.
Written(value, text) ==
    CASE value[1] = "array" ->
            <<"[">> \o Joined([i \in DOMAIN value[2] |-> text[value[2][i]]]) \o <<"]">>
      [] value[1] = "object" ->
            LET members == Sorted(value[2])
            IN  <<"{">> \o Joined([i \in DOMAIN members |->
                                     <<members[i][1], ":">> \o text[members[i][2]]])
                \o <<"}">>
      [] OTHER -> << value[2] >>

canonical[value \in Value] == Written(value, canonical)

\* Bug variant: JSON.stringify(body, Object.keys(body).sort()), which leaves out
\* the members of the payload, whose names are not on that list.
RequestHashTop(body) ==
    <<body.type, Effective(body.max_retries, "3"), Effective(body.priority, "5")>>

RequestHash(body) == Written(Parsed(body), canonical)

-----------------------------------------------------------------------------
\* What a value means: an object is a set of members, an array a sequence.
Meant(value, meaning) ==
    CASE value[1] = "array" ->
            <<"array", [i \in DOMAIN value[2] |-> meaning[value[2][i]]]>>
      [] value[1] = "object" ->
            <<"object", { <<m[1], meaning[m[2]]>> : m \in ToSet(value[2]) }>>
      [] OTHER -> value

Meaning[value \in Value] == Meant(value, Meaning)

\* What a request asks for.
Asked(body) ==
    <<body.type, Meaning[body.payload], Effective(body.max_retries, "3"),
      Effective(body.priority, "5")>>

=============================================================================
