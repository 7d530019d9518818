------------------------------- MODULE Contract -------------------------------
(***************************************************************************)
(* The check of a tokscale answer against the pinned contract of its kind  *)
(* (contracts.py), before a parser sees it.                                *)
(*                                                                         *)
(* The shape of the shipped contracts, with one path of each sort: a field *)
(* that holds an array ("entries"), a field of its members ("cost"), an    *)
(* array in each member ("clients") and a field of that array's members    *)
(* ("name").  The contract wants a float for the cost and a string for the *)
(* name, and the name may be optional.                                     *)
(***************************************************************************)
EXTENDS Naturals, Sequences, FiniteSets

CONSTANT MaxMembers  \* bound: the length of an array

ASSUME ContractAssumption == MaxMembers \in Nat

Absent == "absent"
Arrays(S) == UNION {[1 .. n -> S] : n \in 0 .. MaxMembers}

\* A field that should hold an array holds one of `kind` "array", or is null or absent.
Holder(S) ==
  [kind : {"array"}, members : Arrays(S)] \cup [kind : {"null", Absent}, members : {<<>>}]

Inner == [name : {"str", "null", Absent}]
Outer == [cost : {"float", "int", "str", Absent}, clients : Holder(Inner)]
Payload == [entries : Holder(Outer)]

VARIABLES payload,   \* the answer
          required,  \* the paths the contract requires
          verdict    \* "none", then "accepted" or "fatal"

hvars == <<payload, required, verdict>>

ContractInit ==
  /\ payload \in Payload
  /\ required \in {{"entries", "cost", "clients", "name"}, {"entries", "cost", "clients"}}
  /\ verdict = "none"

-----------------------------------------------------------------------------
Paths == {"entries", "cost", "clients", "name"}

Expected == [p \in Paths |->
  CASE p = "cost" -> {"float"} [] p = "name" -> {"str"} [] OTHER -> {"array"}]

\* collect_member(): the types a path has anywhere in one member of the outer array.
TypesIn(m, p) ==
  CASE p = "cost"    -> {m.cost} \ {Absent}
    [] p = "clients" -> {m.clients.kind} \ {Absent}
    [] p = "name"    -> {m.clients.members[i].name : i \in DOMAIN m.clients.members} \ {Absent}
    [] OTHER         -> {}

Members == payload.entries.members

\* _presence(): of a path, its types and whether all the members of the outer array
\* have it.  A path none of them has is not in the answer.
Types(p) ==
  IF p = "entries" THEN {payload.entries.kind} \ {Absent}
  ELSE UNION {TypesIn(Members[i], p) : i \in DOMAIN Members}

\* MUTANT: one member that has a path speaks for all.
EverywhereOfOne(p) == p = "entries" \/ Types(p) # {}

Everywhere(p) == p = "entries" \/ \A i \in DOMAIN Members : TypesIn(Members[i], p) # {}

IsArray(h) == h.kind = "array"

\* _empty_array_ancestor(): wherever the path could be, it is within an empty array.
EmptyArrayAncestor(p) ==
  /\ p # "entries" /\ IsArray(payload.entries)
  /\ \/ Members = <<>>
     \/ /\ p = "name"
        /\ \A i \in DOMAIN Members :
             IsArray(Members[i].clients) /\ Members[i].clients.members = <<>>

\* A whole-valued cost may come as an integer.
Unexpected(p) == Types(p) \ (Expected[p] \cup IF "float" \in Expected[p] THEN {"int"} ELSE {})

\* diff_contract(): a required path refuses the answer.
Fatal(p) ==
  /\ p \in required
  /\ \/ Types(p) = {} /\ ~EmptyArrayAncestor(p)
     \/ Types(p) # {} /\ ~Everywhere(p)
     \/ Unexpected(p) # {}

\* validate_payloads(): one fatal path is enough; unknown fields are tolerated.
Check ==
  /\ verdict = "none"
  /\ verdict' = IF \E p \in Paths : Fatal(p) THEN "fatal" ELSE "accepted"
  /\ UNCHANGED <<payload, required>>

ContractNext == Check

ContractSpec == ContractInit /\ [][ContractNext]_hvars

-----------------------------------------------------------------------------
(* Reference: the payload read member by member. *)

CostGood(m) == m.cost \in {"float", "int"}
NamesOf(m) == {m.clients.members[i].name : i \in DOMAIN m.clients.members}

\* The inner arrays have their names, read as the gathering over an outer member can
\* tell: either all of them are empty, or each has a name somewhere, and no name is of
\* another type.
NamesGood ==
  /\ \/ \A i \in DOMAIN Members : Members[i].clients.members = <<>>
     \/ \A i \in DOMAIN Members : NamesOf(Members[i]) \ {Absent} # {}
  /\ \A i \in DOMAIN Members : NamesOf(Members[i]) \subseteq {"str", Absent}

Good ==
  /\ IsArray(payload.entries)
  /\ \A i \in DOMAIN Members : CostGood(Members[i]) /\ IsArray(Members[i].clients)
  /\ "name" \in required => NamesGood

\* An answer is accepted exactly if it has its arrays, a cost that is a number in every
\* member of the outer one and, where names are required, good names.  Whatever is
\* gathered over all of them, no member of the outer array stands in for another; the
\* members of an inner array are not told apart, and that is all that is lost.
VerdictIsRight == verdict # "none" => (verdict = "accepted" <=> Good)

\* "A required field that is absent, missing from an array member [...] is fatal": what
\* is accepted has every required field in every member of whichever array.
MissingIsFatal ==
  verdict = "accepted" =>
    \A i \in DOMAIN Members :
      /\ "cost" \in required => Members[i].cost # Absent
      /\ "clients" \in required => Members[i].clients.kind # Absent
      /\ "name" \in required => Absent \notin NamesOf(Members[i])
=============================================================================
