-------------------------------- MODULE Variants --------------------------------
(***************************************************************************)
(* The four conversions of a value that is assigned or read: from Python   *)
(* to a Variant, the message with a oneof, and on to the QVariant that a   *)
(* control takes; and back.                                                *)
(*                                                                         *)
(* A value is a function from places to nodes.  A place is the sequence of *)
(* positions that leads to an element, <<>> that of the whole; a dict is a *)
(* list of its values here, as keys are kept.  A node has a type and a     *)
(* datum: the number of items of a list or dict, an int itself, anything   *)
(* else by a number, and 0 of what has none.  A conversion visits all      *)
(* nodes and converts each by its type, as the tables say.  Numbers are    *)
(* scaled down: an int32 reaches up to MaxInt, a uint32 up to twice that   *)
(* and one.                                                                *)
(***************************************************************************)
EXTENDS Integers, Sequences

CONSTANTS MaxInt,     \* stands for 2^31 - 1
          OtherTypes  \* types of QVariants that the server does not convert

ASSUME MaxIntAssumption == MaxInt \in Nat \ {0}

\* An exception that is raised.
Error(reason) == [error |-> reason]
Fails(x) == "error" \in DOMAIN x

Places == Seq(Nat \ {0})

IsTree(v, nodes) ==
  <<>> \in DOMAIN v /\ DOMAIN v \subseteq Places /\ v \in [DOMAIN v -> nodes]

Single(node) == [place \in {<<>>} |-> node]

Node(type, datum) == [type |-> type, datum |-> datum]
Nothing == Node("none", 0)
NotSet == Node("unset", 0)

Int32 == (-MaxInt - 1)..MaxInt
UInt32 == 0..(2 * MaxInt + 1)

\* The whole that was converted, or the exception for a node.  Of several the
\* code raises the first; nothing that follows tells them apart.
Converted(tree) ==
  LET failed == {p \in DOMAIN tree : Fails(tree[p])}
  IN  IF failed = {} THEN [whole |-> tree] ELSE tree[CHOOSE p \in failed : TRUE]

-----------------------------------------------------------------------------
(* active_pb2_conversion.py. *)

\* The member of the oneof for a type, None apart, and the type for a member.
MemberFor == [bool |-> "bool_value", str |-> "string_value", int |-> "int_value",
              float |-> "double_value", list |-> "list_value", dict |-> "map_value"]

TypeFor == [unset |-> "none", bool_value |-> "bool", string_value |-> "str",
            int_value |-> "int", uint_value |-> "int", double_value |-> "float",
            list_value |-> "list", map_value |-> "dict"]

\* ValueError and TypeError.
OutOfRange == Error("out of range")
UnexpectedType == Error("unexpected type")
ConversionErrors == {OutOfRange.error, UnexpectedType.error}

\* The oneof of a list or dict is set with its first item.
IsEmpty(x) == x.type \in {"list", "dict"} /\ x.datum = 0

\* An int always goes into int_value, whose range protobuf checks.
ToVariant(x) ==
  IF x.type = "none" \/ IsEmpty(x) THEN NotSet
  ELSE IF x.type \notin DOMAIN MemberFor THEN UnexpectedType
  ELSE IF x.type = "int" /\ x.datum \notin Int32 THEN OutOfRange
  ELSE Node(MemberFor[x.type], x.datum)

FromVariant(w) == Node(TypeFor[w.type], w.datum)

ValueToVariant(v) == Converted([p \in DOMAIN v |-> ToVariant(v[p])])
ValueFromVariant(w) == [p \in DOMAIN w |-> FromVariant(w[p])]

-----------------------------------------------------------------------------
(* variant_conversion.cc. *)

\* The QMetaType for a member of the oneof (there is no other that its throw
\* could be for), and the member for a type; an invalid QVariant is null.
MetaTypeForMap == [unset |-> "Invalid", bool_value |-> "Bool", string_value |-> "QString",
                   int_value |-> "Int", uint_value |-> "UInt", double_value |-> "Double",
                   list_value |-> "QVariantList", map_value |-> "QVariantMap"]
MetaTypeFor == [unset |-> "Invalid", bool_value |-> "Bool", string_value |-> "QString",
                int_value |-> "Int", uint_value |-> "UInt", double_value |-> "Double",
                list_value |-> "QVariantList", map_value |-> "QVariantHash"]

ProtoMemberFor == [Invalid |-> "unset", Bool |-> "bool_value", QString |-> "string_value",
                   Int |-> "int_value", UInt |-> "uint_value", Double |-> "double_value",
                   QVariantList |-> "list_value", QVariantHash |-> "map_value"]

ASSUME OtherTypesAssumption == OtherTypes \cap DOMAIN ProtoMemberFor = {}

\* std::runtime_error, for any other type.
CannotConvert == Error("cannot convert")

ToQVariant(w) == Node(MetaTypeFor[w.type], w.datum)

ToProtoVariant(q) ==
  IF q.type \in DOMAIN ProtoMemberFor THEN Node(ProtoMemberFor[q.type], q.datum)
  ELSE CannotConvert

ProtoVariantToQVariant(w) == [p \in DOMAIN w |-> ToQVariant(w[p])]
QVariantToProtoVariant(q) == Converted([p \in DOMAIN q |-> ToProtoVariant(q[p])])

-----------------------------------------------------------------------------
(* The nodes there are, and what a property that keeps its value should    *)
(* give back: the value, with None for the empty lists and dicts in it.    *)

Ranged(node) ==
  /\ node.type \in {"none", "unset", "Invalid"} => node.datum = 0
  /\ node.type \in {"int_value", "Int"} => node.datum \in Int32
  /\ node.type \in {"uint_value", "UInt"} => node.datum \in UInt32

\* Any other Python type is an object.
PythonNodes ==
  {x \in [type : {"none", "object"} \cup DOMAIN MemberFor, datum : Int] : Ranged(x)}
VariantNodes == {w \in [type : DOMAIN TypeFor, datum : Int] : Ranged(w)}
QVariantNodes ==
  {q \in [type : OtherTypes \cup DOMAIN ProtoMemberFor, datum : Int] : Ranged(q)}

AsRead(v) == [p \in DOMAIN v |-> IF IsEmpty(v[p]) THEN Nothing ELSE v[p]]
================================================================================
