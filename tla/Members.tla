-------------------------------- MODULE Members --------------------------------
(***************************************************************************)
(* The properties, methods and events of a control as a Python object      *)
(* shows them: what Describe tells, the members made of it by name, the    *)
(* descriptors a class declares beforehand, and which of them an attribute *)
(* access, an assignment or a call ends up at.                             *)
(*                                                                         *)
(* A description is one sequence of infos per kind; an index is a position *)
(* in it, 0 is no index.  An info also has what only the control knows:    *)
(* what a property holds, and what a method returns.  A descriptor knows   *)
(* its name, and its index and info when it was made from an info.  A      *)
(* signature tells how many arguments it wants at least, how many it has   *)
(* names for, and whether it takes more.                                   *)
(***************************************************************************)
EXTENDS Naturals, Sequences, FiniteSetsExt, Variants

CONSTANTS EventName(_)   \* _make_event_method_name: puts "On" before a name
                         \* that does not start with it

Kinds == {"property", "method", "event"}
NoInfo == [described |-> FALSE]   \* an info has described |-> TRUE
NoSignature == <<>>
Exactly(k) == [fewest |-> k, named |-> k, more |-> FALSE]

\* The infos in Describe's answer, by the name the client gives them.
ClientName(kind, info) == IF kind = "event" THEN EventName(info.name) ELSE info.name

-----------------------------------------------------------------------------
(* Descriptors. *)

PropertyOf(info, i) ==
  [kind |-> "property", name |-> ClientName("property", info), index |-> i,
   info |-> info, signature |-> NoSignature]

\* Arguments are described without defaults.
MethodOf(info, i) ==
  [kind |-> "method", name |-> ClientName("method", info), index |-> i,
   info |-> info, signature |-> Exactly(info.arguments)]

EventOf(info, i) ==
  [kind |-> "event", name |-> ClientName("event", info), index |-> i,
   info |-> info, signature |-> Exactly(info.arguments)]

\* One declared in a class; __set_name__ gives it the name of its attribute.
Declared(kind, name, signature) ==
  [kind |-> kind, name |-> name, index |-> 0, info |-> NoInfo, signature |-> signature]

-----------------------------------------------------------------------------
(* AxServeMembersManager. *)

\* Of several infos with one name the last one stays in the dictionary.
IndexNamed(d, kind, n) ==
  LET found == {i \in DOMAIN d[kind] : ClientName(kind, d[kind][i]) = n}
  IN  IF found = {} THEN 0 ELSE Max(found)

\* An AxServeMember: the descriptors of one name.
MemberNamed(d, n) ==
  LET at(kind) == IndexNamed(d, kind, n)
  IN  (IF at("property") = 0 THEN {}
       ELSE {PropertyOf(d.property[at("property")], at("property"))})
      \cup (IF at("method") = 0 THEN {}
            ELSE {MethodOf(d.method[at("method")], at("method"))})
      \cup (IF at("event") = 0 THEN {}
            ELSE {EventOf(d.event[at("event")], at("event"))})

HasMember(d, n) == MemberNamed(d, n) # {}

OfKind(member, kind) == {x \in member : x.kind = kind}
The(set) == CHOOSE x \in set : TRUE

\* _get_index of the three descriptors: its own, or that of the member of its
\* name, which must be of its kind.  The descriptor with the index, or an error.
ResolvedKindMethodFirst(member, kind) ==
  IF OfKind(member, "method") # {} THEN OfKind(member, "method") ELSE OfKind(member, kind)
ResolvedKind(member, kind) == OfKind(member, kind)

IndexOf(d, x) ==
  LET member == MemberNamed(d, x.name)
  IN  IF x.index # 0 THEN x
      ELSE IF ~HasMember(d, x.name) THEN Error("no such member")
      ELSE IF ResolvedKind(member, x.kind) = {} THEN Error("other kind")
      ELSE [x EXCEPT !.index = The(ResolvedKind(member, x.kind)).index]

PropertyIndex(d, x) == IndexOf(d, x)
MethodIndex(d, x) == IndexOf(d, x)
EventIndex(d, x) == IndexOf(d, x)

-----------------------------------------------------------------------------
(* AxServeMember and AxServeMemberType. *)

\* A method without arguments whose result has the property's type.
IsGetter(member) ==
  \E p \in OfKind(member, "property"), m \in OfKind(member, "method") :
    m.info.arguments = 0 /\ m.info.type = p.info.type

\* __get__: a getter gives way to its property; otherwise all that has the
\* name can be reached, directly or through an AxServeMemberType.
MemberGet(member) ==
  IF OfKind(member, "event") = {} /\ IsGetter(member)
  THEN OfKind(member, "property") ELSE member

\* __call__: the method if there is one, else the event's handlers.
MemberCall(member) ==
  IF OfKind(member, "method") # {} THEN The(OfKind(member, "method"))
  ELSE IF OfKind(member, "event") # {} THEN The(OfKind(member, "event"))
  ELSE Error("not implemented")

Only(member, kind) ==
  IF OfKind(member, kind) = {} THEN Error("not implemented") ELSE The(OfKind(member, kind))

\* __set__.
MemberSet(member) == Only(member, "property")

\* AxServeMemberType: where get and set, call, connect and disconnect end up;
\* they raise if the member has nothing of the kind.
ThroughMemberType(member, kind) == OfKind(member, kind)

-----------------------------------------------------------------------------
(* AxServeObject: c holds the descriptors the class declares, by name. *)

\* A declared property comes first, then the plain attributes of the object,
\* the declared methods and events, and last __getattr__.
GetAttribute(c, plain, d, n) ==
  IF n \in DOMAIN c /\ (c[n].kind = "property" \/ n \notin plain) THEN {c[n]}
  ELSE IF n \in plain THEN {}
  ELSE MemberGet(MemberNamed(d, n))

\* __getitem__, with every descriptor of the name; a class may declare its own.
GetItem(c, d, n) ==
  IF "__getitem__" \in DOMAIN c THEN {} ELSE MemberNamed(d, n)

\* __setattr__ looks among the described members first; any other name that
\* no property is declared for becomes a plain attribute.
SetAttribute(c, d, n) ==
  IF HasMember(d, n) THEN MemberSet(MemberNamed(d, n))
  ELSE IF n \in DOMAIN c /\ c[n].kind = "property" THEN c[n]
  ELSE Error("plain attribute")

\* _bind_args: how many arguments are sent for k given ones.
BindArgsGiven(x, k) == [count |-> k]
BindArgs(x, k) ==
  IF x.signature = NoSignature THEN [count |-> k]
  ELSE IF k < x.signature.fewest \/ (k > x.signature.named /\ ~x.signature.more)
       THEN Error("does not bind")
  ELSE [count |-> IF k > x.signature.named THEN k ELSE x.signature.named]

Readable(x) == ~x.info.described \/ x.info.readable \/ ~x.info.writable
Writable(x) == ~x.info.described \/ x.info.writable \/ ~x.info.readable
================================================================================
