---------------------------- MODULE GeneratedClient ----------------------------
(***************************************************************************)
(* The stub generator together with the client that its classes are for:   *)
(* a library is described twice, by win32com to the generator and by Qt to *)
(* the server, and the classes made from the one description have to find  *)
(* their members in the other by name.  A program imports the generated    *)
(* module, if it can be imported, and works on an object of its class; or  *)
(* it uses an object of class AxServeObject, which declares nothing.       *)
(***************************************************************************)
EXTENDS StubGenerator, MemberAccess

SpecialNames == {"__len__", "__getitem__", "__call__", "__iter__", "__aiter__"}

\* win32com and Qt describe one control: what the one finds in the library, the
\* other finds in the control, with an info for every number of arguments that
\* a method takes.
ASSUME AgreementAssumption ==
  \A l \in Libraries :
    LET Describes(kind, n) ==
          \E i \in DOMAIN l.description[kind] : ClientName(kind, l.description[kind][i]) = n
        Overloads(n) ==
          {l.description.method[i].arguments :
             i \in {i \in DOMAIN l.description.method : l.description.method[i].name = n}}
    IN  /\ \A kind \in Kinds : l.description[kind] \in Seq(Range(l.description[kind]))
        /\ \A n \in SpecialNames : Overloads(n) = {}
        /\ \A item \in Range(l.items) :
             IF item.sink
             THEN \A e \in Entries(item) :
                    \/ Describes("event", EventMethodName(e.name))
                    \/ IsSpecial(e) /\ e \notin Range(item.puts)
             ELSE /\ \A e \in Range(item.funcs) : Written(e) =>
                       /\ Describes("method", e.name)
                       /\ e.varargs \/ Overloads(PublicName(e.name)) = {}
                            \/ Len(NamedArgs(e)) \in Overloads(PublicName(e.name))
                  /\ \A e \in Range(item.gets) : Describes("property", e.name) \/ IsSpecial(e)
                  /\ \A e \in Range(item.puts) : Describes("property", e.name)

\* What the properties of a control hold before they are assigned.
ASSUME HoldsAssumption ==
  \A l \in Libraries : \A i \in DOMAIN l.description.property :
    IsTree(l.description.property[i].holds, QVariantNodes)

gcVars == <<genVars, accessVars>>

NothingDeclared == [n \in {} |-> NoInfo]

ProgramInit ==
  /\ GenInit
  /\ asyncio = isAsync
  /\ description = lib.description
  /\ declared = NothingDeclared
  /\ AccessInit

Generate == GenNext /\ UNCHANGED accessVars

-----------------------------------------------------------------------------
(* Importing the module: classes are executed, decorators make descriptors. *)

\* decorator.property, method and event; a setter is one more property.
DescriptorOf(def) ==
  IF def.kind \in {"property", "setter"}
  THEN Declared("property", def.name, NoSignature)
  ELSE Declared(def.kind, def.name, def.signature)

IsClass(n) == \E k \in DOMAIN classes : classes[k].name = n
ClassNamed(n) == CHOOSE k \in DOMAIN classes : classes[k].name = n

NamesIn(k) == {d.name : d \in Range(classes[k].body)}

\* A later definition of a body replaces an earlier one.
AttributeIn(k, n) ==
  DescriptorOf(classes[k].body[Max({j \in DOMAIN classes[k].body : classes[k].body[j].name = n})])

\* A class hides its bases, and a base those to the right of it.
BasesWith(k, n) ==
  {i \in DOMAIN classes[k].bases :
     IsClass(classes[k].bases[i]) /\ n \in NamesIn(ClassNamed(classes[k].bases[i]))}
Holder(k, n) ==
  IF n \in NamesIn(k) THEN k ELSE ClassNamed(classes[k].bases[Min(BasesWith(k, n))])

Attributes(k) ==
  [n \in {n \in UNION {NamesIn(j) : j \in DOMAIN classes} :
            n \in NamesIn(k) \/ BasesWith(k, n) # {}} |-> AttributeIn(Holder(k, n), n)]

Importable == at = "done" /\ ~isBase /\ \A k \in DOMAIN classes : UnboundIn(k) = {}

UseClass ==
  /\ Importable
  /\ lib.clsid \in {classes[k].name : k \in DOMAIN classes}
  /\ declared' = Attributes(ClassNamed(lib.clsid))
  /\ at' = "used"
  /\ UNCHANGED <<choiceVars, spec, imports, used, items, part, entry, body, propNames, classes>>
  /\ UNCHANGED <<asyncio, description, serverVars, userVars>>

UsePlainObject ==
  /\ at \in {"done", "failed"}
  /\ at' = "used"
  /\ UNCHANGED <<choiceVars, spec, imports, used, items, part, entry, body, propNames, classes>>
  /\ UNCHANGED accessVars

Access == at = "used" /\ AccessNext /\ UNCHANGED genVars

ProgramNext == Generate \/ UseClass \/ UsePlainObject \/ Access

ProgramSpec == ProgramInit /\ [][ProgramNext]_gcVars

-----------------------------------------------------------------------------

\* A member declared by a generated class is found in the description, with
\* the same kind, unless the generator gave it another name than the server
\* does: that of a special method, or one that is no keyword of Python.
DeclaredMembersResolve ==
  \A f \in refused :
    f.declared /\ f.reason \in {"no such member", "other kind"} =>
      \/ f.name \in SpecialNames
      \/ \E item \in Range(lib.items) : \E e \in Entries(item) :
           PublicName(e.name) = f.name /\ e.name # f.name
================================================================================
