------------------------------ MODULE StubGenerator ------------------------------
(***************************************************************************)
(* The generator of Python classes from a type library.  It looks up the   *)
(* newest registered version of the library, takes the items it holds      *)
(* (dispatch interfaces, event sources, the coclass), and writes a class   *)
(* for each: a function definition for every entry of mapFuncs, propMap,   *)
(* propMapGet and propMapPut, decorated for the client's descriptors.      *)
(*                                                                         *)
(* win32com builds the items and is external.  An item holds the sequences *)
(* of entries of the four maps, whether it is a source of events ("sink"), *)
(* and what interfaces and sources a coclass consists of.  An entry has a  *)
(* name, a memid ("value", "newenum" or "other"), the default of each      *)
(* argument ("none", "constant", "time"), whether the last one is variable,*)
(* the class its result names, if any, whether it describes a function,    *)
(* and whether it is skipped (restricted, hidden, no dispatch).            *)
(***************************************************************************)
EXTENDS Naturals, Sequences, SequencesExt

CONSTANTS Libraries,          \* what may be installed
          PublicName(_),      \* _MakePublicAttributeName: other names for keywords
          EventMethodName(_), \* _MakeEventMethodName: puts "On" in front
          Lower(_)            \* str.lower

\* The maps of an item and its parts are sequences.  Only a coclass has parts,
\* which are no coclasses, and an item is known by its name.
ASSUME LibraryAssumption ==
  \A l \in Libraries :
    /\ l.items \in Seq(Range(l.items))
    /\ \A i, j \in DOMAIN l.items : l.items[i].name = l.items[j].name => i = j
    /\ \A item \in Range(l.items) :
         /\ \A map \in {"funcs", "props", "gets", "puts", "interfaces", "sources"} :
              item[map] \in Seq(Range(item[map]))
         /\ \A n \in Range(item.interfaces) \cup Range(item.sources) :
              /\ item.coclass
              /\ \A other \in Range(l.items) : other.name = n => ~other.coclass

VARIABLES
  lib, isAsync, isBase,   \* the library and the generator's arguments
  at,                     \* how far the generator is; "failed" if it raised
  spec,                   \* the registered version it chose
  imports,                \* names the module imports
  used,                   \* names whose use was noticed, the _used_ flags
  items,                  \* items left, the first one being written
  part, entry,            \* map and position of the entry to be written
  body, propNames,        \* class body so far, and prop_names
  classes                 \* classes written

genVars == <<lib, isAsync, isBase, at, spec, imports, used, items, part, entry,
             body, propNames, classes>>
choiceVars == <<lib, isAsync, isBase>>

GenInit ==
  /\ lib \in Libraries /\ isAsync \in BOOLEAN /\ isBase \in BOOLEAN
  /\ at = "imports" /\ spec = <<>> /\ imports = {} /\ used = {} /\ items = <<>>
  /\ part = "funcs" /\ entry = 1 /\ body = <<>> /\ propNames = {}
  /\ classes = <<>>

-----------------------------------------------------------------------------
(* Versions of a library, from the registry: the sequence lib.specs.  The  *)
(* parts of a version are strings, compared as such: 10 comes before 9.    *)

NoMinor == 100   \* a version without minor part; parts are below 100

StringBefore(a, b) ==
  CASE a < 10 /\ b >= 10 -> a <= b \div 10
    [] a >= 10 /\ b < 10 -> a \div 10 < b
    [] OTHER -> a < b

\* sys.maxsize, which stands for no minor part, does not compare with a string.
Incomparable(s, t) == s.major = t.major /\ (s.minor = NoMinor) # (t.minor = NoMinor)

Older(s, t) ==
  \/ StringBefore(s.major, t.major)
  \/ s.major = t.major /\ StringBefore(s.minor, t.minor)

\* Of the latest version, the neutral language if it is there, else the first.
LatestSpecs(specs) == SelectSeq(specs, LAMBDA s : ~\E i \in DOMAIN specs : Older(s, specs[i]))

LatestSpec(specs) ==
  LET latest == LatestSpecs(specs)
      neutral == SelectSeq(latest, LAMBDA s : s.lcid = 0)
  IN  IF neutral # <<>> THEN neutral[1] ELSE latest[1]

\* For the id of a library all its versions; for that of a class the version
\* the class asks for.
SpecsFor(l) ==
  IF l.version = <<>> THEN l.specs
  ELSE SelectSeq(l.specs, LAMBDA s : s.major = l.version[1]
                                       /\ (l.version[2] = NoMinor \/ s.minor = l.version[2]))

Comparable(specs) == \A i, j \in DOMAIN specs : ~Incomparable(specs[i], specs[j])

-----------------------------------------------------------------------------
(* MakeMethodFunctionDef. *)

\* The last argument may stand for *args; ast gives the defaults of the others
\* to the last of them.
NamedArgs(e) == IF e.varargs THEN Front(e.args) ELSE e.args
Parameters(e) ==
  LET defaults == SelectSeq(NamedArgs(e), LAMBDA a : a # "none")
  IN  [fewest |-> Len(NamedArgs(e)) - Len(defaults), named |-> Len(NamedArgs(e)),
       more |-> e.varargs]
NoParameters == [fewest |-> 0, named |-> 0, more |-> FALSE]
OneParameter == [fewest |-> 1, named |-> 1, more |-> FALSE]

DefaultNames(e) == IF "time" \in Range(NamedArgs(e)) THEN {"Time"} ELSE {}

IterNames(name) ==
  CASE name = "__iter__"  -> {"Iterator"}
    [] name = "__aiter__" -> {"AsyncIterator"}
    [] OTHER -> {}

ResultNames(e) == IF e.result = "" THEN {} ELSE {e.result}

\* The names a definition needs when its class is executed.
DecoratorNames(name, kind) ==
  IF ~isBase THEN {"decorator"} ELSE IF kind = "setter" THEN {name} ELSE {}

FunctionDef(name, kind, e, signature, names) ==
  [name |-> name, kind |-> kind, signature |-> signature,
   names |-> names \cup DecoratorNames(name, kind) \cup IterNames(name) \cup ResultNames(e)]

Getter(e) == FunctionDef(PublicName(e.name), "property", e, NoParameters, {})
Setter(e) == FunctionDef(PublicName(e.name), "setter", e, OneParameter, {})
EventUnprefixed(e) == FunctionDef(PublicName(e.name), "event", e, Parameters(e), DefaultNames(e))
Event(e) == FunctionDef(EventMethodName(e.name), "event", e, Parameters(e), DefaultNames(e))
Method(e) == FunctionDef(PublicName(e.name), "method", e, Parameters(e), DefaultNames(e))

\* Under a special name, neither the sink nor the base flag is passed on.
NamedMethod(e, name) ==
  [name |-> name, kind |-> "method", signature |-> Parameters(e),
   names |-> DefaultNames(e) \cup {"decorator"} \cup IterNames(name) \cup ResultNames(e)]

MayBeGetter(e) == Len(e.args) = 0
MayBeSetter(e) == Len(e.args) = 1

LowerName(e) ==
  CASE e.memid = "value"   -> "value"
    [] e.memid = "newenum" -> "_newenum"
    [] OTHER -> Lower(e.name)

IsSpecial(e) == LowerName(e) \in {"count", "item", "value", "_newenum"}

SpecialName(e) ==
  CASE LowerName(e) = "count"    -> "__len__"
    [] LowerName(e) = "item"     -> "__getitem__"
    [] LowerName(e) = "value"    -> "__call__"
    [] LowerName(e) = "_newenum" -> IF isAsync THEN "__aiter__" ELSE "__iter__"
    [] OTHER -> ""

Entries(item) ==
  Range(item.funcs) \cup Range(item.props) \cup Range(item.gets) \cup Range(item.puts)

\* The functions a method is written for.
Written(e) == e.isFunction /\ ~e.skipped /\ ~IsSpecial(e)

-----------------------------------------------------------------------------
(* MakeOleItemClassDefs: one entry after the other. *)

Item == Head(items)
Writes(defs) ==
  /\ body' = body \o defs
  /\ used' = used \cup ({"Iterator", "AsyncIterator", "Time"}
                          \cap UNION {d.names : d \in Range(defs)})
Raises == at' = "failed" /\ UNCHANGED <<body, used, propNames, entry>>
Goes == entry' = entry + 1 /\ UNCHANGED at

AtEntry(p) == at = "class" /\ part = p /\ entry <= Len(Item[p])
Entry == Item[part][entry]

FuncEntry ==
  /\ AtEntry("funcs")
  /\ \/ /\ Entry.isFunction
        /\ Writes(IF Entry.skipped THEN <<>>
                  ELSE IF SpecialName(Entry) # "" THEN <<NamedMethod(Entry, SpecialName(Entry))>>
                  ELSE IF Item.sink THEN <<Event(Entry)>> ELSE <<Method(Entry)>>)
        /\ Goes /\ UNCHANGED propNames
     \/ ~Entry.isFunction /\ Raises
  /\ UNCHANGED <<choiceVars, spec, imports, items, part, classes>>

\* A plain property is to have a getter, which wants an entry without arguments,
\* and a setter, which wants one with one argument: no entry is both.
PropEntry ==
  /\ AtEntry("props")
  /\ \/ /\ SpecialName(Entry) # ""
        /\ Writes(<<NamedMethod(Entry, SpecialName(Entry))>>)
        /\ Goes /\ UNCHANGED propNames
     \/ /\ SpecialName(Entry) = "" /\ Item.sink
        /\ Writes(<<Event(Entry)>>)
        /\ Goes /\ propNames' = propNames \cup {Entry.name}
     \/ SpecialName(Entry) = "" /\ ~Item.sink /\ Raises
  /\ UNCHANGED <<choiceVars, spec, imports, items, part, classes>>

GetEntry ==
  /\ AtEntry("gets")
  /\ LET plain == SpecialName(Entry) = "" /\ ~Item.sink /\ Entry.name \notin propNames
     IN  \/ /\ plain => MayBeGetter(Entry)
            /\ Writes(IF SpecialName(Entry) # "" THEN <<NamedMethod(Entry, SpecialName(Entry))>>
                      ELSE IF Item.sink THEN <<Event(Entry)>>
                      ELSE IF plain THEN <<Getter(Entry)>> ELSE <<>>)
            /\ Goes /\ propNames' = propNames \cup {Entry.name}
         \/ plain /\ ~MayBeGetter(Entry) /\ Raises
  /\ UNCHANGED <<choiceVars, spec, imports, items, part, classes>>

\* Without a getter there is to be one that raises AttributeError; its entry
\* must have no argument and one argument.
HasGetter(e) == e.name \in propNames

PutEntry ==
  /\ AtEntry("puts")
  /\ \/ /\ Item.sink
        /\ Writes(<<Event(Entry)>>) /\ Goes
     \/ /\ ~Item.sink /\ HasGetter(Entry) /\ MayBeSetter(Entry)
        /\ Writes(<<Setter(Entry)>>) /\ Goes
     \/ /\ ~Item.sink /\ ~(HasGetter(Entry) /\ MayBeSetter(Entry))
        /\ Raises
  /\ UNCHANGED <<choiceVars, spec, imports, items, part, propNames, classes>>

NextPart(p) == CASE p = "funcs" -> "props" [] p = "props" -> "gets" [] p = "gets" -> "puts"

EndOfMap ==
  /\ at = "class" /\ part # "puts" /\ entry > Len(Item[part])
  /\ part' = NextPart(part) /\ entry' = 1
  /\ UNCHANGED <<choiceVars, at, spec, imports, used, items, body, propNames, classes>>

\* Interfaces and sources are bases, and AxServeObject but for base classes.
Bases(item) ==
  item.interfaces \o item.sources
    \o IF item.coclass /\ ~isBase THEN <<"AxServeObject">> ELSE <<>>

EndOfClass ==
  /\ at = "class" /\ part = "puts" /\ entry > Len(Item.puts)
  /\ classes' = Append(classes, [name |-> Item.name, bases |-> Bases(Item), body |-> body])
  /\ items' = Tail(items)
  /\ at' = IF Tail(items) = <<>> THEN "done" ELSE "class"
  /\ part' = "funcs" /\ entry' = 1 /\ body' = <<>> /\ propNames' = {}
  /\ UNCHANGED <<choiceVars, spec, imports, used>>

-----------------------------------------------------------------------------
(* MakeStubModule. *)

\* The imports come first, with the flags as they are before any class.
ImportedAlways == {"Any", "decorator", "AxServeObject"}
MakeImports ==
  /\ at = "imports"
  /\ imports' = ImportedAlways \cup used
  /\ at' = "spec"
  /\ UNCHANGED <<choiceVars, spec, used, items, part, entry, body, propNames, classes>>

FindSpec ==
  /\ at = "spec"
  /\ LET specs == SpecsFor(lib)
     IN  \/ /\ specs # <<>> /\ Comparable(specs)
            /\ spec' = LatestSpec(specs)
            /\ at' = "select"
         \/ /\ specs # <<>> /\ ~Comparable(specs)
            /\ at' = "failed" /\ UNCHANGED spec
         \/ /\ specs = <<>>
            /\ at' = "done" /\ UNCHANGED spec
  /\ UNCHANGED <<choiceVars, imports, used, items, part, entry, body, propNames, classes>>

IsItem(n) == \E item \in Range(lib.items) : item.name = n
ItemNamed(n) == CHOOSE item \in Range(lib.items) : item.name = n

\* For an id that names no item everything is written as it comes.
SelectAll ==
  /\ at = "select" /\ ~IsItem(lib.clsid)
  /\ items' = lib.items
  /\ at' = IF lib.items = <<>> THEN "done" ELSE "class"
  /\ UNCHANGED <<choiceVars, spec, imports, used, part, entry, body, propNames, classes>>

\* Otherwise a class is written after what it consists of, whatever else the
\* library holds.  The items go one by one into a dictionary, where one that is
\* there already keeps its place.
SelectedFirst(item) == <<item.name>> \o item.interfaces \o item.sources
Selected(item) == item.interfaces \o item.sources \o <<item.name>>
SelectedNames == Selected(ItemNamed(lib.clsid))

SelectItem ==
  /\ at = "select" /\ IsItem(lib.clsid) /\ entry <= Len(SelectedNames)
  /\ LET n == SelectedNames[entry]
     IN  \/ /\ IsItem(n)
            /\ items' = IF \E i \in DOMAIN items : items[i].name = n THEN items
                        ELSE Append(items, ItemNamed(n))
            /\ Goes
         \/ ~IsItem(n) /\ at' = "failed" /\ UNCHANGED <<items, entry>>
  /\ UNCHANGED <<choiceVars, spec, imports, used, part, body, propNames, classes>>

EndOfSelection ==
  /\ at = "select" /\ IsItem(lib.clsid) /\ entry > Len(SelectedNames)
  /\ at' = "class" /\ entry' = 1
  /\ UNCHANGED <<choiceVars, spec, imports, used, items, part, body, propNames, classes>>

GenNext ==
  \/ MakeImports \/ FindSpec \/ SelectAll \/ SelectItem \/ EndOfSelection
  \/ FuncEntry \/ PropEntry \/ GetEntry \/ PutEntry \/ EndOfMap \/ EndOfClass

-----------------------------------------------------------------------------
(* Properties. *)

\* The names a class needs when it is executed and nothing has bound before.
UnboundIn(k) ==
  LET class == classes[k]
      before == imports \cup {classes[i].name : i \in 1..(k-1)}
      own(j) == {class.body[i].name : i \in 1..(j-1)}
  IN  (Range(class.bases) \ before)
      \cup UNION {class.body[j].names \ (before \cup own(j)) : j \in DOMAIN class.body}

\* A module can be imported, but for names of three kinds: those whose flag is
\* set when the imports have been written, classes named by results, and, for
\* base classes, the getter of a property that was renamed to a special
\* method.  Bases are missing only if all items are written in their order.
ImportsSuffice ==
  at = "done" =>
    \A k \in DOMAIN classes : \A n \in UnboundIn(k) :
      \/ n \in {"Iterator", "AsyncIterator", "Time"} \cap used
      \/ \E item \in Range(lib.items) : \E e \in Entries(item) : n = e.result
      \/ n \in Range(classes[k].bases) /\ lib.clsid \notin {item.name : item \in Range(lib.items)}
      \/ isBase /\ \E item \in Range(lib.items) : \E e \in Range(item.gets) :
           n = PublicName(e.name) /\ SpecialName(e) # ""

================================================================================
