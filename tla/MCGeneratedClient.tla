--------------------------- MODULE MCGeneratedClient ---------------------------
(* Libraries that differ in what the generator and the client have to cope with. *)
EXTENDS GeneratedClient

MCPublicName(n) == IF n = "from" THEN "From" ELSE n
MCEventName(n) == IF n = "Click" THEN "OnClick" ELSE n
MCLower(n) == CASE n = "Count" -> "count" [] n = "Item" -> "item"
                [] n = "_NewEnum" -> "_newenum" [] OTHER -> n

Def(name, args) ==
  [name |-> name, memid |-> "other", args |-> args, result |-> "", skipped |-> FALSE,
   varargs |-> FALSE, isFunction |-> TRUE]
Interface(name, funcs, gets, puts) ==
  [name |-> name, sink |-> FALSE, coclass |-> FALSE, interfaces |-> <<>>, sources |-> <<>>,
   funcs |-> funcs, props |-> <<>>, gets |-> gets, puts |-> puts]
Source(name, funcs) == [Interface(name, funcs, <<>>, <<>>) EXCEPT !.sink = TRUE]
CoClass(name, interfaces, sources) ==
  [Interface(name, <<>>, <<>>, <<>>) EXCEPT
     !.coclass = TRUE, !.interfaces = interfaces, !.sources = sources]

Version(major, minor) == [major |-> major, minor |-> minor, lcid |-> 0]

\* A property holds a uint beyond int32, and a method returns nothing, at first.
Prop(name, readable, writable) ==
  [described |-> TRUE, name |-> name, readable |-> readable, writable |-> writable,
   type |-> "int", holds |-> Single(Node("UInt", MaxInt + 1))]
Method_(name, arguments, type) ==
  [described |-> TRUE, name |-> name, arguments |-> arguments, type |-> type,
   returns |-> Single(Node("Invalid", 0))]
Holding(value, info) == [info EXCEPT !.holds = value]
Returning(value, info) == [info EXCEPT !.returns = value]

\* What the server converts in a list, and what it does not convert.
UIntInList ==
  [p \in {<<>>, <<1>>} |-> IF p = <<>> THEN Node("QVariantList", 1) ELSE Node("UInt", MaxInt + 1)]
DateTime == Single(Node("QDateTime", 0))
DispatchInList ==
  [p \in {<<>>, <<1>>} |-> IF p = <<>> THEN Node("QVariantList", 1) ELSE Node("IDispatch*", 0)]
EventInfo(name) == [described |-> TRUE, name |-> name, arguments |-> 0]
Described(property, method, event) ==
  [property |-> property, method |-> method, event |-> event]

Library(parts, described) ==
  [specs |-> <<Version(1, 0)>>, version |-> <<>>, items |-> parts, clsid |-> "App",
   description |-> described]

\* A control with a property, an overloaded method, and an event and a method
\* that come to have the same name.
App == Library(
  <<Interface("IApp",
      <<Def("Open", <<"none", "constant">>), Def("OnClick", <<>>)>>,
      <<Def("Zoom", <<>>)>>, <<Def("Zoom", <<"none">>)>>),
    Source("DApp", <<Def("Click", <<>>)>>),
    CoClass("App", <<"IApp">>, <<"DApp">>)>>,
  Described(<<Prop("Zoom", TRUE, TRUE)>>,
            <<Method_("Open", 1, "int"), Method_("Open", 2, "int"), Method_("OnClick", 0, "")>>,
            <<EventInfo("Click")>>))

\* A collection, with an event, and a name that is a keyword.
Collection == Library(
  <<CoClass("App", <<"IApp">>, <<"DApp">>),
    Interface("IApp", <<Def("Item", <<"none">>), Def("from", <<>>)>>, <<Def("Count", <<>>)>>, <<>>),
    Source("DApp", <<Def("Click", <<>>)>>)>>,
  Described(<<Holding(UIntInList, Prop("Count", TRUE, FALSE))>>,
            <<Returning(DispatchInList, Method_("Item", 1, "int")), Method_("from", 0, "int")>>, <<EventInfo("Click")>>))

\* What the generator raises for, or writes a module for that does not import.
PutOnly == Library(
  <<Interface("IApp", <<>>, <<>>, <<Def("Zoom", <<"none">>)>>), CoClass("App", <<"IApp">>, <<>>)>>,
  Described(<<Prop("Zoom", FALSE, TRUE)>>, <<>>, <<>>))
PlainProperty == Library(
  <<[Interface("IApp", <<>>, <<>>, <<>>) EXCEPT !.props = <<Def("Zoom", <<>>)>>],
    CoClass("App", <<"IApp">>, <<>>)>>,
  Described(<<Holding(DateTime, Prop("Zoom", TRUE, TRUE))>>, <<>>, <<>>))
Enumerable == Library(
  <<Interface("IApp", <<[Def("", <<>>) EXCEPT !.memid = "newenum"],
                        [Def("Open", <<"time">>) EXCEPT !.result = "IElement"],
                        [Def("Old", <<>>) EXCEPT !.skipped = TRUE]>>, <<>>, <<>>),
    CoClass("App", <<"IApp">>, <<>>)>>,
  Described(<<>>, <<Method_("Open", 1, "")>>, <<>>))
\* A property renamed to a special method, and its setter that is not.
ValueProperty == Library(
  <<Interface("IApp", <<>>, <<[Def("Zoom", <<>>) EXCEPT !.memid = "value"]>>,
              <<Def("Zoom", <<"none">>)>>),
    CoClass("App", <<"IApp">>, <<>>)>>,
  Described(<<Prop("Zoom", TRUE, TRUE)>>, <<Method_("Open", 0, ""), Method_("Zoom", 0, "int")>>, <<>>))
SinkProperties == Library(
  <<[Source("DApp", <<>>) EXCEPT !.props = <<Def("Click", <<>>), Def("Count", <<>>)>>,
                                 !.gets = <<Def("Hidden", <<>>)>>, !.puts = <<Def("Click", <<>>)>>],
    CoClass("App", <<>>, <<"DApp">>)>>,
  Described(<<>>, <<>>, <<EventInfo("Click"), EventInfo("Hidden")>>))
Variable == Library(
  <<Interface("IApp", <<[Def("Open", <<"none", "none">>) EXCEPT !.varargs = TRUE]>>, <<>>, <<>>),
    CoClass("App", <<"IApp">>, <<>>)>>,
  Described(<<>>, <<Method_("Open", 2, "")>>, <<>>))
NoFunction == [PlainProperty EXCEPT !.items[1].props = <<>>,
                 !.items[1].funcs = <<[Def("Open", <<>>) EXCEPT !.isFunction = FALSE]>>]
Unnamed == [Collection EXCEPT !.clsid = "Other"]
Missing == [PutOnly EXCEPT !.items = <<CoClass("App", <<"IApp">>, <<>>)>>]

\* Registered versions.
Versions == {<<Version(1, 0), Version(1, 2)>>, <<Version(9, 0), Version(10, 0)>>,
             <<Version(2, 1), Version(1, 3)>>, <<Version(1, 0), Version(1, NoMinor)>>,
             <<[Version(1, 1) EXCEPT !.lcid = 9], Version(1, 1)>>}
Unregistered == [Library(<<>>, Described(<<>>, <<>>, <<>>)) EXCEPT !.specs = <<>>]
Versioned == {[Unregistered EXCEPT !.specs = s] : s \in Versions}
               \cup {[Unregistered EXCEPT !.version = <<1, m>>, !.specs = <<Version(1, 0), Version(2, 0)>>] :
                       m \in {0, 5, NoMinor}}

Symmetry == Permutations(Tasks)

MCLibraries == {App, Collection, PutOnly, PlainProperty, Enumerable, ValueProperty,
                SinkProperties, Variable, NoFunction, Unnamed, Missing, Unregistered} \cup Versioned
MCNames == {"Zoom", "Open", "OnClick", "Click", "__getitem__", "From", "Count"}

\* A list of an empty list and a dict of a number, and more.
Nested ==
  [p \in {<<>>, <<1>>, <<2>>, <<2, 1>>} |->
     CASE p = <<>> -> Node("list", 2) [] p = <<1>> -> Node("list", 0)
       [] p = <<2>> -> Node("dict", 1) [] p = <<2, 1>> -> Node("int", -1)]
MCValues == {Nested, Single(Node("int", MaxInt + 1)), Single(Node("object", 0))}
================================================================================
