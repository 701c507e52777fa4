------------------------------ MODULE MCTypeck ------------------------------
(***************************************************************************)
(* Two benches in one state graph.  "check": programs for the type checker *)
(* over a library of interfaces, aggregates and generic functions, every   *)
(* order of a few declarations out of groups that interact, with every     *)
(* `main` of the group.  "reflect": the types that a program reflects, and *)
(* the values its emitted code represents.  The variables of the bench     *)
(* that does not run stay as its initial state left them.                  *)
(***************************************************************************)
EXTENDS Typeck

CONSTANTS ChunkSize, Budget, MaxUsize, Policies, UnsafeStructs, Visible, Reflected

VARIABLES bench, source, op, inUnsafe, phase, checked, laid, emitted, value, repr, back

MR == INSTANCE MetaRepr WITH stage <- phase

reflectVars == <<source, op, inUnsafe, phase, checked, laid, emitted, value, repr, back>>
benchVars == <<bench, vars, reflectVars>>

T == Generic("T")
U == Generic("U")
I32 == Prim("i32")
Void == Prim("void")
A == Named("A", <<>>)
File == Named("File", <<>>)
Future1(t) == Named("Future", <<t>>)
Box(t) == Named("Box", <<t>>)
Ref(t) == Pointer(FALSE, FALSE, t)
Mut(t) == Pointer(FALSE, TRUE, t)

Method(ret) == [generics |-> <<"T">>, params |-> <<Ref(T)>>, ret |-> ret, determined |-> 0,
                marker |-> FALSE, unsafe |-> FALSE]
Marker == [Method(T) EXCEPT !.marker = TRUE, !.unsafe = TRUE]

MCInterfaces ==
    [eq |-> Method(I32), hash |-> Method(I32), clone_message |-> Marker, thread_local |-> Marker,
     format_error |-> Method(I32), erased_error_ref |-> Marker,
     closure_value_marker |-> Marker, ciel_fn_value_marker |-> Marker,
     next |-> [Method(U) EXCEPT !.generics = <<"T", "U">>, !.params = <<Mut(T)>>, !.determined = 1],
     grow |-> [Method(Void) EXCEPT !.generics = <<"T", "U">>,
                                  !.params = <<Ref(T), Dynamic("grow", <<Box(U)>>)>>]]

Add(iface) == [op |-> "add", iface |-> iface, args |-> <<>>]
Not(iface) == [op |-> "not", iface |-> iface, args |-> <<>>]

MCAliases ==
    [Message |-> [generics |-> <<>>, terms |-> <<Add("clone_message"), Not("thread_local")>>],
     ErrorTrait |-> [generics |-> <<>>, terms |-> <<Add("format_error"), Add("erased_error_ref")>>],
     Keyed |-> [generics |-> <<>>, terms |-> <<Add("eq"), Add("hash")>>]]

Struct(generics, fields) ==
    [kind |-> "struct", resource |-> FALSE, generics |-> generics, variants |-> <<fields>>]
Enum(generics, variants) ==
    [kind |-> "enum", resource |-> FALSE, generics |-> generics, variants |-> variants]

\* List holds itself behind a pointer, Tree by value in an array, Row boxes
\* in an array of options.
MCAggregates ==
    [A |-> Struct(<<>>, <<I32>>),
     File |-> [Struct(<<>>, <<I32>>) EXCEPT !.resource = TRUE],
     Future |-> [Struct(<<"T">>, <<T>>) EXCEPT !.resource = TRUE],
     Box |-> Struct(<<"T">>, <<T>>),
     Opt |-> Enum(<<"T">>, <<<<T>>, <<>>>>),
     List |-> Struct(<<>>, <<A, Mut(Named("List", <<>>))>>),
     Tree |-> Struct(<<>>, <<Array(2, Named("Opt", <<Named("Tree", <<>>)>>))>>),
     Error |-> Struct(<<>>, <<Dynamic("ErrorTrait", <<>>)>>),
     Row |-> Struct(<<>>, <<Array(2, Named("Opt", <<Box(A)>>)), Mut(Named("List", <<>>))>>),
     Note |-> Struct(<<>>, <<I32>>), Cell |-> Struct(<<"T">>, <<T>>), Token |-> Struct(<<>>, <<I32>>),
     Raw |-> Struct(<<>>, <<I32>>), RawNote |-> Struct(<<>>, <<I32>>),
     Two |-> Struct(<<"T", "U">>, <<T, U>>), Either |-> Enum(<<"T", "U">>, <<<<T>>, <<>>, <<I32, U>>>>)]

Param(x, terms) == [name |-> x, resource |-> FALSE, hidden |-> FALSE, terms |-> terms]
Hidden(x) == [Param(x, <<>>) EXCEPT !.hidden = TRUE]

Call(kind, name, args, want) ==
    [kind |-> kind, name |-> name, types |-> <<>>, args |-> args, want |-> want]

MCFunctions ==
    [main |-> [generics |-> <<>>, params |-> <<>>, ret |-> Void, body |-> <<>>],
     same |-> [generics |-> <<Param("T", <<Add("eq")>>)>>, params |-> <<T>>, ret |-> I32,
               body |-> <<Call("interface", "eq", <<Ref(T)>>, <<I32>>)>>],
     first |-> [generics |-> <<Param("T", <<[op |-> "add", iface |-> "next", args |-> <<U>>]>>), Hidden("U")>>,
                params |-> <<T>>, ret |-> U,
                body |-> <<Call("interface", "next", <<Mut(T)>>, <<>>)>>],
     sink |-> [generics |-> <<Param("T", <<>>)>>, params |-> <<T>>, ret |-> Void, body |-> <<>>],
     nest |-> [generics |-> <<Param("T", <<>>)>>, params |-> <<T>>, ret |-> Void,
               body |-> <<Call("function", "nest", <<Box(T)>>, <<>>)>>],
     ping |-> [generics |-> <<Param("T", <<>>)>>, params |-> <<T>>, ret |-> Void,
               body |-> <<Call("function", "pong", <<Box(T)>>, <<>>)>>],
     pong |-> [generics |-> <<Param("T", <<>>)>>, params |-> <<T>>, ret |-> Void,
               body |-> <<Call("function", "ping", <<T>>, <<>>), Call("function", "ping", <<A>>, <<>>)>>]]

Impl(name, generics, recv, body) ==
    [kind |-> "impl", name |-> name, types |-> <<>>, params |-> <<Ref(recv)>>,
     generics |-> generics, unsafe |-> MCInterfaces[name].unsafe, body |-> body]
Derivable(name, terms) ==
    Impl(name, <<Param("T", terms)>>, T, <<>>) @@ [asks |-> FALSE]
Derive(name, generics, recv) ==
    [kind |-> "derive", name |-> name, recv |-> recv, generics |-> generics, unsafe |-> FALSE]
NextOf(generics, recv, item) ==
    [Impl("next", generics, recv, <<>>) EXCEPT !.types = <<item>>, !.params = <<Mut(recv)>>]

DerivableImpl(name, terms) == [Derivable(name, terms) EXCEPT !.kind = "derivable"]

EqBody == <<Call("interface", "eq", <<Ref(T)>>, <<I32>>)>>
EqClosure == Impl("eq", <<Param("T", <<Add("closure_value_marker")>>)>>, T, <<>>)
EqBox == Impl("eq", <<Param("T", <<Add("eq")>>)>>, Box(T), EqBody)

\* Derives that may rest on each other.
Derives ==
    {DerivableImpl("eq", <<Add("hash")>>), DerivableImpl("hash", <<Add("eq")>>),
     Derive("Keyed", <<>>, A), Derive("hash", <<>>, A), Impl("eq", <<>>, A, <<>>), EqBox}

\* Generic derives and generic impls over boxes.
Generics ==
    {DerivableImpl("hash", <<Add("eq")>>), Derive("hash", <<Param("T", <<Add("eq")>>)>>, Box(T)),
     Derive("hash", <<Param("T", <<>>)>>, Box(T)), Impl("eq", <<>>, A, <<>>), EqBox}

\* Markers, and an alias that excludes one.
Markers ==
    {Impl("clone_message", <<Param("T", <<Add("eq")>>)>>, T, <<>>),
     Impl("clone_message", <<>>, A, <<>>), Impl("eq", <<>>, A, <<>>),
     DerivableImpl("clone_message", <<>>), Derive("Message", <<>>, A),
     Impl("thread_local", <<>>, A, <<>>)}

\* Determined parameters.
Opt(t) == Named("Opt", <<t>>)
NextU == <<[op |-> "add", iface |-> "next", args |-> <<U>>]>>
Iterators ==
    {NextOf(<<Param("T", <<>>)>>, Box(T), T), NextOf(<<>>, Box(A), I32),
     NextOf(<<Param("T", <<>>)>>, Box(Box(T)), T),
     NextOf(<<Param("T", NextU), Param("U", <<>>)>>, Opt(T), U),
     NextOf(<<Param("T", <<>>), Param("U", <<>>)>>, Opt(T), U)}

MCGround == {A, I32, Box(A), Box(I32), Box(Box(A)), Opt(Box(A))}

Orders(S, n) == {s \in UNION {[1 .. i -> S] : i \in 0 .. n} : IsInjective(s)}

On(iface, t) == Call("interface", iface, <<Ref(t)>>, <<>>)
First(t) == Call("function", "first", <<t>>, <<>>)
Local(declared, t) == Call("local", "readonly", <<t>>, <<declared>>)
Place(declared, t) == Call("local", "writable", <<t>>, <<declared>>)
Dyn(name, t) == Local(Dynamic(name, <<>>), Ref(t))
Thunk == ClosureInstance("c", Void, <<>>, <<A>>)
EqThunk == Closure(Void, <<>>, <<<<<<"eq", <<>>>>>>, <<>>>>)
Retain(t) == Local(EqThunk, t)
Use(t) == Call("function", "sink", <<t>>, <<>>)

\* Errors and resources behind interfaces.
Erasures ==
    {Impl("format_error", <<>>, A, <<>>), Impl("format_error", <<>>, File, <<>>),
     Impl("format_error", <<Param("T", <<Add("format_error")>>)>>, Box(T), <<>>),
     Impl("eq", <<>>, File, <<>>)}
ErrorOf(t) == Local(Named("Error", <<>>), t)

\* Callables and their markers.
Plain == Function(FALSE, Void, <<>>)
Callables ==
    {EqClosure, Impl("eq", <<Param("T", <<Add("ciel_fn_value_marker")>>)>>, T, <<>>),
     Impl("eq", <<>>, EqThunk, <<>>), Impl("eq", <<Param("T", <<Not("hash")>>)>>, T, <<>>)}

\* Locals whose types are inferred.
Row2(t) == Array(2, t)
Generated == Future("run", FALSE, A, <<Box(A)>>)
Locals ==
    {<<Local(Hole(1), Box(A)), Use(Box(A))>>, <<Local(Box(Hole(1)), Box(A))>>,
     <<Local(Box(Hole(1)), A)>>, <<Local(Slice(FALSE, Hole(1)), Row2(A))>>,
     <<Place(Slice(TRUE, Hole(1)), Row2(Box(A)))>>, <<Local(Slice(TRUE, A), Row2(A))>>,
     <<Local(Slice(FALSE, A), Slice(TRUE, A))>>, <<Local(Future1(Hole(1)), Generated)>>,
     <<Local(Hole(1), Generated)>>, <<Local(Closure(Hole(1), <<>>, NoBounds), Thunk)>>,
     <<Local(Hole(1), OpaqueState(A, <<File>>))>>, <<Local(Void, A)>>}

MCPrograms ==
    [decls : Orders(Derives, 4), main : {<<On("eq", Box(Box(A)))>>, <<Dyn("Keyed", A)>>}]
    \cup [decls : Orders(Generics, 4), main : {<<On("hash", Box(A))>>, <<Dyn("hash", Box(A)), Dyn("eq", Box(Box(A)))>>}]
    \cup [decls : Orders(Markers, 3), main : {<<On("eq", A)>>, <<On("clone_message", A)>>}]
    \cup [decls : Orders(Iterators, 3), main : {<<First(Box(A))>>, <<First(Opt(Box(A)))>>}]
    \cup [decls : Orders(Erasures, 3),
          main : {<<ErrorOf(Ref(A))>>, <<ErrorOf(Box(A)), ErrorOf(Box(Box(A)))>>, <<ErrorOf(Ref(File))>>,
                  <<Dyn("eq", File)>>, <<Local(Dynamic("eq", <<>>), File)>>,
                  <<Dyn("ErrorTrait", Box(A))>>}]
    \cup [decls : Orders(Callables, 2), main : {<<Retain(Thunk)>>, <<Retain(Plain)>>,
                  <<Retain(EqThunk), Local(Closure(Void, <<>>, NoBounds), EqThunk)>>}]
    \cup [decls : {<<>>}, main : Locals]
    \cup [decls : {<<>>, <<Impl("eq", <<>>, A, <<>>)>>, <<EqBox, Impl("eq", <<>>, A, <<>>)>>,
                   <<EqClosure>>},
          main : {<<Retain(Thunk)>>, <<Use(Named("Row", <<>>))>>, <<Use(Named("Tree", <<>>))>>,
                  <<Call("function", "nest", <<A>>, <<>>)>>, <<Call("function", "ping", <<A>>, <<>>)>>,
                  <<Call("function", "same", <<Box(A)>>, <<>>), Use(Named("List", <<>>))>>,
                  <<Use(Dynamic("grow", <<A>>))>>}]

(***************************************************************************)
(* Reflected types: components of every kind, alone, in arrays around the  *)
(* chunk boundaries, and in pairs in a struct, an enum and a closure.      *)
(***************************************************************************)
Two(t, u) == Named("Two", <<t, u>>)
Either(t, u) == Named("Either", <<t, u>>)
Cell(t) == Named("Cell", <<t>>)
Note == Named("Note", <<>>)
Token == Named("Token", <<>>)
Raw == Named("Raw", <<>>)
RawNote == Named("RawNote", <<>>)

Policy(iface, t) == [iface |-> iface, recv |-> t, bounded |-> FALSE]
MCPolicies ==
    {Policy("clone_message", I32), Policy("clone_message", Note), Policy("share_handle", RawNote),
     [Policy("clone_message", Cell(T)) EXCEPT !.bounded = TRUE], Policy("thread_local", Token)}
MCUnsafe == {"Raw", "RawNote"}
MCVisible == DOMAIN MCAggregates \ {"Token"}

InnerRepr == Named("Repr", <<Two(I32, Note)>>)
Parts ==
    {I32, Void, A, File, Note, Token, Raw, RawNote, Named("Tree", <<>>), Cell(Note), Cell(Raw), Opt(A),
     Array(0, I32), Array(3, A), Array(2, Raw), Array(2, Void), InnerRepr, Mut(Raw)}
MCReflected ==
    (Parts \ {InnerRepr, Array(2, Void)})
    \cup {Array(n, t) : n \in 0 .. 7, t \in Parts \ {Void, Array(2, Void)}}
    \cup UNION {{Two(t, u), Either(t, u), ClosureInstance("c", Void, <<>>, <<t, u>>)} : t \in Parts, u \in Parts}
    \cup {Array(3, Array(5, I32)), Closure(Void, <<>>, NoBounds)}

ReflectRests == source = I32 /\ op = "into" /\ inUnsafe = FALSE /\ MR!Init
CheckRests == program = [decls |-> <<>>, main |-> <<Local(Void, A)>>] /\ Init

BenchInit ==
    \/ bench = "check" /\ ReflectRests /\ Init
    \/ bench = "reflect" /\ CheckRests /\ MR!Init

Checks(Act) == bench = "check" /\ Act /\ UNCHANGED <<bench, reflectVars>>
Reflects(Act) == bench = "reflect" /\ Act /\ UNCHANGED <<bench, vars>>

BenchNext ==
    \/ Checks(Declare)
    \/ Checks(CheckNextBody)
    \/ Checks(TypeChecked)
    \/ Checks(Process)
    \/ Checks(Finish)
    \/ Reflects(MR!CheckMetaReprCall)
    \/ Reflects(MR!CollectMetaReprCall)
    \/ Reflects(MR!Emit)
    \/ Reflects(MR!RunInto)
    \/ Reflects(MR!RunFrom)
    \/ Reflects(MR!RunRef)

BenchSpec == BenchInit /\ [][BenchNext]_benchVars

(* The invariants of reflection (MetaRepr). *)
ReprAgrees == MR!ReprAgrees
RoundTrip == MR!RoundTrip
ReflectionGuarded == MR!ReflectionGuarded
=============================================================================
