------------------------------ MODULE L2Programs ------------------------------
(***************************************************************************)
(* L2 programs on which TLC runs the code generator: families that cross   *)
(* the constructs of the language in every small combination, programs     *)
(* after tests/*.l2, and programs with one error each.                     *)
(***************************************************************************)
EXTENDS L2Ast

V(x)    == Path(x, <<>>)
At1(x, f) == Path(x, <<f>>)
N(k)    == Int32(k)
Set(x, e) == Assign(V(x), e)
Int1(x) == Declaration("int", x)
Body(stmts) == Block(<<>>, stmts)
IntVars == <<Int1("x"), Int1("y")>>

List == TypeDef("list", <<Int1("num"), Declaration("list", "next")>>)
Tree == TypeDef("tree", <<Declaration("tree", "left"), Int1("value"), Declaration("tree", "right")>>)

Main(ds, stmts, e) == Program(<<List, Tree>>, <<>>, Block(ds, stmts), e)
With(funs, ds, stmts, e) == Program(<<List, Tree>>, funs, Block(ds, stmts), e)

-----------------------------------------------------------------------------
\* Every nesting of two operators over a variable, a constant and a field.
Leaves == {N(2), V("x")}
Nested ==
  {Binary(o1, Binary(o2, a, b), c) : o1, o2 \in ArithmeticOps, a, b \in Leaves, c \in {N(7)}}
  \cup {Binary(o1, c, Binary(o2, a, b)) : o1, o2 \in ArithmeticOps, a, b \in Leaves, c \in {N(7)}}

Arithmetic ==
  {Main(IntVars, <<Set("x", N(5)), Set("y", e)>>, Subtract(V("y"), N(1))) : e \in Nested}
  \cup {Main(IntVars, <<Set("x", N(5))>>, Binary("mul", e, Subtract(e, N(1)))) :
          e \in {Add(V("x"), V("y")), Subtract(V("y"), V("x"))}}

\* Every comparison of unequal and equal values, under every connective.
Comparisons == {Binary(op, V("x"), N(k)) : op \in RelationalOps, k \in 1..3}
Guards == Comparisons
          \cup {Not(c) : c \in {LessThan(V("x"), N(3)), EqualTo(V("x"), N(3))}}
          \cup {Binary(op, LessThan(V("x"), N(j)), EqualTo(N(k), V("x"))) :
                  op \in LogicalOps, j \in {2, 3}, k \in {1, 2}}
          \cup {Not(Or(Not(EqualTo(V("x"), N(2))), And(LessEqual(V("x"), N(1)), LessThan(N(0), N(1)))))}

Branch(g) == If(g, Body(<<Set("y", Add(V("y"), N(1)))>>), Body(<<Set("y", N(9))>>))
Branches ==
  {Main(IntVars, <<Set("x", N(2)), Branch(g)>>, V("y")) : g \in Guards}
  \cup {Main(IntVars, <<Set("x", N(2)), If(g, Body(<<Branch(h)>>), Body(<<>>)), Branch(h)>>, V("y")) :
          g, h \in {LessThan(V("x"), N(3)), EqualTo(V("x"), N(3))}}

\* Loops entered any number of times, nested, with branches inside.
Count(x, k, stmts) == While(LessThan(V(x), N(k)), Body(Append(stmts, Set(x, Add(V(x), N(1))))))
Loops ==
  {Main(IntVars, <<Count("x", k, <<Set("y", Add(V("y"), V("x")))>>)>>, V("y")) : k \in 0..2}
  \cup {Main(Append(IntVars, Int1("z")),
             <<Count("x", 2, <<Set("y", N(0)), Count("y", k, <<Branch(LessThan(V("z"), V("y"))),
                                                               Set("z", Add(V("z"), N(1)))>>)>>)>>,
             Add(Multiply(V("z"), N(10)), V("y"))) : k \in {1, 2}}

-----------------------------------------------------------------------------
\* Functions: two parameters told apart, recursion, parameters assigned to,
\* locals that hide parameters, arguments with temporaries.
Minus == FunctionDef("minus", "int", <<Int1("a"), Int1("b")>>, Body(<<>>), Subtract(V("a"), V("b")))
Fact  == FunctionDef("fact", "int", <<Int1("n")>>,
           Block(<<Int1("r")>>,
             <<If(LessEqual(V("n"), N(0)), Body(<<Set("r", N(1))>>),
                  Body(<<Set("r", Call("fact", <<Subtract(V("n"), N(1))>>)),
                         Set("r", Multiply(V("n"), V("r")))>>))>>), V("r"))
Swap  == FunctionDef("swap", "int", <<Int1("a"), Int1("b"), Int1("c")>>,
           Block(<<Int1("t"), Int1("c")>>,
             <<Set("t", V("a")), Set("a", V("b")), Set("b", V("t")),
               Set("c", Add(V("c"), V("a")))>>),
           Subtract(Multiply(V("a"), N(10)), Add(V("b"), V("c"))))
\* Of two parameters of one name the first is meant.
Twice == FunctionDef("twice", "int", <<Int1("a"), Int1("a"), Int1("b")>>, Body(<<>>),
                     Subtract(V("b"), V("a")))

Functions ==
  {With(<<Minus>>, IntVars, <<Set("x", N(5)), Set("y", Call("minus", <<a, b>>))>>, V("y")) :
     a, b \in {N(2), Add(V("x"), Multiply(V("x"), N(2)))}}
  \cup {With(<<Minus, Fact>>, IntVars, <<Set("x", Call("fact", <<N(k)>>)),
                                         Set("y", Call("minus", <<V("x"), N(k)>>))>>, V("y")) :
          k \in 0..3}
  \cup {With(<<Fact, Swap>>, IntVars, <<Set("x", Call("swap", <<N(1), N(2), N(3)>>)),
                                         Count("y", 2, <<Set("x", Call("swap", <<V("x"), V("y"), V("y")>>))>>)>>,
             V("x")),
        With(<<Twice>>, IntVars, <<Set("x", Call("twice", <<N(1), N(2), N(4)>>))>>, V("x"))}

-----------------------------------------------------------------------------
\* The heap.  tests/test1.l2, tests/test2.l2 (with fewer insertions) and
\* tests/test3.l2.
Ptr(t, x) == Declaration(t, x)
Foo == FunctionDef("foo", "int", <<>>,
         Block(<<Ptr("list", "bar")>>,
               <<Set("bar", New("list")), Assign(At1("bar", "next"), New("list"))>>), N(0))
Test1 == With(<<Foo>>, <<Ptr("list", "head"), Int1("cntr"), Int1("dummy")>>,
              <<Set("head", New("list")), Assign(At1("head", "next"), New("list")),
                Count("cntr", 2, <<Set("dummy", Call("foo", <<>>))>>)>>, N(42))

Descend(side) ==
  If(EqualTo(At1("node", side), Nil),
     Body(<<Assign(At1("node", side), New("tree")),
            Assign(Path("node", <<side, "value">>), V("value"))>>),
     Body(<<Set("dummy", Call("insert", <<At1("node", side), V("value")>>))>>))
Insert == FunctionDef("insert", "int", <<Ptr("tree", "node"), Int1("value")>>,
            Block(<<Int1("dummy")>>,
                  <<If(LessEqual(V("value"), At1("node", "value")),
                       Body(<<Descend("left")>>), Body(<<Descend("right")>>))>>), N(0))
Seek(side) == If(EqualTo(At1("node", side), Nil), Body(<<Set("retval", Nil)>>),
                 Body(<<Set("retval", Call("find", <<At1("node", side), V("value")>>))>>))
Find == FunctionDef("find", "tree", <<Ptr("tree", "node"), Int1("value")>>,
          Block(<<Ptr("tree", "retval")>>,
                <<If(EqualTo(At1("node", "value"), V("value")), Body(<<Set("retval", V("node"))>>),
                     Body(<<If(LessThan(V("value"), At1("node", "value")),
                               Body(<<Seek("left")>>), Body(<<Seek("right")>>))>>))>>), V("retval"))
Add1(k) == Set("dummy", Call("insert", <<V("root"), N(k)>>))
Test2 == With(<<Insert, Find>>,
              <<Ptr("tree", "root"), Ptr("tree", "node"), Int1("dummy")>>,
              <<Set("root", New("tree")), Assign(At1("root", "value"), N(0)),
                Add1(-42), Add1(42), Add1(-21), Assign(At1("root", "left"), Nil), Add1(21),
                Set("node", Call("find", <<V("root"), N(21)>>))>>, At1("node", "value"))

CreateCycle == FunctionDef("createCycle", "list", <<>>,
  Block(<<Ptr("list", "n1"), Ptr("list", "n2")>>,
        <<Set("n1", New("list")), Set("n2", New("list")),
          Assign(At1("n1", "next"), V("n2")), Assign(At1("n2", "next"), V("n1"))>>), V("n1"))
Test3 == With(<<CreateCycle>>, <<Ptr("list", "n"), Int1("cntr")>>,
              <<Count("cntr", 2, <<Set("n", Call("createCycle", <<>>))>>),
                Assign(Path("n", <<"next", "next", "num">>), N(8))>>, At1("n", "num"))

\* Allocation among temporaries, in a loop, and before a call.
Heap == {Test1, Test2, Test3,
  Main(<<Ptr("list", "p"), Int1("x"), Int1("y")>>,
       <<Count("x", 3, <<If(EqualTo(V("p"), New("list")), Body(<<>>), Body(<<Set("p", New("list"))>>)),
                         Assign(At1("p", "num"), Add(At1("p", "num"), V("x"))),
                         Set("y", Add(V("y"), At1("p", "num")))>>)>>, V("y")),
  With(<<Minus>>, <<Ptr("list", "p"), Int1("x")>>,
       <<Set("p", New("list")), Assign(At1("p", "num"), N(6)),
         Assign(At1("p", "next"), New("list")),
         Set("x", Call("minus", <<At1("p", "num"), N(2)>>))>>,
       Add(V("x"), Path("p", <<"next", "num">>)))}

\* A field of nil is read, or written, in a function or in Entry.
NilDereferences ==
  {Main(<<Ptr("list", "p"), Int1("x")>>, <<s>>, V("x")) : s \in
     {Set("x", Path("p", <<"next", "num">>)), Assign(At1("p", "next"), New("list"))}}
  \cup {With(<<Find>>, <<Ptr("tree", "node")>>,
             <<Set("node", Call("find", <<V("node"), N(1)>>))>>, N(0))}

\* The value of an argument is an allocation, with another argument after it.
HasNext == FunctionDef("hasNext", "int", <<Ptr("list", "p"), Int1("b")>>,
             Block(<<Int1("r")>>,
                   <<If(EqualTo(At1("p", "next"), Nil), Body(<<Set("r", V("b"))>>), Body(<<>>))>>),
             V("r"))
NewInArguments ==
  {With(<<HasNext>>, <<Int1("x")>>,
        <<Set("x", Call("hasNext", <<Add(N(0), New("list")), N(9)>>))>>, V("x"))}

\* n declarations, of which these are pointers.
Named(x, type, n, pointers) ==
  [k \in 1..n |-> Declaration(IF k \in pointers THEN type ELSE "int", x \o ToString(k))]

\* As many parameters, and as many locals, as root information has bits, the
\* last of which is set for one of the two.
Crowded ==
  {With(<<FunctionDef("f", "int", Named("p", "list", 32, {1, 16} \cup last),
            Block(Named("v", "list", 32, {2, 17, 32} \ last), <<Set("v1", V("p3"))>>), V("v1"))>>,
        Named("v", "list", 32, {16, 31} \cup last), <<Set("v1", N(1))>>, V("v1")) : last \in {{}, {32}}}

-----------------------------------------------------------------------------
\* One error each.
OneStatement(s) == Main(IntVars, <<s>>, N(0))
IllFormed ==
  {OneStatement(s) : s \in
     {Set("z", N(1)), Set("x", V("z")), Set("x", New("none")), Set("x", Call("none", <<>>)),
      Set("x", Add(N(1), Subtract(V("x"), V("z")))), Assign(At1("x", "num"), N(0)),
      If(LessThan(V("z"), N(0)), Body(<<>>), Body(<<>>)),
      While(LessThan(V("x"), N(0)), Block(<<Int1("t")>>, <<>>)),
      If(LessThan(V("x"), N(0)), Body(<<>>), Body(<<Set("t", N(0))>>))}}
  \cup {Main(<<Int1("x"), Int1("x")>>, <<>>, N(0)), Main(<<Int1("x")>>, <<>>, V("y")),
        Main(<<Ptr("list", "p")>>, <<>>, Path("p", <<"next", "left">>)),
        Main(<<Ptr("none", "p")>>, <<>>, At1("p", "next")),
        Program(<<List, List>>, <<>>, Body(<<>>), N(0)),
        With(<<Minus, Fact, Minus>>, <<>>, <<>>, N(0)),
        With(<<Minus>>, IntVars, <<Set("x", Call("minus", <<N(1)>>))>>, V("x")),
        With(<<Swap, FunctionDef("f", "int", <<>>, Body(<<>>), V("a"))>>, <<>>, <<>>, N(0)),
        With(<<Minus, FunctionDef("f", "int", <<Int1("a")>>, Body(<<>>), V("b"))>>, <<>>, <<>>, N(0)),
        With(<<FunctionDef("f", "int", <<>>, Block(IntVars, <<>>), V("x"))>>, <<>>, <<>>, V("x"))}

\* Entry uses a parameter of the last function.
UsesParameter ==
  {With(<<Minus, FunctionDef("f", "int", <<Int1("z")>>, Block(IntVars, <<>>), V("x"))>>, <<>>, <<>>, V("z"))}

Executable == Arithmetic \cup Branches \cup Loops \cup Functions \cup Heap \cup NilDereferences
AllPrograms == Executable \cup NewInArguments \cup Crowded \cup IllFormed \cup UsesParameter

\* The identifiers that occur in them.
UsedIdentifiers == {"a", "b", "c", "n", "p", "r", "t", "x", "y", "z", "head", "cntr", "dummy", "bar",
                "root", "node", "value", "retval", "n1", "n2"}
  \cup {x \o ToString(k) : x \in {"p", "v"}, k \in 1..32}
=============================================================================
