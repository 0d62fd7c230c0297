----------------------------- MODULE MCCollector -----------------------------
(***************************************************************************)
(* Collector on the programs of tests/*.l2, as they are written there, and *)
(* on others that hold objects in many places, with heaps of every size    *)
(* from too small to roomy.                                                *)
(***************************************************************************)
EXTENDS Collector

P == INSTANCE L2Programs

NodeType == TypeDef("node", <<P!Ptr("node", "ptr")>>)
TreeType == TypeDef("tree", <<P!Int1("value"), P!Ptr("tree", "left"), P!Ptr("tree", "right")>>)

Test1 == P!With(<<P!Foo>>, <<P!Ptr("list", "head"), P!Int1("cntr"), P!Int1("dummy")>>,
                <<P!Set("head", New("list")), Assign(P!At1("head", "next"), New("list")),
                  P!Count("cntr", 4, <<P!Set("dummy", Call("foo", <<>>))>>)>>, P!N(42))

Test2 == Program(<<TreeType>>, <<P!Insert, P!Find>>,
           Block(<<P!Ptr("tree", "root"), P!Ptr("tree", "node"), P!Int1("dummy")>>,
             <<P!Set("root", New("tree")), Assign(P!At1("root", "value"), P!N(0)),
               P!Add1(-42), P!Add1(42), P!Add1(21), P!Add1(-21), P!Add1(-84), P!Add1(84),
               Assign(P!At1("root", "left"), Nil), P!Add1(-42), P!Add1(-21), P!Add1(-84),
               Assign(P!At1("root", "right"), Nil), P!Add1(42), P!Add1(21), P!Add1(84),
               P!Set("node", Call("find", <<P!V("root"), P!N(42)>>))>>), P!At1("node", "value"))

CreateCycle == FunctionDef("createCycle", "node", <<>>,
  Block(<<P!Ptr("node", "n1"), P!Ptr("node", "n2")>>,
        <<P!Set("n1", New("node")), P!Set("n2", New("node")),
          Assign(P!At1("n1", "ptr"), P!V("n2")), Assign(P!At1("n2", "ptr"), P!V("n1"))>>), P!V("n1"))
Test3 == Program(<<NodeType>>, <<CreateCycle>>,
           Block(<<P!Ptr("node", "n"), P!Int1("cntr")>>,
                 <<P!Count("cntr", 4, <<P!Set("n", Call("createCycle", <<>>))>>)>>), P!N(42))

\* A list built by a recursion that keeps a pointer in a parameter, one in a
\* local between two ints, and a number in a temporary, at every level.
Build == FunctionDef("build", "list", <<P!Int1("k"), P!Ptr("list", "rest")>>,
  Block(<<P!Int1("t"), P!Ptr("list", "cell"), P!Int1("u")>>,
        <<P!Set("cell", New("list")), Assign(P!At1("cell", "next"), P!V("rest")),
          Assign(P!At1("cell", "num"), Add(P!V("k"), Multiply(P!N(0), New("tree")))),
          If(LessThan(P!N(0), P!V("k")),
             P!Body(<<P!Set("cell", Call("build", <<Subtract(P!V("k"), P!N(1)), P!V("cell")>>))>>),
             P!Body(<<>>))>>), P!V("cell"))
Lists == P!With(<<Build>>, <<P!Int1("x"), P!Ptr("list", "l")>>,
  <<P!Set("l", Call("build", <<P!N(2), P!V("l")>>)), P!Set("l", Call("build", <<P!N(0), P!V("l")>>))>>,
  Add(Path("l", <<"next", "num">>),
      Multiply(P!N(10), Add(Path("l", <<"next", "next", "num">>),
                            Multiply(P!N(10), Path("l", <<"next", "next", "next", "num">>))))))

\* An object that two fields and two variables share, changed through one
\* after it has moved.
Shared == P!Main(<<P!Ptr("tree", "a"), P!Int1("x"), P!Ptr("tree", "b")>>,
  <<P!Set("a", New("tree")), Assign(P!At1("a", "left"), New("tree")),
    Assign(P!At1("a", "right"), P!At1("a", "left")), P!Set("b", P!At1("a", "right")),
    Assign(Path("b", <<"right">>), P!V("a")),
    P!Count("x", 3, <<Assign(Path("a", <<"left", "left">>), New("list"))>>),
    Assign(Path("a", <<"right", "value">>), P!N(7))>>, P!At1("b", "value"))

\* p is in a temporary while memory is allocated.
HeldPointer == P!Main(<<P!Ptr("list", "p"), P!Int1("x")>>,
  <<P!Set("p", New("list")),
    P!Count("x", 2, <<Assign(P!At1("p", "num"), P!N(3)),
                      P!Set("p", Add(P!V("p"), Multiply(P!N(0), New("list"))))>>)>>, P!At1("p", "num"))

\* As many fields as a header can tell apart, and as many locals as root
\* information has bits: the first and the last of each hold pointers.
Wide == Program(<<TypeDef("wide", P!Named("f", "wide", 23, {1, 12, 23})), P!List>>, <<>>,
          Block(P!Named("v", "wide", 32, {1, 16, 32}),
            <<P!Set("v1", New("wide")), P!Set("v16", New("wide")), P!Set("v32", New("wide")),
              Assign(P!At1("v1", "f23"), P!V("v16")), Assign(P!At1("v16", "f12"), P!V("v32")),
              Assign(P!At1("v32", "f1"), P!V("v1")), Assign(P!At1("v32", "f22"), P!N(5)),
              P!Count("v31", 3, <<P!Set("v16", New("list"))>>)>>),
          Add(Path("v1", <<"f23", "f12", "f22">>), Path("v32", <<"f1", "f23", "f12", "f22">>)))

\* Sizes from least to most words, by step.
Sizes(least, most, step) == {least + step * k : k \in 0..((most - least) \div step)}
HeapsOf(pg, sizes) == {[program |-> pg, size |-> k] : k \in sizes}

MCHeaps ==
  HeapsOf(Test1, Sizes(2, 42, 2) \cup {60}) \cup HeapsOf(Test2, Sizes(52, 80, 4) \cup {104})
  \cup HeapsOf(Test3, Sizes(2, 24, 2) \cup {32})
  \cup HeapsOf(Lists, Sizes(6, 54, 6)) \cup HeapsOf(Shared, Sizes(10, 30, 2))
  \cup HeapsOf(HeldPointer, {6, 12, 14}) \cup HeapsOf(Wide, {140, 150, 156, 160})
  \cup UNION {HeapsOf(pg, {12, 18, 24}) : pg \in P!Heap \cup P!NilDereferences}

MCPrograms == {h.program : h \in MCHeaps}
=============================================================================
