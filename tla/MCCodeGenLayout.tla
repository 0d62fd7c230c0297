-------------------------- MODULE MCCodeGenLayout --------------------------
(* CodeGen, and its refinement of FrameLayout, on the programs of L2Programs. *)
EXTENDS CodeGenLayout

P == INSTANCE L2Programs
S == INSTANCE L2Semantics

MCPrograms == P!AllPrograms
MCIdentifiers == P!UsedIdentifiers

\* The lists of parameters and of declarations in them.
ListsOf(pg) ==
  {pg.statements.decls}
  \cup UNION {{pg.function_defs[i].parameters, pg.function_defs[i].function_body.decls} : i \in DOMAIN pg.function_defs}
MCNameLists == {[i \in DOMAIN ds |-> ds[i].id] : ds \in UNION {ListsOf(pg) : pg \in MCPrograms}}
MCLeaks == 0..63

\* A program is refused only if it names what is not declared, declares a
\* name twice, or declares a variable in an inner block.
RejectsOnlyIllFormed == phase = "error" => ~S!WellFormed(prog, <<>>)

\* The parameters of the last function.
Leaked(pg) == IF pg.function_defs = <<>> THEN <<>> ELSE S!Scope(Last(pg.function_defs).parameters)

\* No other program is accepted than those in which every name is declared,
\* in Entry perhaps as a parameter of the last function.
AcceptsNothingElse == phase = "done" => S!WellFormed(prog, Leaked(prog))
=============================================================================
