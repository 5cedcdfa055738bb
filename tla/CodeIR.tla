-------------------------------- MODULE CodeIR --------------------------------
(***************************************************************************)
(* The intermediate representation that suboperators build and the C       *)
(* backend prints: expressions that derive their type from their children, *)
(* statements, and blocks of statements. Block 1 is the body of the        *)
(* function; an if or a while statement names the block that it guards.    *)
(*                                                                         *)
(* What is checked of a program is what the C compiler would otherwise be  *)
(* the first to see, or would not: the IR itself checks almost nothing.    *)
(***************************************************************************)
EXTENDS RuntimeLibrary, SequencesExt

-----------------------------------------------------------------------------
(* Expressions: what they are, a name (an operator, a field, a function),  *)
(* the variable or the state they refer to, their type and children.       *)

NoIU == [op |-> "", part |-> "", id |-> <<"", 0>>, ty |-> "", size |-> 0]
VarId(at, part, iu) == [at |-> at, part |-> part, iu |-> iu]
NoVar == VarId(0, "", NoIU)
Expr(code, name, type, kids) ==
  [code |-> code, name |-> name, var |-> NoVar, at |-> 0, type |-> type, kids |-> kids]

(* A variable goes by the position of the suboperator it belongs to and    *)
(* what it is for there, or by the IU whose value it holds. IUs of a scan  *)
(* have names; others go by their address.                                 *)
OpVar(at, part, type) == [id |-> VarId(at, part, NoIU), type |-> type]
Identifier(iu) == IF iu.part = "scan" THEN [NoIU EXCEPT !.id = iu.id] ELSE iu
IUVar(iu) == [id |-> VarId(0, "iu", Identifier(iu)), type |-> IRTypes[iu.ty]]
VarRef(v) == [Expr("VarRef", "", v.type, << >>) EXCEPT !.var = v.id]
Const(type) == Expr("Const", "", type, << >>)
Cast(e, type) == Expr("Cast", "", type, <<e>>)
RefTo(e) == Expr("Ref", "", Ptr(e.type), <<e>>)

(* Nothing but the type's own memory layout says it is a pointer.          *)
Pointee_Itself(t) == t
Pointee(t) == IF IsPtr(t) THEN Tail(t) ELSE << >>
Deref(e) == Expr("Deref", "", Pointee(e.type), <<e>>)
StructAccess(e, field) ==
  LET s == Deref(e)
  IN Expr("StructAccess", field, IF Len(s.type) = 1 THEN FieldType(s.type[1], field) ELSE << >>, <<s>>)

Comparisons == {"Eq", "Neq", "Less", "LessEqual", "Greater", "GreaterEqual"}
ArithType(code, left) == IF code \in Comparisons THEN Bool ELSE left.type
Arith(code, left, right) == Expr("Arith", code, ArithType(code, left), <<left, right>>)
Plus(left, right) == Arith("Add", left, right)
Invoke(f, args) ==
  Expr("Invoke", f, IF IsFunction(f) THEN Functions[f].returns ELSE << >>, args)
Memcpy(to, from, width) == Expr("Memcpy", "", Ptr(Void), <<to, from, width>>)

(* The state of the suboperator at a position: the function's argument is  *)
(* an array of pointers to them.                                           *)
GlobalState == OpVar(0, "global_state", Ptr(Ptr(Void)))
AccessGlobalState(i) == Deref(Plus(VarRef(GlobalState), [Const(UI4) EXCEPT !.at = i]))
State(i, struct) == Cast(AccessGlobalState(i), Ptr(<<struct>>))
Load(i, struct, field) == StructAccess(State(i, struct), field)

-----------------------------------------------------------------------------
(* Statements. The expressions of an assignment are its target and value.  *)

Stmt(code, var, exprs, body) == [code |-> code, var |-> var, exprs |-> exprs, body |-> body]
NoDeclaration == [id |-> NoVar, type |-> Void]
Declare(v) == Stmt("declare", v, << >>, 0)
Store(target, e) == Stmt("assign", NoDeclaration, <<target, e>>, 0)
Assign(v, e) == Store(VarRef(v), e)
Define(v, e) == <<Declare(v), Assign(v, e)>>
Do(e) == Stmt("do", NoDeclaration, <<e>>, 0)
If(e, body) == Stmt("if", NoDeclaration, <<e>>, body)
While(e, body) == Stmt("while", NoDeclaration, <<e>>, body)
Return(e) == Stmt("return", NoDeclaration, <<e>>, 0)

(* The program as it is printed: statements in order, each with the blocks *)
(* it is nested in.                                                        *)
RECURSIVE Lines(_, _, _)
Lines(blocks, b, scope) ==
  FlattenSeq([i \in DOMAIN blocks[b] |->
    LET s == blocks[b][i]
    IN <<[stmt |-> s, scope |-> Append(scope, b)]>>
         \o (IF s.body = 0 THEN << >> ELSE Lines(blocks, s.body, Append(scope, b)))])

RECURSIVE Within(_)
Within(e) == <<e>> \o FlattenSeq([i \in DOMAIN e.kids |-> Within(e.kids[i])])
ExprsOf(line) == FlattenSeq([i \in DOMAIN line.stmt.exprs |-> Within(line.stmt.exprs[i])])
VarsIn(e) == {w.var : w \in {x \in ToSet(Within(e)) : x.code = "VarRef"}}

-----------------------------------------------------------------------------
(* Printing. Operators are printed between their operands, in no           *)
(* parentheses: the tree is kept if C's precedence says so. Strings are    *)
(* compared, and lists searched, by calls.                                 *)

Infix == [Multiply |-> 5, Divide |-> 5, Add |-> 4, Subtract |-> 4, Less |-> 3, LessEqual |-> 3,
          Greater |-> 3, GreaterEqual |-> 3, Eq |-> 2, Neq |-> 2, And |-> 1, Or |-> 0]
Calls == {"StrEquals", "InList", "NotLikeTokens"}
Binds(e) == IF e.code = "Arith" /\ e.name \in DOMAIN Infix THEN Infix[e.name] ELSE 6
KeepsTree(e) ==
  e.code = "Arith" /\ e.name \in DOMAIN Infix =>
    Binds(e.kids[1]) >= Binds(e) /\ Binds(e.kids[2]) > Binds(e)

(* The type that C sees. The IR gives calls and connectives the type of    *)
(* their left operand.                                                     *)
Seen(e) == IF e.code = "Arith" /\ e.name \in Calls \cup {"And", "Or"} THEN Bool ELSE e.type

IsPlace(e) == e.code \in {"VarRef", "Deref", "StructAccess"}
ArithSound(e) ==
  LET l == CType(Seen(e.kids[1]))
      r == CType(Seen(e.kids[2]))
  IN CASE e.name \in Calls -> l = Ptr(Char) /\ r = Ptr(Char)
       [] e.name = "Add" /\ IsPtr(l) -> l # Ptr(Void) /\ IsInteger(r)
       [] e.name \in {"Eq", "Neq"} /\ IsPtr(l) -> l = r
       [] OTHER -> e.name \in DOMAIN Infix /\ IsNumber(l) /\ IsNumber(r)
ExprSound(e) ==
  /\ KeepsTree(e)
  /\ CASE e.code = "Deref" -> IsPtr(e.kids[1].type) /\ e.kids[1].type # Ptr(Void)
       [] e.code = "StructAccess" -> e.type # << >>
       [] e.code = "Ref" -> IsPlace(e.kids[1])
       [] e.code = "Arith" -> ArithSound(e)
       [] e.code = "Invoke" ->
            /\ IsFunction(e.name) /\ Len(e.kids) = Len(Functions[e.name].args)
            /\ \A i \in DOMAIN e.kids : Fits(Functions[e.name].args[i], Seen(e.kids[i]))
       [] e.code = "Memcpy" ->
            IsPtr(CType(e.kids[1].type)) /\ IsPtr(CType(e.kids[2].type)) /\ IsInteger(e.kids[3].type)
       [] OTHER -> TRUE
StmtSound(s) ==
  CASE s.code = "assign" -> IsPlace(s.exprs[1]) /\ Fits(s.exprs[1].type, Seen(s.exprs[2]))
    [] s.code \in {"if", "while"} -> IsNumber(Seen(s.exprs[1])) \/ IsPtr(CType(Seen(s.exprs[1])))
    [] s.code = "declare" -> CType(s.var.type) \in Arithmetic \/ IsPtr(CType(s.var.type))
    [] OTHER -> TRUE
=============================================================================
