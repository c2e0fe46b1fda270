------------------------------ MODULE MuParser ------------------------------
(***************************************************************************)
(* How a calculated variable's formula is compiled and evaluated: the      *)
(* token reader's syntax flags, the two stack translation to byte code     *)
(* with its optimizer, and the machine that runs the code.                 *)
(* src/CalculatedVariables/ext_components/muparser-amalgamated.            *)
(*                                                                         *)
(* A formula is a sequence of lexemes.  Numbers are the residues modulo a  *)
(* prime: the optimizer's rewritings are identities of every field, and    *)
(* rounding is left out.  What the server does not use is left out too:    *)
(* strings, postfix and user defined binary operators, bulk mode.          *)
(***************************************************************************)
EXTENDS Integers, Sequences, SequencesExt, FiniteSets

CONSTANT Prime

Numbers == 0 .. Prime - 1

Truth(b) == IF b THEN 1 ELSE 0

Quotient(x, y) == IF y = 0 THEN 0 ELSE CHOOSE z \in Numbers : (z * y) % Prime = x

Power(x, y) == FoldLeft(LAMBDA p, i : (p * x) % Prime, 1, [i \in 1 .. y |-> i])

\* The built in binary operators.
Calculate(op, x, y) ==
  CASE op = "ADD" -> (x + y) % Prime
    [] op = "SUB" -> (x - y) % Prime
    [] op = "MUL" -> (x * y) % Prime
    [] op = "DIV" -> Quotient(x, y)
    [] op = "POW" -> Power(x, y)
    [] op = "LT" -> Truth(x < y)
    [] op = "GT" -> Truth(x > y)
    [] op = "LE" -> Truth(x <= y)
    [] op = "GE" -> Truth(x >= y)
    [] op = "EQ" -> Truth(x = y)
    [] op = "NEQ" -> Truth(x # y)
    [] op = "LAND" -> Truth(x # 0 /\ y # 0)
    [] op = "LOR" -> Truth(x # 0 \/ y # 0)

Comparisons == {"LT", "GT", "LE", "GE", "EQ", "NEQ"}
Operators == {"ADD", "SUB", "MUL", "DIV", "POW", "LAND", "LOR"} \cup Comparisons

\* The functions of a formula: the number of arguments, -1 for any number.
Functions == [abs |-> 1, atan2 |-> 2, sum |-> -1]

CallFunction(fun, arguments) ==
  CASE fun = "negate" -> (0 - arguments[1]) % Prime
    [] fun = "abs" -> arguments[1]
    [] fun = "atan2" -> (arguments[1] + 2 * arguments[2]) % Prime
    [] fun = "sum" -> FoldLeft(LAMBDA s, a : (s + a) % Prime, 0, arguments)

-----------------------------------------------------------------------------
(* The token reader: after each token, the kinds that may not come next.  *)

Operand == {"VAL", "VAR", "FUN", "BO", "INFIXOP"}
Conditional == {"IF", "ELSE"}

StartFlags == {"OPT", "BC", "ASSIGN", "ARG_SEP"} \cup Conditional

\* m_iSynFlags after a token; "FUN" allows nothing but its bracket.
FlagsAfter(kind, last) ==
  CASE kind \in {"OPT", "ASSIGN"} -> {"BC", "OPT", "ARG_SEP", "ASSIGN", "END"} \cup Conditional
    [] kind = "BO" -> {"OPT", "END", "ARG_SEP", "ASSIGN"} \cup Conditional
                      \cup (IF last = "FUN" THEN {} ELSE {"BC"})
    [] kind = "BC" -> Operand \cup {"ASSIGN"}
    [] kind \in Conditional -> {"BC", "END", "OPT"} \cup Conditional
    [] kind = "ARG_SEP" -> {"BC", "OPT", "END", "ARG_SEP", "ASSIGN"}
    [] kind = "INFIXOP" -> {"INFIXOP", "OPT", "BC", "ASSIGN"}
    [] kind = "FUN" -> {"VAL", "VAR", "FUN", "INFIXOP", "BC", "OPT", "END", "ARG_SEP", "ASSIGN"} \cup Conditional
    [] kind = "VAL" -> Operand \cup {"ASSIGN"}
    [] kind = "VAR" -> Operand
    [] kind = "END" -> {}

\* The kind of a lexeme.  A minus where no operator may stand is a sign.
Kind(lexeme, flags) ==
  CASE lexeme.code = "SUB" /\ "OPT" \in flags -> "INFIXOP"
    [] lexeme.code \in Operators /\ ~(lexeme.code = "SUB" /\ "OPT" \in flags) -> "OPT"
    [] lexeme.code = "FUNC" -> "FUN"
    [] lexeme.code \notin Operators \cup {"FUNC"} -> lexeme.code

TokenOf(lexeme, kind) ==
  IF kind = "INFIXOP" THEN [code |-> "INFIX", fun |-> "negate"] ELSE lexeme

-----------------------------------------------------------------------------
(* Byte code.  VAR, VAL and VARMUL stand for ptr * data + data2. *)

Null == "null"

\* The code with the depth the stack is taken to have, and the largest yet.
Emit(s, instruction, depth) ==
  [s EXCEPT !.code = Append(@, instruction), !.pos = depth,
            !.max = IF depth > @ THEN depth ELSE @]

AddVar(s, v) == Emit(s, [cmd |-> "VAR", ptr |-> v, data |-> 1, data2 |-> 0], s.pos + 1)
AddVal(s, x) == Emit(s, [cmd |-> "VAL", ptr |-> Null, data |-> 0, data2 |-> x], s.pos + 1)

\* Two instructions become one; the depth stays, so that it is an upper bound.
Replace(s, instruction) ==
  [s EXCEPT !.code = Append(SubSeq(@, 1, Len(@) - 2), instruction)]

JoinPtr(a, b) == IF a.ptr = Null THEN b.ptr ELSE a.ptr

SamePtr(a, b) == a.ptr = b.ptr

\* a + b or a - b: a constant with a multiple of a variable, or two
\* multiples of one variable.
Linear == {"VAR", "VARMUL"}
SumFolds(a, b) ==
  \/ a.cmd \in Linear /\ b.cmd = "VAL"
  \/ a.cmd = "VAL" /\ b.cmd \in Linear
  \/ a.cmd \in Linear /\ b.cmd \in Linear /\ SamePtr(a, b)

\* Faulty variant of FoldSum: the constant keeps its sign.
FoldSumUnsigned(a, b, op) ==
  [cmd |-> "VARMUL", ptr |-> JoinPtr(a, b),
   data |-> Calculate(op, a.data, b.data), data2 |-> Calculate("ADD", a.data2, b.data2)]

FoldSum(a, b, op) ==
  [cmd |-> "VARMUL", ptr |-> JoinPtr(a, b),
   data |-> Calculate(op, a.data, b.data), data2 |-> Calculate(op, a.data2, b.data2)]

\* x * 2, 2 * x: the sum of the two constants, of which one is 0.
FoldProduct(a, b) ==
  [cmd |-> "VARMUL", ptr |-> JoinPtr(a, b),
   data |-> Calculate("ADD", a.data2, b.data2), data2 |-> 0]

\* (3x + 1) * 2, 2 * (3x + 1).
FoldMultiple(a, b) ==
  LET factor == IF b.cmd = "VAL" THEN b.data2 ELSE a.data2
      linear == IF b.cmd = "VAL" THEN a ELSE b
  IN  [cmd |-> "VARMUL", ptr |-> JoinPtr(a, b),
       data |-> Calculate("MUL", linear.data, factor), data2 |-> Calculate("MUL", linear.data2, factor)]

VarPow == <<"VAR", "VARPOW2", "VARPOW3", "VARPOW4">>

\* The last two instructions and an operator: one instruction, or none.
Optimized(a, b, op) ==
  IF a.cmd = "VAL" /\ b.cmd = "VAL"
  THEN <<[a EXCEPT !.data2 = Calculate(op, a.data2, b.data2)]>>
  ELSE IF op = "POW" /\ a.cmd = "VAR" /\ b.cmd = "VAL" /\ b.data2 \in 2 .. 4
  THEN <<[a EXCEPT !.cmd = VarPow[b.data2]]>>
  ELSE IF op \in {"ADD", "SUB"} /\ SumFolds(a, b) THEN <<FoldSum(a, b, op)>>
  ELSE IF op = "MUL" /\ {a.cmd, b.cmd} = {"VAR", "VAL"} THEN <<FoldProduct(a, b)>>
  ELSE IF op = "MUL" /\ {a.cmd, b.cmd} = {"VARMUL", "VAL"} THEN <<FoldMultiple(a, b)>>
  ELSE IF op = "MUL" /\ a.cmd = "VAR" /\ b.cmd = "VAR" /\ SamePtr(a, b)
  THEN <<[a EXCEPT !.cmd = "VARPOW2"]>>
  ELSE IF op = "DIV" /\ a.cmd = "VARMUL" /\ b.cmd = "VAL" /\ b.data2 # 0
  THEN <<[a EXCEPT !.data = Quotient(@, b.data2), !.data2 = Quotient(@, b.data2)]>>
  ELSE <<>>

AddOp(s, op) ==
  LET n == Len(s.code)
      better == IF n >= 2 THEN Optimized(s.code[n - 1], s.code[n], op) ELSE <<>>
  IN  IF better # <<>> THEN Replace(s, better[1]) ELSE Emit(s, [cmd |-> op], s.pos - 1)

AddIfElse(s, cmd) == Emit(s, [cmd |-> cmd, offset |-> 0], s.pos)
AddAssignOp(s, v) == Emit(s, [cmd |-> "ASSIGN", ptr |-> v], s.pos - 1)
AddFun(s, fun, argc, marked) ==
  Emit(s, [cmd |-> "FUNC", fun |-> fun, argc |-> marked], s.pos - argc + 1)

\* The jumps: IF to its ELSE, ELSE to its ENDIF, matched with two stacks.
JumpStep(j, i) ==
  LET cmd == j.code[i].cmd
  IN  CASE cmd = "IF" -> [j EXCEPT !.ifs = Append(@, i)]
        [] cmd = "ELSE" -> [j EXCEPT !.elses = Append(@, i), !.ifs = Front(@),
                                     !.code[Last(j.ifs)].offset = i - Last(j.ifs)]
        [] cmd = "ENDIF" -> [j EXCEPT !.elses = Front(@),
                                      !.code[Last(j.elses)].offset = i - Last(j.elses)]
        [] cmd \notin {"IF", "ELSE", "ENDIF"} -> j

Finalize(code) ==
  FoldLeft(JumpStep, [code |-> code, ifs |-> <<>>, elses |-> <<>>],
           [i \in 1 .. Len(code) |-> i]).code
-----------------------------------------------------------------------------
(* Translation.  A value on the value stack is the variable it is, or "". *)

Failed(s) == [s EXCEPT !.ok = FALSE]

Precedence(token) ==
  CASE token.code = "ASSIGN" -> -1
    [] token.code \in Conditional -> 0
    [] token.code = "LOR" -> 1
    [] token.code = "LAND" -> 2
    [] token.code \in Comparisons -> 4
    [] token.code \in {"ADD", "SUB"} -> 5
    [] token.code \in {"MUL", "DIV", "INFIX"} -> 6
    [] token.code = "POW" -> 7

RightAssociative(token) == token.code = "POW"

TopCode(s) == IF s.opts = <<>> THEN "none" ELSE Last(s.opts).code

PopValues(s, n) == [s EXCEPT !.vals = SubSeq(@, 1, Len(@) - n)]
PushValue(s, v) == [s EXCEPT !.vals = Append(@, v)]
PopOperator(s) == [s EXCEPT !.opts = Front(@)]
PushOperator(s, token) == [s EXCEPT !.opts = Append(@, token)]

\* The function or sign on top takes its arguments from the value stack.
ApplyFunc(s, argc) ==
  LET f == Last(s.opts)
      required == IF f.code = "INFIX" THEN 1 ELSE Functions[f.fun]
      marked == IF required = -1 THEN -argc ELSE argc
  IN  IF TopCode(s) \notin {"FUNC", "INFIX"} THEN s
      ELSE IF (required >= 0 /\ argc # required) \/ (required = -1 /\ argc = 0) \/ argc > Len(s.vals)
      THEN Failed(s)
      ELSE PushValue(AddFun(PopValues(PopOperator(s), argc), f.fun, argc, marked), "")

ApplyBinOprt(s) ==
  LET op == Last(s.opts).code
      target == s.vals[Len(s.vals) - 1]
      rest == PopValues(PopOperator(s), 2)
  IN  IF Len(s.vals) < 2 \/ (op = "ASSIGN" /\ target = "") THEN Failed(s)
      ELSE PushValue(IF op = "ASSIGN" THEN AddAssignOp(rest, target) ELSE AddOp(rest, op), "")

RECURSIVE ApplyIfElse(_)

\* Every conditional that is complete: three values become one.
ApplyIfElse(s) ==
  IF ~s.ok \/ TopCode(s) # "ELSE" THEN s
  ELSE IF Len(s.vals) < 3 \/ Len(s.opts) < 2 \/ s.opts[Len(s.opts) - 1].code # "IF" THEN Failed(s)
  ELSE ApplyIfElse(AddIfElse(PushValue(PopValues(PopOperator(PopOperator(s)), 3), ""), "ENDIF"))

RECURSIVE ApplyRemainingOprt(_)

\* Down to the innermost open bracket or condition.
ApplyRemainingOprt(s) ==
  IF ~s.ok \/ TopCode(s) \in {"none", "BO", "IF"} THEN s
  ELSE IF TopCode(s) = "FUNC" THEN Failed(s)
  ELSE ApplyRemainingOprt(
         CASE TopCode(s) = "INFIX" -> ApplyFunc(s, 1)
           [] TopCode(s) = "ELSE" -> ApplyIfElse(s)
           [] TopCode(s) \notin {"INFIX", "ELSE"} -> ApplyBinOprt(s))

\* An operator below the new one waits for it.
Waits(top, token) ==
  IF top.code = token.code
  THEN IF RightAssociative(token) THEN Precedence(top) <= Precedence(token)
                                  ELSE Precedence(top) < Precedence(token)
  ELSE Precedence(top) < Precedence(token)

RECURSIVE ApplyStronger(_, _)

ApplyStronger(s, token) ==
  IF ~s.ok \/ TopCode(s) \in {"none", "BO", "IF", "ELSE"} THEN s
  ELSE IF Waits(Last(s.opts), token) THEN s
  ELSE ApplyStronger(IF TopCode(s) = "INFIX" THEN ApplyFunc(s, 1) ELSE ApplyBinOprt(s), token)

\* Behind a bracket of argc arguments: several of them need a function in front.
AfterBracket(s, argc) ==
  IF TopCode(s) = "FUNC" THEN ApplyFunc(s, argc)
  ELSE IF argc > 1 THEN Failed(s) ELSE s

PopBracket(s) ==
  IF ~s.ok \/ TopCode(s) # "BO" THEN s
  ELSE AfterBracket([PopOperator(s) EXCEPT !.args = Front(@)], Last(s.args))

\* A closing bracket: an empty pair has no argument.
CloseBracket(s) ==
  PopBracket(ApplyRemainingOprt(IF s.last = "BO" THEN [s EXCEPT !.args[Len(s.args)] = @ - 1] ELSE s))

Colon(s, token) ==
  LET done == ApplyRemainingOprt([s EXCEPT !.ifs = @ - 1])
  IN  IF s.ifs = 0 THEN Failed(s) ELSE PushOperator(AddIfElse(done, "ELSE"), token)

BinaryOperator(s, token) ==
  LET operator(done) == PushOperator(IF token.code = "IF" THEN AddIfElse(done, "IF") ELSE done, token)
  IN  operator(ApplyStronger(IF token.code = "IF" THEN [s EXCEPT !.ifs = @ + 1] ELSE s, token))

\* One round of CreateRPN.
Translate(s, token) ==
  CASE token.code = "VAR" -> AddVar(PushValue(s, token.var), token.var)
    [] token.code = "VAL" -> AddVal(PushValue(s, ""), token.value)
    [] token.code = "ELSE" -> Colon(s, token)
    [] token.code = "ARG_SEP" -> ApplyRemainingOprt([s EXCEPT !.args[Len(s.args)] = @ + 1])
    [] token.code = "END" -> ApplyRemainingOprt(s)
    [] token.code = "BC" -> CloseBracket(s)
    [] token.code \in Operators \cup {"IF", "ASSIGN"} -> BinaryOperator(s, token)
    [] token.code = "BO" -> PushOperator([s EXCEPT !.args = Append(@, 1)], token)
    [] token.code \in {"INFIX", "FUNC"} -> PushOperator(s, token)

\* ReadNextToken and the round for what it returns.
ReadLexeme(s, lexeme) ==
  LET kind == Kind(lexeme, s.flags)
      brackets == s.brackets + (CASE kind = "BO" -> 1 [] kind = "BC" -> -1
                                  [] kind \notin {"BO", "BC"} -> 0)
      refused == kind \in s.flags \/ (kind = "ASSIGN" /\ "OPT" \in s.flags) \/ brackets < 0 \/ (kind = "END" /\ brackets > 0)
      read == [s EXCEPT !.flags = FlagsAfter(kind, s.last), !.brackets = brackets]
  IN  IF ~s.ok \/ refused THEN Failed(s)
      ELSE [Translate(read, TokenOf(lexeme, kind)) EXCEPT !.last = kind]

CreateRPN(formula) ==
  LET start == [flags |-> StartFlags, brackets |-> 0, last |-> "START", opts |-> <<>>,
                vals |-> <<>>, args |-> <<1>>, code |-> <<>>, pos |-> 0, max |-> 0,
                ifs |-> 0, ok |-> TRUE]
      all == FoldLeft(ReadLexeme, start, Append(formula, [code |-> "END"]))
  IN  IF ~all.ok \/ all.ifs > 0 \/ Len(all.args) # 1 \/ all.vals = <<>>
      THEN [ok |-> FALSE]
      ELSE [ok |-> TRUE, code |-> Finalize(all.code), max |-> all.max, result |-> all.args[1]]

-----------------------------------------------------------------------------
(* Evaluation, ParseCmdCode.  "fits" says that no step was above the depth *)
(* the stack buffer was made for.                                          *)

Pushed(m, x) == [m EXCEPT !.stack = Append(@, x), !.pc = @ + 1]
Popped(stack, n) == SubSeq(stack, 1, Len(stack) - n)

Execute(m, i) ==
  LET n == Len(m.stack)
      variable == m.vars[i.ptr]
      linear == (variable * i.data + i.data2) % Prime
      exponent == CHOOSE e \in 2 .. 4 : VarPow[e] = i.cmd
      argc == IF i.argc < 0 THEN -i.argc ELSE i.argc
  IN  CASE i.cmd \in Operators ->
             Pushed([m EXCEPT !.stack = Popped(@, 2)], Calculate(i.cmd, m.stack[n - 1], m.stack[n]))
        [] i.cmd = "VAL" -> Pushed(m, i.data2)
        [] i.cmd = "VAR" -> Pushed(m, variable)
        [] i.cmd = "VARMUL" -> Pushed(m, linear)
        [] i.cmd \in {"VARPOW2", "VARPOW3", "VARPOW4"} -> Pushed(m, Power(variable, exponent))
        [] i.cmd = "ASSIGN" ->
             [Pushed([m EXCEPT !.stack = Popped(@, 2)], m.stack[n]) EXCEPT !.vars[i.ptr] = m.stack[n]]
        [] i.cmd = "IF" -> [m EXCEPT !.stack = Popped(@, 1),
                                     !.pc = @ + 1 + (IF m.stack[n] = 0 THEN i.offset ELSE 0)]
        [] i.cmd = "ELSE" -> [m EXCEPT !.pc = @ + 1 + i.offset]
        [] i.cmd = "ENDIF" -> [m EXCEPT !.pc = @ + 1]
        [] i.cmd = "FUNC" -> Pushed([m EXCEPT !.stack = Popped(@, argc)],
                                    CallFunction(i.fun, SubSeq(m.stack, n - argc + 1, n)))

RECURSIVE RunCode(_, _)

RunCode(m, program) ==
  IF m.pc > Len(program.code) THEN m
  ELSE LET next == Execute(m, program.code[m.pc])
       IN  RunCode([next EXCEPT !.fits = @ /\ Len(next.stack) <= program.max], program)

\* The results are the bottom of the stack; the last one is the value.
ParseCmdCode(program, vars) ==
  LET m == RunCode([pc |-> 1, stack |-> <<>>, vars |-> vars, fits |-> TRUE], program)
  IN  [value |-> m.stack[program.result], vars |-> m.vars, fits |-> m.fits]
=============================================================================
