------------------------- MODULE FormulaElaboration -------------------------
(***************************************************************************)
(* From the formula of the configuration to the one muParser gets: the     *)
(* meta functions $_, $thisObjectAddress, $parentObjectAddress and         *)
(* $applyGenericFormula, and the escaping of dashes and slashes, which are *)
(* operators to muParser.                                                  *)
(* src/CalculatedVariables/src/CalculatedVariablesEngine.cpp.              *)
(*                                                                         *)
(* An address is a sequence of characters.  A formula is a sequence of     *)
(* pieces: a character, an escaped character or a dollar expression.       *)
(***************************************************************************)
EXTENDS Integers, Sequences, SequencesExt, FiniteSets, FiniteSetsExt

CONSTANT MaxRounds     \* substitutions after which a formula counts as endless

Plain(c) == [piece |-> "char", c |-> c]
Escaped(c) == [piece |-> "escaped", c |-> c]
Dollar(operation, argument) == [piece |-> "dollar", operation |-> operation, argument |-> argument]

NoArgument == [argument |-> "none"]
FormulaId(id) == [argument |-> "formula", id |-> id]
NumLevelsUp(n) == [argument |-> "numLevelsUp", n |-> n]

Special == {"-", "/"}
Repr == [c \in Special |-> IF c = "-" THEN "__dash__" ELSE "__slash__"]

\* escapeSpecialCharactersInParserVariableName: also the name under which
\* registerVariableForCalculatedVariables keeps the variable of an address.
EscapeName(address) ==
  [i \in DOMAIN address |-> IF address[i] \in Special THEN Repr[address[i]] ELSE address[i]]

\* rfind('.', last): the largest position, or none.
Dots(address, last) == {i \in 1 .. last : address[i] = "."}

\* One level of elaborateParent's loop: where to cut, or that there is no dot left.
CutStep(address, cut) ==
  IF cut.ok /\ Dots(address, cut.at - 1) # {} THEN [ok |-> TRUE, at |-> Max(Dots(address, cut.at - 1))]
                                              ELSE [ok |-> FALSE, at |-> 0]

ElaborateParent(address, levels) ==
  LET cut == FoldLeft(LAMBDA c, i : CutStep(address, c), [ok |-> TRUE, at |-> Len(address) + 1],
                      [i \in 1 .. levels |-> i])
  IN  [ok |-> cut.ok, address |-> IF cut.ok THEN SubSeq(address, 1, cut.at - 1) ELSE <<>>]

Characters(text) == [i \in DOMAIN text |-> Plain(text[i])]

\* What takes the place of a dollar expression, or an exception.
Replacement(d, address, generics) ==
  LET parent == ElaborateParent(address, d.argument.n)
  IN  CASE d.operation \in {"_", "thisObjectAddress"} ->
             [ok |-> d.argument = NoArgument, pieces |-> Characters(EscapeName(address))]
        [] d.operation = "applyGenericFormula" ->
             IF d.argument.argument = "formula" /\ d.argument.id \in DOMAIN generics
             THEN [ok |-> TRUE, pieces |-> generics[d.argument.id]]
             ELSE [ok |-> FALSE, pieces |-> <<>>]
        [] d.operation = "parentObjectAddress" ->
             IF d.argument.argument = "numLevelsUp" /\ parent.ok
             THEN [ok |-> TRUE, pieces |-> Characters(EscapeName(parent.address))]
             ELSE [ok |-> FALSE, pieces |-> <<>>]
        [] d.operation \notin {"_", "thisObjectAddress", "applyGenericFormula", "parentObjectAddress"} ->
             [ok |-> FALSE, pieces |-> <<>>]

\* escapeSpecialCharactersInFormula, once no dollar expression is left.
EscapeFormula(formula) ==
  [i \in DOMAIN formula |-> IF formula[i].piece = "escaped" THEN Repr[formula[i].c] ELSE formula[i].c]

Refused == [outcome |-> "refused"]
Endless == [outcome |-> "endless"]

RECURSIVE Elaborate(_, _, _, _)

\* One round for the first dollar expression.  Nothing bounds the rounds: a
\* generic formula that applies itself is expanded for ever.
Elaborate(formula, address, generics, rounds) ==
  LET dollars == {i \in DOMAIN formula : formula[i].piece = "dollar"}
      first == Min(dollars)
      new == Replacement(formula[first], address, generics)
  IN  IF dollars = {} THEN [outcome |-> "formula", formula |-> EscapeFormula(formula)]
      ELSE IF rounds = 0 THEN Endless
      ELSE IF ~new.ok THEN Refused
      ELSE Elaborate(SubSeq(formula, 1, first - 1) \o new.pieces \o SubSeq(formula, first + 1, Len(formula)),
                     address, generics, rounds - 1)

ElaborateFormula(formula, address, generics) == Elaborate(formula, address, generics, MaxRounds)

\* loadGenericFormulas: a name that is declared twice ends the start.
GenericsAccepted(declared) ==
  \A i, j \in DOMAIN declared : i # j => declared[i].name # declared[j].name

LoadGenericFormulas(declared) ==
  [name \in {declared[i].name : i \in DOMAIN declared} |->
     declared[CHOOSE i \in DOMAIN declared : declared[i].name = name].formula]
=============================================================================
