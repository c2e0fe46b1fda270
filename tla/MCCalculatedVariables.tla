----------------------- MODULE MCCalculatedVariables -----------------------
(* Instances of CalculatedVariables for TLC. *)
EXTENDS CalculatedVariables, TLC

CONSTANTS t1, t2, k, a, b, s, x

Good(n) == [status |-> "good", value |-> n]
Bad == [status |-> "bad", value |-> Null]

\* Two numbers and an empty variant with a good status.
MCData == {Good(0), Good(1), Good(Null)}

\* The sum tells apart which operands were used.
Sum(cv, operands) == FoldFunction(+, 0, operands)

\* s = a + b + k with k constant, x = s + b with status a + b: x is at the
\* end, and its operands are joined by s.
Intermediate ==
    [order |-> <<k, a, b, s, x>>,
     value |-> k :> <<>> @@ s :> <<a, b, k>> @@ x :> <<s, b>>,
     status |-> x :> <<a, b>>,
     initial |-> a :> Good(0) @@ b :> Waiting,
     observed |-> {}, manual |-> {}]

\* x = a with status b; a listener of somebody else keeps x.
WithStatus ==
    [order |-> <<a, b, x>>,
     value |-> x :> <<a>>,
     status |-> x :> <<b>>,
     initial |-> a :> Bad @@ b :> Good(0),
     observed |-> {x}, manual |-> {}]

\* A chain a, s, x with s updated manually; x has an initial value; k is
\* used by nothing.
Manual ==
    [order |-> <<a, k, s, x>>,
     value |-> s :> <<a>> @@ x :> <<s>>,
     status |-> <<>>,
     initial |-> a :> Bad @@ k :> Good(0) @@ x :> Good(0),
     observed |-> {}, manual |-> {s}]

\* s is used before it is registered.
Misordered ==
    [order |-> <<a, x, s>>,
     value |-> s :> <<a>> @@ x :> <<s>>,
     status |-> <<>>, initial |-> a :> Good(0), observed |-> {}, manual |-> {}]

MCConfigurations == {Intermediate, WithStatus, Manual, Misordered}

\* The documentation's first example: s = a + b, x = s + k + b, k a variable.
Documented ==
    [order |-> <<a, b, k, s, x>>,
     value |-> s :> <<a, b>> @@ x :> <<s, k, b>>,
     status |-> <<>>,
     initial |-> a :> Good(0) @@ b :> Good(0) @@ k :> Good(0),
     observed |-> {}, manual |-> {}]

MCDocumented == {Documented}
=============================================================================
