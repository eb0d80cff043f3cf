--------------------------- MODULE MCTryExecution ---------------------------
(***************************************************************************)
(* Functions with a loop around a try statement that has another one in    *)
(* its body, its handler, its else suite or its finally suite.             *)
(***************************************************************************)
EXTENDS TryExecution

Bare(n, body) == <<Handler(n, FALSE, FALSE, body)>>
Typed(n, body) == <<Handler(n, TRUE, TRUE, body)>>

(* The inner statement: it falls through, returns, leaves the loop or      *)
(* raises in every suite where that makes a difference.                    *)
InnerTries ==
    {Try(20, b, h, <<>>, f) :
       b \in {<<Call(21)>>, <<Call(21), Return(22)>>},
       h \in {<<>>, Bare(23, <<Raise(24)>>), Typed(23, <<Call(25)>>)},
       f \in {<<>>, <<Call(26)>>, <<Break>>, <<Return(27)>>,
             <<Raise(28)>>}}
    \ {Try(20, b, <<>>, <<>>, <<>>) :
         b \in {<<Call(21)>>, <<Call(21), Return(22)>>}}

(* The outer one.                                                          *)
Around(slot, s) ==
    LET suite(at, other) == IF slot = at THEN <<s>> ELSE other
        handled == Bare(11, suite("handler", <<Call(12)>>))
        named == Typed(11, suite("handler", <<Return(12)>>))
        made(h, f) == Try(10, suite("body", <<Call(13)>>), h,
                          suite("else", <<>>), suite("final", f))
    IN {made(handled, <<Call(14)>>), made(handled, <<>>),
        made(named, <<Continue>>)}
       \cup (IF slot \in {"handler", "else"} THEN {}
             ELSE {made(<<>>, <<Call(14)>>)})

Nested ==
    {<<While(1, <<s>>, <<>>), Call(2)>> :
       s \in UNION {Around(slot, t) : slot \in {"body", "handler", "else", "final"},
                                      t \in InnerTries}}

(* Cases of another shape: a statement at the end of the function, several *)
(* handlers, a loop inside a protected suite, and three levels.            *)
Others ==
    LET last == Try(30, <<Call(31)>>, Typed(32, <<Call(33)>>), <<>>, <<>>)
        several ==
            Try(30, <<Call(31)>>,
                Typed(32, <<Raise(33)>>)
                  \o <<Handler(34, TRUE, FALSE, <<Return(35)>>)>>
                  \o Bare(36, <<Call(37)>>), <<Call(38)>>, <<Call(39)>>)
        loop == While(40, <<Try(41, <<Call(42), Continue>>, <<>>, <<>>,
                                <<Call(43)>>)>>, <<Call(44), Return(45)>>)
        inLoop == Try(30, <<loop>>, Typed(32, <<Call(33)>>), <<>>, <<Call(39)>>)
        three(f) ==
            Try(30, <<Try(31, <<Try(32, <<Return(33)>>, <<>>, <<>>, <<Call(34)>>)>>,
                          <<>>, <<>>, f)>>, <<>>, <<>>, <<Call(36)>>)
        finals ==
            Try(30, <<Call(31)>>, <<>>, <<>>,
                <<Try(32, <<Return(33)>>, <<>>, <<>>,
                      <<Try(34, <<Call(35)>>, Bare(36, <<Call(37)>>), <<>>,
                            <<Call(38)>>)>>)>>)
    IN {<<last>>, <<Call(3), several>>, <<inLoop>>, <<finals, Call(4)>>,
        <<three(<<Call(35)>>)>>, <<three(<<Return(35)>>)>>,
        <<While(1, <<three(<<Break>>)>>, <<>>), Call(2)>>,
        <<While(1, <<inLoop>>, <<Call(5)>>)>>}

MCPrograms == Nested \cup Others

=============================================================================
