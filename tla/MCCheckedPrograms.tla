------------------------- MODULE MCCheckedPrograms --------------------------
(* Families of small checked programs.  The host's only operation, note,   *)
(* logs what it is given, which makes the order of evaluation visible.     *)
EXTENDS Naturals, SequencesExt

Over(kind, type, operands) == [kind |-> kind, type |-> type, operands |-> operands]
N(x) == [kind |-> "name", type |-> <<"int">>, name |-> x]
T(x) == [kind |-> "name", type |-> <<"text">>, name |-> x]
F(x, signature) == [kind |-> "name", type |-> <<signature>>, name |-> x]
Truth == <<"int", "int">>
Yes == [kind |-> "name", type |-> Truth, name |-> "true"]
No == [kind |-> "name", type |-> Truth, name |-> "false"]
One == N("one")
Two == N("two")
Ten == N("ten")
Lit == T("lit")

Call(f, argument, type) == Over("call", type, <<f, argument>>)
Note(value) == Call(F("note", "n>n"), value, <<"int">>)
Pair(a, b) == Over("product", a.type \o b.type, <<a, b>>)
Binary(op, type, a, b) == Over("binary", type, <<a, b>>) @@ [op |-> op]
Add(a, b) == Binary("add", <<"int">>, a, b)
Less(a, b) == Binary("less", Truth, a, b)
Minus(a, b) == Binary("subtract", <<"int">>, a, b)
Made(op, type, operands) == Over("operation", type, operands) @@ [op |-> op]
Text(a, b) == Made("text", <<"text">>, <<a, b>>)
Measure(a) == Made("measure", <<"int">>, <<a>>)
Logical(op, a, b) == Over("logical", Truth, <<a, b>>) @@ [op |-> op]
Equal(equal, a, b) == Over("equal", Truth, <<a, b>>) @@ [equal |-> equal]
Not(a) == Over("not", Truth, <<a>>)
Inject(tag, type, a) == Over("inject", type, <<a>>) @@ [tag |-> tag]

Item(x, value) == [pattern |-> <<x>>, value |-> value]
Do(items, result) == [kind |-> "block", type |-> result.type, items |-> items, result |-> result]
Just(result) == Do(<<>>, result)
If(condition, then, else, type) == Over("if", type, <<condition>>) @@ [then |-> then, else |-> else]
ResultBlock(target, type, body) == [kind |-> "resultblock", type |-> type, target |-> target, body |-> body]
Eliminate(sum, type, continuations) == Over("eliminate", type, <<sum>>) @@ [continuations |-> continuations]
ByFunction(value) == [kind |-> "function", value |-> value]
ByBranch(parameter, body) == [kind |-> "branch", parameter |-> parameter, body |-> body]
ByTransfer(target, variant, type) == [kind |-> "transfer", target |-> target, variant |-> variant, type |-> type]

Never == <<"never">>
LeaveAfter(preceding, target, value) == Over("transfer", Never, <<value>>) @@ [target |-> target, preceding |-> preceding]
Leave(target, value) == LeaveAfter(<<>>, target, value)
LeaveIf(condition, then, else) ==
    Over("leaveif", Never, <<condition>>) @@ [then |-> then, else |-> else, preceding |-> <<>>]
LeaveEliminate(sum, continuations) ==
    Over("leaveeliminate", Never, <<sum>>) @@ [continuations |-> continuations, preceding |-> <<>>]
LeaveBlock(items, result) ==
    [kind |-> "leaveblock", type |-> Never, items |-> items, result |-> result, preceding |-> <<>>]

Lambda(id, self, captures, parameter, type, signature, result, body) ==
    [kind |-> "lambda", type |-> <<signature>>,
     lambda |-> [id |-> id, self |-> self, captures |-> captures, parameter |-> parameter, type |-> type,
                 signature |-> signature, result |-> result, body |-> body]]
Captured(source, binding) == [source |-> source, binding |-> binding]
Bind(x, lambda) == [name |-> x, type |-> lambda.type, value |-> lambda]
Function(f, parameter, type, signature, result, body) ==
    Bind(f, Lambda(f, "_", <<>>, parameter, type, signature, result, body))
Main(body) == Function("main", <<>>, <<"int">>, "n>n", <<"int">>, body)
Host == [name |-> "note", type |-> <<"n>n">>, operation |-> "note", parameter |-> <<"int">>, result |-> <<"int">>]

Types(names, type) == [x \in names |-> type]
Checked(items, types) ==
    [stage |-> "checked",
     of |-> [items |-> <<Host>> \o items, entry |-> "main", literals |-> [one |-> 1, two |-> 2, ten |-> 10, lit |-> 5, unit |-> 0],
             types |-> types @@ Types({"lit"}, <<"text">>)]]

-----------------------------------------------------------------------------
(* Numbers that say when they are evaluated, without and with control.     *)
Early(k, condition, value) ==
    ResultBlock(k, <<"int">>, Do(<<Item("_", If(condition, Do(<<>>, Leave(k, Note(value))), Just(Note(One)), <<"int">>))>>,
                                 Leave(k, Note(Two))))
Plain(i) == <<One, Note(One), Add(Note(One), Note(Two))>>[i]
Control(i) == <<Early("k", Yes, Ten), Early("k", Less(Note(One), Two), Ten), Early("k", Not(Yes), Ten),
                If(Logical("and", Less(Early("k", No, One), Ten), Less(Note(One), Note(Ten))), Just(Note(Two)), Just(Ten), <<"int">>),
                ResultBlock("k", <<"int">>, Do(<<>>, LeaveAfter(<<Note(Two)>>, "k", Add(Early("j", Yes, Two), Note(One))))),
                ResultBlock("k", <<"int">>, Do(<<Item("_", ResultBlock("j", <<"int">>,
                    Do(<<Item("_", Note(Ten))>>, LeaveIf(Logical("or", Less(Two, One), Equal(FALSE, Yes, No)),
                                                         Do(<<>>, Leave("k", Note(One))), Do(<<>>, Leave("j", Note(Two)))))))>>,
                    Leave("k", Ten)))>>[i]

(* Two operands, of which one or none has control: the order of their      *)
(* effects.                                                                *)
Joins(a, b) ==
    <<Add(a, b), Call(F("plus", "nn>n"), Pair(a, b), <<"int">>), Add(Add(a, One), b), Measure(Text(Lit, Lit)),
      If(Less(a, b), Just(Note(One)), Just(Note(Two)), <<"int">>),
      Do(<<Item("x", a), Item("_", b)>>, Add(N("x"), Note(N("x")))),
      If(Logical("or", Equal(TRUE, Less(a, Two), No), Less(b, Ten)), Just(Note(One)), Just(Note(Two)), <<"int">>)>>
Plus == Function("plus", <<"p", "q">>, <<"int", "int">>, "nn>n", <<"int">>, Just(Add(N("p"), N("q"))))
Ordered(joined) == Checked(<<Plus, Main(Just(joined))>>, Types({"x", "p", "q"}, <<"int">>))
Ordering ==
    {Ordered(Joins(Control(i), Plain(j))[n]) : i \in 1 .. 6, j \in 2 .. 3, n \in {2, 6}}
        \union {Ordered(Joins(Control(i), Plain(2))[n]) : i \in 1 .. 6, n \in {1, 3, 5, 7}}
        \union {Ordered(Joins(Plain(j), Control(i))[n]) : i \in 1 .. 6, j \in 1 .. 1, n \in {1, 5, 7}}
        \union {Ordered(Joins(Plain(j), Control(i))[n]) : i \in 1 .. 6, j \in 2 .. 3, n \in {2, 6}}
        \union {Ordered(Joins(Plain(i), Plain(j))[n]) : i \in 2 .. 3, j \in 2 .. 3, n \in {1, 2, 3, 5, 6, 7}}

(* The left operand of an operator whose right operand has control.        *)
Reordering == {Ordered(Joins(Plain(2), Control(i))[1]) : i \in 1 .. 2}

-----------------------------------------------------------------------------
(* Texts and the control that leaves, chooses or calls while they are held.*)
Never0 == <<"int">>
Absurd(value) == Over("absurd", Never, <<value>>) @@ [preceding |-> <<>>]
Sum == <<"int", "text">>
Texts(names) == Types(names, <<"text">>)
Holding(functions, items, ended, types) ==
    Checked(functions \o <<Main(Do(<<Item("x", Text(Lit, Lit))>> \o items, ended))>>, Texts({"x"}) @@ types)
Late == Less(Two, One)
Grown == Text(T("x"), Lit)
Ends(y) == <<Note(Measure(T(y))), Measure(Text(T(y), T("x")))>>

(* A block that is left early or at its end.                               *)
Leaving ==
    {Holding(<<>>, <<Item("r", ResultBlock("k", <<"text">>,
                        Do(<<Item("_", If(condition, Do(<<>>, LeaveAfter(<<Note(One)>>, "k", early)), Just(Note(Two)), <<"int">>)),
                             Item("y", Grown)>>, LeaveBlock(<<Item("z", T("y"))>>, Leave("k", late)))))>>,
             Ends("r")[i], Texts({"r", "y", "z"})) :
        condition \in {Late, Not(Late)}, early \in {T("x"), Lit, Grown}, late \in {T("z"), T("x"), Text(T("z"), T("x"))},
        i \in 1 .. 2}

(* A sum taken apart by functions and branches, left by transfers, or      *)
(* handed on as it is.                                                     *)
Grow == Function("grow", <<"t">>, <<"text">>, "t>t", <<"text">>, Just(Text(T("t"), Lit)))
Apart(s) ==
    <<Eliminate(s, <<"text">>, <<ByFunction(F("grow", "t>t")), ByBranch(<<"b">>, Just(Text(T("b"), T("x"))))>>),
      Eliminate(s, <<"text">>, <<ByBranch(<<>>, Just(T("x"))), ByBranch(<<"b">>, Just(T("b")))>>),
      ResultBlock("k", <<"text">>, Do(<<>>, LeaveEliminate(s, <<ByTransfer("k", 0, Sum),
                                                              ByBranch(<<"b">>, Do(<<>>, Leave("k", Text(T("b"), T("x")))))>>))),
      ResultBlock("k", <<"text">>, Do(<<Item("e", Eliminate(s, <<"text">>, <<ByFunction(F("grow", "t>t")), ByTransfer("k", 0, Sum)>>))>>,
                                      Leave("k", Text(T("e"), T("e"))))),
      Eliminate(ResultBlock("k", Sum, Do(<<>>, LeaveEliminate(s, <<ByTransfer("k", 1, Sum), ByTransfer("k", 2, Sum)>>))), <<"text">>,
                <<ByFunction(F("grow", "t>t")), ByBranch(<<"b">>, Just(T("b")))>>),
      Eliminate(ResultBlock("k", Sum, Do(<<>>, LeaveEliminate(s, <<ByTransfer("k", 2, Sum), ByTransfer("k", 1, Sum)>>))), <<"text">>,
                <<ByFunction(F("grow", "t>t")), ByBranch(<<"b">>, Just(T("b")))>>)>>
Choosing ==
    {Holding(<<Grow>>, <<Item("s", If(condition, Just(Inject(0, Sum, T("x"))), Just(Inject(1, Sum, given)), Sum)),
                         Item("r", Apart([kind |-> "name", type |-> Sum, name |-> "s"])[n])>>,
             Ends("r")[i], Texts({"t", "b", "r", "e"}) @@ Types({"s"}, Sum)) :
        condition \in {Late, Not(Late)}, given \in {Lit, Grown}, n \in 1 .. 6, i \in 1 .. 2}

(* Functions made where their captures are, applied there or by another.   *)
Inner(result) == Lambda("in", "_", <<Captured("k", "j")>>, <<"m">>, <<"int">>, "n>n", <<"int">>, result)
Made1 ==
    <<Lambda("g", "_", <<Captured("x", "k")>>, <<"n">>, <<"int">>, "n>n", <<"int">>, Just(Add(Measure(T("k")), Note(N("n"))))),
      Lambda("g", "s", <<Captured("x", "k")>>, <<"n">>, <<"int">>, "n>n", <<"int">>,
             Just(If(Less(N("n"), One), Just(Measure(T("k"))), Just(Call(F("s", "n>n"), Minus(N("n"), One), <<"int">>)), <<"int">>))),
      Lambda("g", "_", <<Captured("x", "k")>>, <<"n">>, <<"int">>, "n>n", <<"int">>,
             Do(<<Item("i", Inner(Just(Add(Measure(Text(T("j"), Lit)), N("m")))))>>, Call(F("i", "n>n"), N("n"), <<"int">>))),
      Lambda("g", "_", <<Captured("x", "k")>>, <<"n">>, <<"int">>, "n>n", <<"int">>,
             Just(ResultBlock("k", <<"int">>, Do(<<Item("_", If(Less(N("n"), Two), Do(<<>>, Leave("k", One)), Just(Note(Two)), <<"int">>))>>,
                                                 Leave("k", Measure(T("k")))))))>>
Apply == Function("apply", <<"h", "v">>, <<"n>n", "int">>, "hn>n", <<"int">>,
                  Just(Add(Call(F("h", "n>n"), N("v"), <<"int">>), One)))
Applied(made, ended) ==
    Holding(<<Apply>>, <<Item("f", Made1[made[1]]), Item("a", IF made[2] THEN Call(F("apply", "hn>n"), Pair(F("f", "n>n"), Two), <<"int">>)
                                                              ELSE Call(F("f", "n>n"), Two, <<"int">>))>>,
            ended, Texts({"k", "j"}) @@ Types({"n", "m", "a", "v"}, <<"int">>) @@ Types({"f", "i", "h", "s"}, <<"n>n">>))
Ended == {N("a"), Add(N("a"), Note(Measure(T("x")))), Add(N("a"), Call(F("f", "n>n"), One, <<"int">>))}
Applying == {Applied(made, ended) : made \in ((1 .. 4) \X BOOLEAN) \ {<<3, FALSE>>}, ended \in Ended}

(* A function over a text that makes and calls one over the same text,     *)
(* both only called where they are made.                                   *)
Lifting == {Applied(<<3, FALSE>>, N("a"))}

(* Functions handed to one that calls itself with them, directly or within *)
(* another function, at one site or at two.                                *)
Over1(id, field, number, body) == Lambda(id, "_", <<Captured("x", field)>>, <<number>>, <<"int">>, "n>n", <<"int">>, body)
Handed ==
    <<Over1("l1", "k", "n", Just(Add(Measure(Text(T("k"), Lit)), Note(N("n"))))),
      Over1("l2", "j", "m", Just(Add(Measure(T("j")), N("m")))), F("plain", "n>n")>>
PlainFunction == Function("plain", <<"o">>, <<"int">>, "n>n", <<"int">>, Just(Note(N("o"))))
Recur(tail) ==
    Function("again", <<"h", "v">>, <<"n>n", "int">>, "hn>n", <<"int">>,
        LET next == Call(F("again", "hn>n"), Pair(F("h", "n>n"), Minus(N("v"), One)), <<"int">>)
            applied == Call(F("h", "n>n"), N("v"), <<"int">>)
        IN Just(If(Less(N("v"), One), Just(applied), Just(IF tail THEN next ELSE Add(applied, next)), <<"int">>)))
Times == Function("times", <<"d", "w">>, <<"n>n", "int">>, "hn>n", <<"int">>,
    Just(Call(F("again", "hn>n"),
         Pair(Lambda("each", "_", <<Captured("d", "b")>>, <<"u">>, <<"int">>, "n>n", <<"int">>, Just(Add(Call(F("b", "n>n"), N("u"), <<"int">>), One))),
              N("w")), <<"int">>)))
Handing ==
    {Holding(<<PlainFunction, Recur(tail), Times>>,
             <<Item("a", Call(F(host, "hn>n"), Pair(Handed[first], Two), <<"int">>)),
               Item("c", IF second = 0 THEN One ELSE Call(F("again", "hn>n"), Pair(Handed[second], One), <<"int">>))>>,
             Add(N("a"), Add(N("c"), Note(Measure(T("x"))))),
             Texts({"k", "j"}) @@ Types({"n", "m", "a", "c", "v", "w", "u", "o"}, <<"int">>) @@ Types({"h", "d", "b"}, <<"n>n">>)) :
        tail \in BOOLEAN, host \in {"again", "times"}, first \in {1, 3}, second \in {0, 2}}

(* A loop over a pair that is left early, whose result is a text or a sum  *)
(* that the recursive call hands on.                                       *)
Step(t) == Call(F("loop", "nt>s"), Pair(Minus(N("n"), One), t), Sum)
Again(t) ==
    <<ResultBlock("k", Sum, Do(<<Item("_", If(Less(N("n"), One), Do(<<>>, Leave("k", Inject(0, Sum, T("t")))), Just(Note(N("n"))), <<"int">>))>>,
                               LeaveEliminate(Step(t), <<ByTransfer("k", 1, Sum), ByTransfer("k", 2, Sum)>>))),
      ResultBlock("k", Sum, Do(<<Item("_", If(Less(N("n"), One), Do(<<>>, Leave("k", Inject(1, Sum, Lit))), Just(Note(N("n"))), <<"int">>))>>,
                               LeaveEliminate(Step(t), <<ByTransfer("k", 1, Sum), ByBranch(<<"b">>, Do(<<>>, Leave("k", Inject(0, Sum, Text(T("b"), T("t"))))))>>))),
      If(Less(N("n"), One), Just(Inject(0, Sum, T("t"))), Just(Step(t)), Sum),
      If(Less(N("n"), One), Just(Inject(0, Sum, T("t"))),
         Do(<<Item("_", If(Less(Ten, N("n")), Do(<<>>, Absurd(Call(F("stop", "n>z"), One, Never0))), Just(One), <<"int">>))>>, Step(t)), Sum)>>
Stop == Function("stop", <<"q">>, <<"int">>, "n>z", Never0, Just(Call(F("stop", "n>z"), N("q"), Never0)))
Looping ==
    {Holding(<<Stop, Function("loop", <<"n", "t">>, <<"int", "text">>, "nt>s", Sum, Just(Again(t)[n]))>>,
             <<Item("s", Call(F("loop", "nt>s"), Pair(Two, given), Sum)),
               Item("r", Eliminate([kind |-> "name", type |-> Sum, name |-> "s"], <<"text">>, <<ByBranch(<<"u">>, Just(T("u"))), ByBranch(<<"v">>, Just(T("x")))>>))>>,
             Ends("r")[i], Texts({"t", "b", "r", "u", "v"}) @@ Types({"n", "q"}, <<"int">>) @@ Types({"s"}, Sum)) :
        t \in {T("t"), Text(T("t"), Lit)}, n \in 1 .. 4, given \in {T("x"), Lit}, i \in 1 .. 2}

(* Functions made by a call and applied at once: made by it, by a call it  *)
(* ends in, by either of two, by a callback, or by a recursion whose steps *)
(* hand one another on.                                                    *)
Step1(id, captures, number, body) == Lambda(id, "_", captures, <<number>>, <<"int">>, "n>n", <<"int">>, body)
Maker(f, parameters, types, signature, body) == Function(f, parameters, types, signature, <<"n>n">>, body)
Measuring(id, t, k, n) ==
    Step1(id, <<Captured(t, k)>>, n, Just(Add(Measure(Text(T(k), Lit)), If(Less(N(n), One), Just(One), Just(Note(N(n))), <<"int">>))))
Inner1 == Maker("inner", <<"s">>, <<"text">>, "t>(n>n)", Just(Measuring("l1", "s", "k", "n")))
Made2(t) == Call(F("inner", "t>(n>n)"), t, <<"n>n">>)
Either(condition, left, right) == If(condition, Just(left), Just(right), <<"n>n">>)
Makers ==
    <<<<Inner1, Maker("make", <<"t">>, <<"text">>, "t>(n>n)", Just(Made2(Text(T("t"), Lit))))>>,
      <<Inner1, Maker("make", <<"t">>, <<"text">>, "t>(n>n)",
                      Just(Either(Less(Measure(T("t")), Ten), Made2(T("t")), Measuring("l2", "t", "j", "m"))))>>,
      <<Inner1, Maker("make", <<"t">>, <<"text">>, "t>(n>n)",
                      Just(ResultBlock("r", <<"n>n">>, Do(<<Item("_", If(Less(Ten, Measure(T("t"))), Do(<<>>, Leave("r", Made2(Lit))), Just(One), <<"int">>))>>,
                                                          Leave("r", Measuring("l2", "t", "j", "m"))))))>>>>
Applied2(made) ==
    <<<<Item("a", Call(made, Two, <<"int">>))>>,
      <<Item("f", made), Item("g", F("f", "n>n")), Item("a", Call(F("g", "n>n"), Two, <<"int">>))>>,
      <<Item("f", made), Item("b", Note(One)), Item("a", Call(F("f", "n>n"), Two, <<"int">>))>>,
      <<Item("f", made), Item("b", Call(F("f", "n>n"), One, <<"int">>)), Item("a", Call(F("f", "n>n"), Two, <<"int">>))>>>>
CurryTypes == Texts({"t", "k", "s", "j"}) @@ Types({"n", "m", "a", "b", "i", "e", "v", "w", "z"}, <<"int">>)
                  @@ Types({"f", "g", "h", "d", "c", "l"}, <<"n>n">>) @@ Types({"o"}, <<"n>(n>n)">>)
Callback == Maker("make", <<"h">>, <<"n>n">>, "(n>n)>(n>n)",
                  Just(Step1("l2", <<Captured("h", "d")>>, "m",
                             Do(<<Item("b", Add(N("m"), One))>>, Call(F("d", "n>n"), N("b"), <<"int">>)))))
Fold(ended) ==
    <<Maker("pure", <<"i">>, <<"int">>, "n>(n>n)", Just(Step1("l1", <<Captured("i", "n")>>, "m", ended))),
      Maker("bind", <<"o", "e">>, <<"n>(n>n)", "int">>, "(n>(n>n))n>(n>n)",
            Just(Lambda("l2", "_", <<Captured("o", "q"), Captured("e", "v")>>, <<"w">>, <<"int">>, "n>n", <<"int">>,
                        Do(<<Item("c", Call(F("q", "n>(n>n)"), Minus(N("v"), One), <<"n>n">>))>>,
                           Call(F("c", "n>n"), Add(N("w"), Note(N("v"))), <<"int">>))))),
      Maker("make", <<"z">>, <<"int">>, "n>(n>n)",
            Just(Either(Less(N("z"), One), Call(F("pure", "n>(n>n)"), N("z"), <<"n>n">>),
                        Call(F("bind", "(n>(n>n))n>(n>n)"),
                             Pair(Lambda("l3", "_", <<>>, <<"u">>, <<"int">>, "n>(n>n)", <<"n>n">>,
                                         Just(Call(F("make", "n>(n>n)"), N("u"), <<"n>n">>))), N("z")), <<"n>n">>))))>>

(* The callback captures a text, nothing, or is the host's.                *)
Callbacks ==
    <<<<<<Item("l", Measuring("l1", "x", "k", "n"))>>, F("l", "n>n")>>,
      <<<<Item("l", Step1("l1", <<>>, "n", Just(Note(Add(N("n"), One)))))>>, F("l", "n>n")>>, <<<<>>, F("note", "n>n")>>>>

Currying ==
    {Holding(Makers[m], Applied2(Call(F("make", "t>(n>n)"), t, <<"n>n">>))[n], ended, CurryTypes) :
        m \in 1 .. 3, t \in {T("x"), Lit}, n \in 1 .. 4, ended \in {N("a"), Add(N("a"), Measure(T("x")))}}
    \union {Holding(<<Callback>>, given[1] \o Applied2(Call(F("make", "(n>n)>(n>n)"), given[2], <<"n>n">>))[n], N("a"), CurryTypes) :
                n \in 1 .. 4, given \in ToSet(Callbacks)}
    \union {Holding(Fold(ended), Applied2(Call(F("make", "n>(n>n)"), Two, <<"n>n">>))[n], N("a"),
                    CurryTypes @@ Types({"u"}, <<"int">>) @@ Types({"q"}, <<"n>(n>n)">>)) :
               n \in 1 .. 2, ended \in {Just(Add(N("m"), N("n"))), Just(Note(Add(N("m"), N("n"))))}}

(* Functions made and applied at once, one of which evaluates a choice     *)
(* that notes something and whose value it does not use.                   *)
Unused ==
    {Holding(<<Maker("make", <<"z">>, <<"int">>, "n>(n>n)",
                     Just(Step1("l1", <<Captured("z", "n")>>, "m",
                                Do(<<Item("_", If(Less(N("n"), N("m")), Just(Note(One)), Just(Note(Two)), <<"int">>))>>,
                                   Add(N("n"), N("m"))))))>>,
             Applied2(Call(F("make", "n>(n>n)"), Ten, <<"n>n">>))[n], N("a"), CurryTypes) : n \in 1 .. 4}
=============================================================================
