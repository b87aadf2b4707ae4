-------------------------- MODULE MCEmittedProgram --------------------------
(* Families of small closure programs for EmittedProgram.                  *)
EXTENDS EmittedProgram

Checked == INSTANCE MCCheckedPrograms

Op(kind, args) == [kind |-> kind, args |-> args]
B(pattern, kind, args) == [pattern |-> pattern, operation |-> Op(kind, args)]
Make(x, f, captured) ==
    [pattern |-> <<x>>, operation |-> [kind |-> "closure", function |-> f, args |-> captured]]
If(x, left, right, otherwise, then) ==
    [pattern |-> <<x>>,
     operation |-> [kind |-> "branch", args |-> <<left, right>>, blocks |-> <<otherwise, then>>]]
Match(x, scrutinee, patterns, blocks) ==
    [pattern |-> <<x>>,
     operation |-> [kind |-> "case", args |-> <<scrutinee>>, patterns |-> patterns, blocks |-> blocks]]
Inject(x, tag, value) == [pattern |-> <<x>>, operation |-> [kind |-> "inject", tag |-> tag, args |-> <<value>>]]
Leave(x, join, value) == [pattern |-> <<x>>, operation |-> [kind |-> "goto", join |-> join, args |-> <<value>>]]
Do(bindings, result) == [bindings |-> bindings, result |-> result]
Function(parameter, captures, signature, result, body) ==
    [parameter |-> parameter, captures |-> captures, signature |-> signature, result |-> result,
     joins |-> <<>>, body |-> body]

Ints(names) == [x \in names |-> <<"int">>]
Texts(names) == [x \in names |-> <<"text">>]
Typed(names, type) == [x \in names |-> type]
Literals == [one |-> 1, two |-> 2, ten |-> 10, lit |-> 5]
Entry(body) == Function("_", <<>>, "n>n", <<"int">>, body)
Compiled(functions, types) ==
    [stage |-> "closure",
     of |-> [functions |-> functions, types |-> types @@ Texts({"lit"}), literals |-> Literals, entry |-> "main"]]

(* Bindings that read a name, if any, and add what they find to a number.  *)
Reading(y, number, i) ==
    IF y = "" THEN <<>>
    ELSE <<B(<<"m" \o i>>, "measure", <<y>>), B(<<"s" \o i>>, "add", <<number, "m" \o i>>)>>
Read0(number, y, i) == IF y = "" THEN number ELSE "s" \o i

(* A function of a count and a text, its names marked by i: at zero it     *)
(* measures the text, else it calls next with one less and the text        *)
(* passed, and, unless after is "tail", goes on to read after.             *)
Counter(f, i, next, passed, after, captured) ==
    LET x(name) == name \o i
        call == <<B(<<x("n1")>>, "subtract", <<x("n"), "one">>),
                  B(<<x("u")>>, "text", <<x("t"), "lit">>),
                  B(<<x("q")>>, "product", <<x("n1"), passed>>),
                  B(<<x("c")>>, "call", <<next, x("q")>>)>>
        then == CASE after = "tail" -> Do(call, x("c"))
                  [] after = "n" -> Do(call, x("n"))
                  [] after = "one" -> Do(call \o <<B(<<x("s")>>, "add", <<x("c"), "one">>)>>, x("s"))
                  [] OTHER -> Do(call \o Reading(after, x("c"), i), x("s"))
    IN f :> Function(x("p"), captured, "nt>n", <<"int">>,
                Do(<<B(<<x("n"), x("t")>>, "atom", <<x("p")>>),
                     If(x("r"), x("n"), "one", then, Do(<<B(<<x("z")>>, "measure", <<x("t")>>)>>, x("z")))>>,
                   x("r")))
CounterTypes(i) ==
    LET x(name) == name \o i
    IN Ints({x("n"), x("n1"), x("c"), x("m"), x("s"), x("r"), x("z")}) @@ Texts({x("t"), x("u")})
           @@ Typed({x("p"), x("q")}, <<"int", "text">>)

Driver(callee, given, ended) ==
    "main" :> Entry(Do(<<B(<<"x">>, "text", <<"lit", "lit">>), B(<<"a">>, "product", <<"two", given>>),
                         B(<<"b">>, "call", <<callee, "a">>)>> \o Reading(ended, "b", "0"),
                       Read0("b", ended, "0")))
DriverTypes == Ints({"b", "m0", "s0"}) @@ Texts({"x"}) @@ Typed({"a"}, <<"int", "text">>)

(* What a call is given and what is read after it.                         *)
Uses == {"x", "lit"} \X {"x", ""}

(* A function that calls itself.                                           *)
Counting ==
    {Compiled(Driver("f", uses[1], uses[2]) @@ Counter("f", "1", "f", passed, after, <<>>), DriverTypes @@ CounterTypes("1")) :
        uses \in Uses, passed \in {"t1", "u1", "lit"},
        after \in {"tail", "n", "one", "t1", "u1"}}

(* A function that calls itself twice, the second frame larger or smaller  *)
(* than the first.                                                         *)
Doubling ==
    {Compiled(Driver("f", given, "x")
              @@ "f" :> Function("p", <<>>, "nt>n", <<"int">>,
                    Do(<<B(<<"n", "t">>, "atom", <<"p">>),
                         If("r", "n", "one",
                            Do(<<B(<<"n1">>, "subtract", <<"n", "one">>), B(<<"u">>, "text", <<"t", "lit">>),
                                 B(<<"q1">>, "product", <<"n1", passed[1]>>), B(<<"c1">>, "call", <<"f", "q1">>)>>
                               \o Reading(between, "c1", "1")
                               \o (IF grown THEN <<B(<<"g">>, "add", <<"c1", "one">>)>> ELSE <<>>)
                               \o <<B(<<"q2">>, "product", <<"n1", passed[2]>>), B(<<"c2">>, "call", <<"f", "q2">>),
                                    B(<<"d">>, "add", <<Read0("c1", between, "1"), "c2">>),
                                    B(<<"e">>, "add", <<"d", IF grown THEN "g" ELSE "one">>)>>
                               \o Reading(after, "e", "2"), Read0("e", after, "2")),
                            Do(<<B(<<"z">>, "measure", <<"t">>)>>, "z"))>>, "r")),
              DriverTypes @@ Texts({"t", "u"}) @@ Typed({"p", "q1", "q2"}, <<"int", "text">>)
                  @@ Ints({"n", "n1", "c1", "c2", "d", "e", "g", "r", "z", "m1", "s1", "m2", "s2"})) :
        given \in {"x"}, passed \in {"t", "u"} \X {"t", "u", "lit"}, between \in {"", "t"},
        after \in {"", "t", "u"}, grown \in BOOLEAN}

(* Two functions that call each other.                                     *)
Mutual ==
    {Compiled(Driver("f", given, "x") @@ Counter("f", "1", "g", passed[1], after[1], <<>>)
                                        @@ Counter("g", "2", "f", passed[2], after[2], <<>>),
              DriverTypes @@ CounterTypes("1") @@ CounterTypes("2")) :
        given \in {"x"}, passed \in {"t1", "u1"} \X {"t2", "u2"},
        after \in {"tail", "one", "t1"} \X {"tail", "t2", "u2"}}

(* A closure over a text that calls itself and reads what it captured.     *)
Capturing ==
    {Compiled("main" :> Entry(Do(<<B(<<"x">>, "text", <<"lit", "lit">>), Make("h", "f", <<"x">>)>> \o variant[2] \o
                                 <<B(<<"a">>, "product", <<"two", uses[1]>>), B(<<"b">>, "call", <<"h", "a">>)>>
                                 \o Reading(uses[2], "b", "0"), Read0("b", uses[2], "0")))
              @@ [Counter("f", "1", "f", passed, after, <<"k">>) EXCEPT !["f"].body.bindings =
                     (IF variant[1] THEN <<B(<<"y">>, "atom", <<"k">>), B(<<"w">>, "measure", <<"y">>)>> ELSE <<>>) \o @],
              DriverTypes @@ CounterTypes("1") @@ Texts({"k", "y"}) @@ Ints({"w", "b0"}) @@ Typed({"h"}, <<"nt>n">>)
                  @@ Typed({"a0"}, <<"int", "text">>)) :
        uses \in Uses, passed \in {"t1", "k"}, after \in {"tail", "t1", "k"},
        variant \in {<<FALSE, <<>>>>, <<TRUE, <<>>>>,
                     <<FALSE, <<B(<<"a0">>, "product", <<"one", "lit">>), B(<<"b0">>, "call", <<"h", "a0">>)>>>>}}

(* A function applies a function it is handed, which hands it another.     *)
Dispatching ==
    {Compiled("main" :> Entry(Do(<<B(<<"x">>, "text", <<"lit", "lit">>), Make("h1", "g", <<"x">>), Make("h2", "l", captured),
                                   If("y", "one", limit, Do(<<>>, "h1"), Do(<<>>, "h2")),
                                   B(<<"a">>, "product", <<"y", "two">>), B(<<"b">>, "call", <<"apply", "a">>)>>
                                 \o (IF ended = "" THEN <<B(<<"w">>, "call", <<"h1", "one">>)>> ELSE <<>>)
                                 \o Reading(ended, "b", "0"), Read0("b", ended, "0")))
              @@ "apply" :> Function("p", <<>>, "hn>n", <<"int">>,
                    Do(<<B(<<"h", "n">>, "atom", <<"p">>), B(<<"c">>, "call", <<"h", "n">>)>>
                       \o (IF framed THEN <<B(<<"d">>, "add", <<"c", "one">>)>> ELSE <<>>), IF framed THEN "d" ELSE "c"))
              @@ "g" :> Function("m", <<"k">>, "n>n", <<"int">>,
                    Do(<<If("r", "m", "one",
                            Do(<<B(<<"m1">>, "subtract", <<"m", "one">>), Make("i", "g", <<"k">>),
                                 B(<<"q">>, "product", <<next, "m1">>), B(<<"e">>, "call", <<"apply", "q">>)>>
                               \o Reading(after, "e", "3"), Read0("e", after, "3")),
                            Do(<<B(<<"z">>, "measure", <<"k">>)>>, "z"))>>, "r"))
              @@ "l" :> Function("o", IF captured = <<>> THEN <<>> ELSE <<"j">>, "n>n", <<"int">>,
                    Do(IF captured = <<>> THEN <<>> ELSE <<B(<<"v">>, "measure", <<"j">>)>>,
                       IF captured = <<>> THEN "o" ELSE "v")),
              DriverTypes @@ Typed({"h1", "h2", "y", "h", "i"}, <<"n>n">>) @@ Texts({"k", "j"})
                  @@ Typed({"a", "p", "q"}, <<"n>n", "int">>)
                  @@ Ints({"n", "c", "d", "m", "m1", "e", "r", "z", "o", "v", "m3", "s3", "w"})) :
        captured \in {<<>>, <<"x">>}, limit \in {"one", "two"}, framed \in BOOLEAN, next \in {"i", "g"},
        after \in {"", "k"}, ended \in {"", "x"}}

(* A recursive function that returns a text.                               *)
Building(passed) ==
    {Compiled("main" :> Entry(Do(<<B(<<"x">>, "text", <<"lit", "lit">>), B(<<"a">>, "product", <<"two", "x">>),
                                   B(<<"b">>, "call", <<"f", "a">>), B(<<"d">>, "measure", <<"b">>)>>
                                 \o Reading("x", "d", "0"), Read0("d", "x", "0")))
              @@ "f" :> Function("p", <<>>, "nt>t", <<"text">>,
                    Do(<<B(<<"n", "t">>, "atom", <<"p">>),
                         If("r", "n", "one",
                            Do(<<B(<<"n1">>, "subtract", <<"n", "one">>), B(<<"u">>, "text", <<"t", "lit">>),
                                 B(<<"q">>, "product", <<"n1", passed>>), B(<<"c">>, "call", <<"f", "q">>)>> \o after,
                               IF after = <<>> THEN "c" ELSE "s"),
                            Do(<<>>, base))>> \o tail, IF tail = <<>> THEN "r" ELSE "v")),
              Ints({"d", "m0", "s0", "n", "n1"}) @@ Texts({"x", "b", "t", "u", "c", "s", "r", "v"})
                  @@ Typed({"a", "p", "q"}, <<"int", "text">>)) :
        base \in {"t", "lit"},
        tail \in {<<>>, <<B(<<"v">>, "text", <<"r", "lit">>)>>, <<B(<<"v">>, "text", <<"r", "t">>)>>},
        after \in {<<>>, <<B(<<"s">>, "text", <<"c", "t">>)>>, <<B(<<"s">>, "text", <<"c", "lit">>)>>,
                   <<B(<<"s">>, "atom", <<"c">>)>>, <<B(<<"s">>, "atom", <<"u">>)>>}}

(* A text under several names, read in any order, alone or within a pair.  *)
Aliasing ==
    {Compiled("main" :> Entry(Do(<<B(<<"x">>, "text", <<"lit", "lit">>), B(<<"y">>, "atom", <<"x">>)>> \o source
                                 \o <<B(<<"c1">>, "measure", <<reads[1]>>), B(<<"c2">>, "measure", <<reads[2]>>),
                                      B(<<"c3">>, "measure", <<reads[3]>>), B(<<"d">>, "add", <<"c1", "c2">>),
                                      B(<<"e">>, "add", <<"c3", "d">>)>>, "e")),
              Ints({"o", "c1", "c2", "c3", "d", "e"}) @@ Texts({"x", "y", "v"}) @@ Typed({"q"}, <<"int", "text">>)) :
        reads \in {"x", "y", "v"} \X {"x", "y", "v"} \X {"x", "v"},
        source \in {<<B(<<"v">>, "atom", <<"y">>)>>, <<B(<<"v">>, "text", <<"y", "x">>)>>,
                    <<B(<<"q">>, "product", <<"one", "x">>), B(<<"o", "v">>, "atom", <<"q">>)>>}}

(* A call of a helper that is not recursive, by name or through a choice   *)
(* of two, with and without a later use of what was handed to it.          *)
Bodies ==
    <<Do(<<>>, "t"), Do(<<>>, "lit"), Do(<<B(<<"u">>, "text", <<"t", "t">>)>>, "u"), Do(<<>>, "k"),
     Do(<<B(<<"y">>, "atom", <<"k">>)>>, "y"), Do(<<B(<<"y">>, "atom", <<"k">>), B(<<"u">>, "text", <<"y", "t">>)>>, "u"),
     Do(<<B(<<"u">>, "text", <<"k", "t">>)>>, "u"), Do(<<B(<<"c">>, "call", <<"g", "t">>)>>, "c"),
     Do(<<B(<<"y">>, "atom", <<"k">>), B(<<"c">>, "call", <<"g", "y">>)>>, "c"),
     Do(<<B(<<"c">>, "call", <<"g", "k">>), B(<<"u">>, "text", <<"c", "t">>)>>, "u"),
     Do(<<B(<<"i">>, "new", <<"one", "t">>), B(<<"u">>, "get", <<"i", "one">>)>>, "u"),
     Do(<<B(<<"i">>, "new", <<"one", "k">>), B(<<"u">>, "get", <<"i", "one">>), B(<<"c">>, "text", <<"u", "t">>)>>, "c")>>
Helping(body) ==
    {Compiled("main" :> Entry(Do(<<B(<<"x">>, "text", <<"lit", "lit">>), B(<<"w">>, "text", <<"x", "lit">>),
                                   Make("h", "f", <<"x">>)>> \o variant[1]
                                 \o <<B(<<"b">>, "call", <<IF variant[1] = <<>> THEN "h" ELSE "o", uses[1]>>)>> \o variant[2]
                                 \o <<B(<<"d">>, "measure", <<"b">>)>>
                                 \o Reading(uses[2], "d", "0"), Read0("d", uses[2], "0")))
              @@ "f" :> Function("t", <<"k">>, "t>t", <<"text">>, body)
              @@ "g" :> Function("v", <<>>, "t>t", <<"text">>, forward),
              Ints({"d", "m0", "s0"}) @@ Texts({"x", "w", "b", "e", "t", "u", "c", "v", "z", "y", "k"})
                  @@ Typed({"h", "j", "o"}, <<"t>t">>) @@ Typed({"i"}, <<"buffer">>)) :
        uses \in {"x", "w"} \X {"x", ""}, forward \in {Do(<<>>, "v")} \union (IF \E i \in DOMAIN body.bindings : body.bindings[i].operation.kind = "call"
                                              THEN {Do(<<B(<<"z">>, "text", <<"v", "v">>)>>, "z")} ELSE {}),
        variant \in {<<<<>>, <<>>>>, <<<<>>, <<B(<<"e">>, "call", <<"h", "b">>)>>>>,
                     <<<<If("o", "one", "two", Do(<<>>, "g"), Do(<<>>, "h"))>>, <<>>>>}}

(* A sum taken apart, or left at a join, while its parts are used or not.  *)
Choosing ==
    {Compiled("main" :> [Entry(Do(<<B(<<"x">>, "text", <<"lit", "lit">>), B(<<"w">>, "text", <<"x", "lit">>),
                                   Inject("i", tag, "x"), B(<<"h">>, aliased, <<"i">>),
                                   Match("r", "h", <<first, <<"t2">>>>, <<Do(left, IF left = <<>> THEN "w" ELSE "u"), right>>),
                                   B(<<"d">>, "measure", <<"r">>)>>
                                 \o (IF ended = "h" THEN <<Match("y", "h", << <<"t3">>, <<"t4">> >>,
                                                                 <<Do(<<>>, "t3"), Do(<<>>, "lit")>>)>> ELSE <<>>)
                                 \o Reading(IF ended = "h" THEN "y" ELSE ended, "d", "0"), Read0("d", ended, "0")))
                          EXCEPT !.joins = <<>>],
              Ints({"d", "m0", "s0"}) @@ Texts({"x", "w", "t1", "t2", "t3", "t4", "u", "r", "y"})
                  @@ Typed({"i", "h"}, <<"int", "text">>)) :
        tag \in {0, 1}, aliased \in {"atom"}, first \in {<<"t1">>, <<"_">>},
        left \in {<<>>, <<B(<<"u">>, "text", <<"x", "lit">>)>>, <<B(<<"u">>, "text", <<"w", "x">>)>>},
        right \in {Do(<<>>, "t2"), Do(<<>>, "x"), Do(<<>>, "lit")}, ended \in {"x", "h"}}

(* A function that calls itself through a forwarder of pairs.             *)
Forwarding(last) ==
    {Compiled("main" :> Entry(Do(<<B(<<"x">>, "text", <<"lit", "lit">>), Make("h", "f", <<"x">>),
                                   B(<<"b">>, "call", <<"h", "two">>)>> \o Reading(ended, "b", "0"), Read0("b", ended, "0")))
              @@ "f" :> Function("n", <<"k">>, "n>n", <<"int">>,
                    Do(<<If("r", "n", "one",
                            Do(<<B(<<"u">>, "subtract", <<"n", "one">>), B(<<"q">>, "product", <<"f", passed>>),
                                 B(<<"c">>, "call", <<"forward", "q">>)>> \o Reading(after, "c", "3"), Read0("c", after, "3")),
                            Do(<<B(<<"z">>, "measure", <<"k">>)>>, base))>>, "r"))
              @@ "forward" :> Function("p", <<>>, "fn>n", <<"int">>,
                    Do(<<B(<<"g", "y">>, "atom", <<"p">>), B(<<"e">>, "call", <<"g", "y">>)>>, last)),
              Ints({"b", "m0", "s0", "m3", "s3", "n", "u", "c", "r", "z", "y", "e"}) @@ Texts({"x", "k"})
                  @@ Typed({"h", "g"}, <<"n>n">>) @@ Typed({"p", "q"}, <<"n>n", "int">>)) :
        ended \in {"", "x"}, passed \in {"u"}, base \in {"n", "z"}, after \in {"", "k"}}

(* Joins that several paths leave for, with values they hand on or not.    *)
Joining(given, limit) ==
    {Compiled("main" :> Entry(Do(<<B(<<"x">>, "text", <<"lit", "lit">>), B(<<"b">>, "call", <<"f", given>>),
                                   B(<<"d">>, "measure", <<"b">>)>> \o Reading("x", "d", "0"), Read0("d", "x", "0")))
              @@ "f" :> [Function("t", <<>>, "t>t", <<"text">>,
                    Do(<<B(<<"n">>, "measure", <<"t">>), B(<<"u">>, "text", <<"t", "lit">>),
                         If("r", "n", limit, Do(<<Leave("l1", 1, left)>>, "l1"), Do(<<Leave("l2", 2, right)>>, "l2"))>>, "r"))
                    EXCEPT !.joins = <<[pattern |-> <<"j">>, body |-> first],
                                       [pattern |-> <<"i">>, body |-> Do(<<B(<<"v">>, "text", <<"i", "t">>),
                                                                          Leave("l3", 1, third)>>, "l3")]>>],
              Ints({"d", "m0", "s0", "n"}) @@ Texts({"x", "b", "t", "u", "v", "r", "j", "i", "s", "l1", "l2", "l3"})) :
        left \in {"t", "u", "lit"}, right \in {"t", "u"},
        third \in {"i", "v", "t"}, first \in {Do(<<>>, "j"), Do(<<B(<<"s">>, "text", <<"j", "t">>)>>, "s"), Do(<<>>, "t")}}

(* A jump that moves an owner which the join goes on to read, in the plans *)
(* of a build without optional techniques.                                 *)
MovesWhatIsRead(x) ==
    \E s \in ProgramStates(x.p) :
        /\ Kind(x.p, s) = "jump" /\ x.w.terminatorUse[s]["value"] = "consume"
        /\ Args(x.p, s)[1] \in x.w.liveOwners[Targets(x.p, s)[1]]
Closures(program) ==
    IF program.stage = "closure" THEN program.of
    ELSE Known(Conversion!ConvertedProgram(Conversion!LinearProgram(Core!LoweredProgram(program.of))))
JumpsWithOwner(program) == MovesWhatIsRead(WithOwnership(PlannedCalls(Lower(Closures(program)), {})))

Families ==
    <<Counting, Doubling, Mutual, Capturing, Dispatching, Aliasing, Building("t"), Building("u"), Choosing,
      Forwarding("e"), Joining("x", "one"), Joining("lit", "ten")>> \o [i \in DOMAIN Bodies |-> Helping(Bodies[i])]
Checking ==
    <<Checked!Ordering, Checked!Leaving, Checked!Choosing, Checked!Applying, Checked!Looping, Checked!Handing, Checked!Currying>>

(* Of each family, the programs that have such a jump, or those that have  *)
(* none.                                                                   *)
MCPrograms ==
    LET all == Families \o Checking IN [i \in DOMAIN all |-> {program \in all[i] : ~JumpsWithOwner(program)}]
MCJumping ==
    LET all == Families \o Checking IN [i \in DOMAIN all |-> {program \in all[i] : JumpsWithOwner(program)}]

(* A sum whose left operand calls the host and whose right operand leaves. *)
MCReordering == <<Checked!Reordering>>

(* A choice whose value a function made and applied at once does not use.  *)
MCUnused == <<Checked!Unused>>

(* All techniques, none, and five choices that, with these, enable,        *)
(* disable and mix every two of them.                                      *)
MCTechniques ==
    {Techniques, {}, {"CallPattern", "NativeRecursion", "DirectCall", "TailForwarder"},
     {"NativeRecursion", "DirectCall", "SelfTail", "UniqueCapture", "ContinuationSpecialization"},
     {"CallPattern", "NativeRecursion", "SelfTail", "UniqueCapture", "FramePassThrough"},
     {"DirectCall", "TailForwarder", "UniqueCapture", "FramePassThrough", "ContinuationSpecialization"},
     {"CallPattern", "SelfTail", "TailForwarder", "FramePassThrough", "ContinuationSpecialization"}}
=============================================================================
