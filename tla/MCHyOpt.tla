------------------------------ MODULE MCHyOpt ------------------------------
(* Programs with what the passes look for: loops over arrays, conditions,   *)
(* calls, defers.  X is a variable, N a number; the first variables are the *)
(* parameters.                                                              *)
EXTENDS HyOpt

N(n) == [e |-> "const", n |-> n]
X(x) == [e |-> "var", x |-> x]
B(op, l, r) == [e |-> "bin", op |-> op, l |-> l, r |-> r]
And(l, r) == [e |-> "and", l |-> l, r |-> r]
Or(l, r) == [e |-> "or", l |-> l, r |-> r]
LenOf(a) == [e |-> "len", a |-> a]
At(a, i) == [e |-> "index", a |-> a, i |-> i]
Field(p, off) == [e |-> "field", p |-> p, off |-> off]
Cond(c, then, else) == [e |-> "cond", c |-> c, then |-> then, else |-> else]
Do(f, args) == [e |-> "call", f |-> f, args |-> args]
Let(x, v) == [s |-> "let", x |-> x, v |-> v]
Put(a, i, v) == [s |-> "put", a |-> a, i |-> i, v |-> v]
SetField(p, off, v) == [s |-> "setfield", p |-> p, off |-> off, v |-> v]
Expr(x) == [s |-> "expr", x |-> x]
If(c, then, else) == [s |-> "if", c |-> c, then |-> then, else |-> else]
While(c, body) == [s |-> "while", c |-> c, body |-> body]
For(init, c, post, body) == [s |-> "for", init |-> <<init>>, c |-> c, post |-> <<post>>, body |-> body]
ForIn(x, a, body) == [s |-> "forin", x |-> x, a |-> a, body |-> body]
Switch(x, cases) == [s |-> "switch", x |-> x, cases |-> cases]
Case(n, body) == [default |-> FALSE, v |-> N(n), body |-> body]
Default(body) == [default |-> TRUE, v |-> N(0), body |-> body]
Break == [s |-> "break"]
Continue_ == [s |-> "continue"]
Ret(x) == [s |-> "return", x |-> x]
Defer(body) == [s |-> "defer", body |-> body]
Fn(params, locals, body) == [params |-> params, locals |-> locals, body |-> body]
Run(f, args) == [f |-> f, args |-> args]
One(fn, runs) == [names |-> <<"f">>, functions |-> [f |-> fn], runs |-> {Run("f", a) : a \in runs}]

Arr == 512
Obj == 256
Up(x) == Let(x, B("add", X(x), N(1)))

\* Bounds checks: a loop to the length, a loop to a parameter, a store into the
\* array it reads.
Sums == One(Fn(2, 4, <<
    Let(3, N(0)),
    For(Let(4, N(0)), B("lt", X(4), LenOf(X(1))), Up(4),
        <<Let(3, B("add", X(3), At(X(1), X(4)))), Put(X(1), X(4), B("mul", X(4), N(3)))>>),
    For(Let(4, N(0)), B("lt", X(4), X(2)), Up(4), <<Let(3, B("add", X(3), At(X(1), X(4))))>>),
    Ret(X(3))>>), {<<0, 1>>, <<Arr, 0>>, <<Arr, 3>>})

\* Conditions: a chain of tests, a diamond and a triangle.
Conditions == One(Fn(2, 4, <<
    Let(3, N(0)),
    If(Or(And(B("lt", X(1), X(2)), B("ne", X(1), N(0))), B("gt", X(2), N(2))),
       <<Let(3, B("sub", X(1), X(2)))>>, <<Let(3, B("add", X(1), N(2))), Let(4, X(3))>>),
    If(B("ge", X(3), X(1)), <<Let(3, B("mul", X(3), N(4)))>>, <<>>),
    Let(4, B("sub", X(3), X(3))),
    Ret(B("add", X(3), X(4)))>>), (-1 .. 3) \X (0 .. 3))

\* A local array of known length, filled and read back, in a variable that was a
\* parameter.
Lookup == One(Fn(2, 4, <<
    Let(2, Do("hylian_array_zeros", <<N(3)>>)),
    For(Let(3, N(0)), B("lt", X(3), N(3)), Up(3),
        <<Put(X(2), X(3), B("add", B("mul", X(3), N(5)), B("mul", X(1), N(7))))>>),
    Let(4, N(0)),
    For(Let(3, N(0)), B("lt", X(3), N(2)), Up(3),
        <<Let(4, B("add", X(4), At(X(2), B("add", X(3), N(1)))))>>),
    Ret(X(4))>>), {<<n, 0>> : n \in -1 .. 2})

\* Calls between reads of an object, and functions that are expanded in line.
Calls == [names |-> <<"f", "g">>,
          functions |->
            [f |-> Fn(2, 3, <<
                Let(3, B("add", Field(X(1), 0), Field(B("add", X(1), B("mul", X(2), N(8))), 0))),
                SetField(X(1), 8, B("add", X(3), X(2))),
                Let(3, B("add", X(3), Do("g", <<Field(X(1), 8), X(3)>>))),
                Expr(Do("out", <<X(3)>>)),
                Ret(B("add", Do("g", <<X(3), Field(X(1), 8)>>), Field(X(1), 0)))>>),
             g |-> Fn(2, 2, <<If(B("lt", X(1), X(2)), <<Ret(X(2))>>, <<>>), Ret(B("and", X(1), N(6)))>>)],
          runs |-> {Run("f", <<Obj, n>>) : n \in 0 .. 1}]

\* break, continue and defer in loops.
Leaving == One(Fn(2, 4, <<
    Let(3, N(0)),
    Defer(<<Expr(Do("out", <<X(3)>>))>>),
    ForIn(4, X(1), <<
        If(B("eq", X(4), X(2)), <<Continue_>>, <<>>),
        Let(3, B("add", X(3), X(4))),
        If(B("gt", X(3), N(5)), <<Defer(<<SetField(N(Obj), 0, X(4))>>), Break>>, <<>>)>>),
    While(B("gt", X(3), N(0)), <<
        Let(3, B("sub", X(3), N(2))),
        If(B("eq", X(3), X(2)), <<Ret(B("add", X(3), Do("in", <<>>)))>>, <<>>)>>),
    Ret(X(3))>>), {<<0, 1>>} \union {<<Arr, n>> : n \in 0 .. 3})

\* A switch in a loop, which break leaves, with its default in the middle; values
\* that come by two ways.
Switching == One(Fn(2, 4, <<
    Let(3, N(0)),
    For(Let(4, N(0)), B("lt", X(4), N(3)), Up(4), <<
        Switch(B("add", X(1), X(4)), <<
            Case(1, <<Defer(<<Expr(Do("out", <<X(3)>>))>>), Let(3, B("add", X(3), N(8)))>>),
            Default(<<Let(3, Cond(B("lt", X(2), X(4)), B("mul", X(3), N(2)), Field(N(Obj), 0)))>>),
            Case(2, <<If(X(2), <<Break>>, <<Continue_>>)>>),
            Case(3, <<Ret(Or(And(X(2), B("gt", X(3), N(7))), B("eq", X(4), N(2))))>>)>>),
        Up(3)>>),
    Ret(B("sub", X(3), And(X(1), X(2))))>>), (0 .. 3) \X (0 .. 1))

\* A small function that calls itself.
Itself == One(Fn(1, 2, <<
    If(B("lt", X(1), N(2)), <<Ret(X(1))>>, <<>>),
    Ret(B("add", Do("f", <<B("sub", X(1), N(1))>>), Do("f", <<B("sub", X(1), N(2))>>)))>>),
    {<<n>> : n \in 0 .. 4})

\* The function is expanded into itself and optimized again: of the outer
\* condition both arms are then straight-line code, and what the first one does
\* to variable 3, dead where the arms meet, meets the second one, which reads
\* it.
Again == One(Fn(2, 4, <<
    Let(3, N(0)),
    Let(4, N(0)),
    While(B("gt", X(1), N(0)), <<
        If(X(2), <<If(B("gt", X(1), N(1)), <<Up(3)>>, <<>>), Let(4, B("add", X(3), N(5)))>>, <<Let(4, X(3))>>),
        Let(1, B("sub", X(1), N(1))),
        Let(3, Do("f", <<X(1), X(4)>>))>>),
    Ret(X(4))>>), (0 .. 3) \X (0 .. 1))

\* Three functions that call each other in a circle; the third calls the first
\* twice.
Circle == [names |-> <<"f", "g", "h">>,
           functions |->
             [f |-> Fn(1, 1, <<If(B("lt", X(1), N(1)), <<Ret(N(3))>>, <<>>),
                               Ret(Do("g", <<B("sub", X(1), N(1))>>))>>),
              g |-> Fn(1, 1, <<Ret(B("add", X(1), Do("h", <<X(1)>>)))>>),
              h |-> Fn(1, 1, <<Ret(B("add", Do("f", <<X(1)>>), Do("f", <<B("sub", X(1), N(1))>>)))>>)],
           runs |-> {Run("f", <<n>>) : n \in 0 .. 3} \union {Run("h", <<1>>)}]

MCPrograms == {Sums, Conditions, Lookup, Calls, Leaving, Switching, Itself, Circle}
AgainOnly == {Again}
Switches == {"cfg", "mem2reg", "prop", "copyprop", "cse", "addr", "gcse", "dce", "ifcvt", "loops", "bce", "licm",
             "sr", "inline", "selfinline"}
NothingOff == {{}}
AllSwitchedOff == {{}} \union {{s} : s \in Switches}

\* Two elements in the array at 512, an object at 256.
MCWorld == [a \in {256, 264, 512, 520, 528, 1024, 1032} |->
               CASE a \in {512, 520} -> 2 [] a = 528 -> 1024 [] a = 1024 -> 3 [] a = 1032 -> 4 [] OTHER -> a % 7]
MCAnswer(n) == ((n * 3) % 4) - 1
\* An outside call may take an element away or give it back, and changes the rest.
MCAfterwards(mem) == [a \in DOMAIN mem |->
    CASE a = 512 -> 3 - mem[a] [] a \in {520, 528} -> mem[a] [] OTHER -> mem[a] + 1]
=============================================================================
