----------------------------- MODULE MCFrontend ----------------------------
(* A program of two functions that includes two modules, which may include *)
(* each other, the program and a std module, and call each other's         *)
(* functions.                                                              *)
EXTENDS Frontend

CONSTANTS main, a, b, std, stub, noFile,    \* files
          Main, Own, F, G, Ctr, Lib,        \* functions
          Foo, nobody

\* The file of the program has two spellings; std.hy is the source of the std
\* module, std.hyi its interface, vendor.hyi one of a vendor's.
MCPath == {"main", "./main", "./a", "./b", "std.hy", "std.hyi", "vendor.hyi", "nowhere"}
MCFile == {main, a, b, std, stub}
MCName == {Main, Own, F, G, Ctr, Lib}
MCClass == {Foo}
MCCtor == [c \in MCClass |-> Ctr]

Use(op, to) == [op |-> op, to |-> to]
Def(name, refs) == [name |-> name, refs |-> refs]
MCFunctions == main :> <<Def(Main, <<Use("call", F), Use("call", nobody)>>), Def(Own, <<Use("call", Lib)>>)>>
               @@ a :> <<Def(F, <<Use("new", Foo), Use("call", F)>>), Def(G, <<Use("call", Own)>>)>>
               @@ b :> <<Def(Ctr, <<Use("addr", Own)>>)>>
               @@ std :> <<Def(Lib, <<Use("call", G)>>)>>
               @@ stub :> <<>>

\* An include line, with the places it is looked for.
Line(kind, hyi, hy) == [kind |-> kind, hyi |-> hyi, hy |-> hy]
Local(p) == Line("file", <<>>, <<p>>)
Near(p) == Line("file", <<>>, <<"nowhere", p>>)
StdLine == Line("std", <<"nowhere", "std.hyi">>, <<"nowhere", "std.hy">>)
Vendor == Line("vendor", <<"nowhere", "vendor.hyi">>, <<>>)
SourceOnly == Line("std", <<"nowhere">>, <<"std.hy">>)
Others == {Line("skip", <<>>, <<>>), Vendor, Local("nowhere"), SourceOnly}

UpToOne(S) == {<<>>} \union {<<x>> : x \in S}
UpToTwo(S) == UpToOne(S) \union {<<x, y>> : x \in S, y \in S}

\* The program spells its own file as the includes of the others do, or not.
ProjectsFrom(start, again, errors, ofMain, ofA, ofB) ==
    {[start |-> start,
      at |-> [p \in MCPath |-> CASE p = "./a" -> a [] p = "./b" -> b [] p = "std.hy" -> std
                                 [] p \in {start, again} -> main
                                 [] p \in {"std.hyi", "vendor.hyi"} -> stub [] OTHER -> noFile],
      broken |-> broken,
      includes |-> main :> im @@ a :> ia @@ b :> ib @@ std :> <<Vendor, StdLine>> @@ stub :> <<>>] :
        broken \in errors, im \in ofMain, ia \in ofA, ib \in ofB}

Here(again) == {Local(again), Local("./a"), Near("./b"), StdLine}
Inputs == {"nowhere", "./main"}
OneSpelling ==
    ProjectsFrom("./main", "./main", {{}, {b}},
                 UpToTwo(Here("./main")) \union {<<o, x>> : o \in Others, x \in Here("./main")},
                 UpToTwo(Here("./main")), UpToOne(Here("./main")))
    \union {[p EXCEPT !.start = s] : s \in Inputs,
                p \in ProjectsFrom("./main", "./main", {{main}}, {<<>>}, {<<>>}, {<<>>})}
TwoSpellings ==
    ProjectsFrom("main", "./main", {{}}, UpToTwo({Local("./a"), Near("./b")}),
                 UpToTwo({Local("./main"), Local("./a"), Near("./b")}), UpToTwo({Local("./main"), Local("./a")}))
NoModules == {}
=============================================================================
