------------------------------ MODULE MCStrip ------------------------------
(* Three functions, of which two may have the same name, with one or two   *)
(* uses of functions each: chains, cycles, recursion, calls through        *)
(* pointers, to functions of other objects, to constructors, and in asm.   *)
EXTENDS Strip

CONSTANTS main, f, fooCtor, other, Foo, nobody

MCName == {main, f, fooCtor, other}
MCClass == {Foo}
MCCtor == [c \in MCClass |-> fooCtor]

Use(op, to) == [op |-> op, to |-> to]
Uses == {Use("call", f), Use("call", main), Use("addr", fooCtor), Use("new", Foo),
         Use("call", other), Use("call", nobody), Use("asm", f)}
Bodies == {<<>>} \union {<<u>> : u \in Uses} \union {<<Use("call", f), u>> : u \in Uses}

Module(names, bodies, weakNames) ==
    [funcs |-> [i \in DOMAIN names |-> [name |-> names[i], refs |-> bodies[i]]], weak |-> weakNames]

MCModules ==
    {Module(<<main, f, fooCtor>>, bodies, weakNames) :
         bodies \in [1..3 -> Bodies], weakNames \in {{}, {f}, {f, fooCtor}, {main, f, fooCtor}}}
    \union {Module(<<main, f, f>>, bodies, {f}) : bodies \in [1..3 -> Bodies]}
    \union {Module(<<>>, <<>>, {f})}

=============================================================================
