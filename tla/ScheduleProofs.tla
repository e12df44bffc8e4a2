--------------------------- MODULE ScheduleProofs ---------------------------
(***************************************************************************)
(* Whatever the passes do, and whatever the functions call: the search     *)
(* yields every function once, callees first; what is expanded is finished *)
(* and known as it is; and the work ends.                                  *)
(***************************************************************************)
EXTENDS Schedule, Descent, FiniteSetTheorems, SequenceTheorems, TLAPS

\* The module the search looks at, its functions, and their calls of each other.
Module0 == Lowered(program)
Functions == DOMAIN Module0
Size(f) == Len(Module0[f].code)
Called(f, i) == Module0[f].code[i].callee
CallsOf(f) == {i \in 1 .. Size(f) : IsCall(Module0, f, i)}

OneVisit == [f : Functions, at : Nat]

\* The type invariant.
Types ==
    /\ program \in Programs
    /\ phase \in {"lower", "order", "optimize"}
    /\ phase = "order" => mod = Module0
    /\ phase = "optimize" => DOMAIN mod = Functions
    /\ visits \in Seq(OneVisit)
    /\ order \in Seq(Functions)
    /\ recursive \subseteq Functions
    /\ done \in 0 .. Len(order)
    /\ stage \in 0 .. Len(Once) + 1 /\ round \in 0 .. 2
    /\ scalar \in 0 .. Len(Repeated) /\ iter \in 0 .. 8

\* What belongs to one phase is as it was before, or as it was left.
Apart ==
    /\ phase = "lower" => order = <<>>
    /\ phase # "order" => visits = <<>>
    /\ phase # "optimize" => done = 0 /\ info = <<>> /\ stage = 0 /\ scalar = 0 /\ round = 0

\* No function is open or closed twice, and none is both.
NoneTwice ==
    /\ \A k, l \in 1 .. Len(order) : order[k] = order[l] => k = l
    /\ \A k, l \in 1 .. Len(visits) : visits[k].f = visits[l].f => k = l
    /\ \A k \in 1 .. Len(visits) : \A l \in 1 .. Len(order) : visits[k].f # order[l]

\* The search leaves none out.
NoneMissing == phase = "optimize" => \A f \in Functions : \E k \in 1 .. Len(order) : order[k] = f

\* A visit is within its function.
Within == \A k \in 1 .. Len(visits) : visits[k].at <= Size(visits[k].f)

\* A call is known to close a cycle.
InCycle(f, i) == f \in recursive /\ Called(f, i) \in recursive

\* Every call of a closed function is of one closed before, or closes a cycle.
ClosedBehind ==
    "inline" \notin passOff =>
        \A k \in 1 .. Len(order) : \A i \in CallsOf(order[k]) :
            InCycle(order[k], i) \/ \E l \in 1 .. k - 1 : order[l] = Called(order[k], i)

\* Every call an open function is through with is of a closed function, or closes
\* a cycle; and the call it has reached may be the one that is followed.
OpenBehind ==
    \A k \in 1 .. Len(visits) : \A i \in CallsOf(visits[k].f) : i <= visits[k].at =>
        \/ InCycle(visits[k].f, i)
        \/ \E l \in 1 .. Len(order) : order[l] = Called(visits[k].f, i)
        \/ i = visits[k].at /\ k < Len(visits) /\ visits[k + 1].f = Called(visits[k].f, i)

\* What is known of the functions: of the finished ones, the truth; besides, only
\* of the current one when it is recursive.
Known ==
    /\ InfoIsCurrent
    /\ \A g \in DOMAIN info : \/ \E k \in 1 .. done : order[k] = g
                              \/ Working /\ g = F /\ g \in recursive

\* The inductive invariant.
IInv == Types /\ Apart /\ NoneTwice /\ NoneMissing /\ Within /\ ClosedBehind /\ OpenBehind /\ Known

-----------------------------------------------------------------------------
(* The statements.                                                         *)

\* Each function is optimized, and once.
EachOnce ==
    phase = "optimize" => \A f \in Functions : \E k \in 1 .. Len(order) : \A l \in 1 .. Len(order) :
        order[l] = f <=> l = k

\* What may be expanded in another function's place is finished, so its code is
\* what it will be in the end.
ExpandsFinished == \A g \in Expandable : \E k \in 1 .. done : order[k] = g

\* A finished function stays as it is.
FinishedStays == \A k \in 1 .. done : mod'[order[k]] = mod[order[k]]

\* What is left to do: the phase; in the search the functions not seen, the
\* open ones and the instructions the last of them has before it; then the
\* functions and their rounds, the passes, and the passes in the rounds of
\* scalar_fixpoint.
Unseen == Functions \ (Open \union Closed)
InSearch == <<1, Cardinality(Unseen), Len(visits), IF visits = <<>> THEN 0 ELSE Size(Top.f) - Top.at>>
InPasses ==
    <<0, 3 * (Len(order) - done) + (2 - round), Len(Once) + 1 - stage,
      IF scalar = 0 THEN 0 ELSE 8 * (8 - iter) + (9 - scalar)>>
Left == IF phase = "lower" THEN <<2, 0, 0, 0>> ELSE IF phase = "order" THEN InSearch ELSE InPasses

-----------------------------------------------------------------------------
(* Programs and sequences.                                                 *)

\* What the assumption says of the program compiled.
LEMMA ProgramFacts ==
    ASSUME program \in Programs
    PROVE  /\ program.names \in Seq(Functions)
           /\ Len(program.names) \in Nat /\ DOMAIN program.names = 1 .. Len(program.names)
           /\ \A f \in Functions : \E i \in 1 .. Len(program.names) : program.names[i] = f
           /\ \A i, j \in 1 .. Len(program.names) : program.names[i] = program.names[j] => i = j
           /\ \A f \in Functions : Size(f) \in Nat
<1>1. program.names \in Seq(Functions) /\ \A f \in Functions : Size(f) \in Nat
  BY ScheduleAssumption DEF Functions, Module0, Size
<1>2. Len(program.names) \in Nat /\ DOMAIN program.names = 1 .. Len(program.names)
  BY <1>1
<1>3. \A f \in Functions : \E i \in 1 .. Len(program.names) : program.names[i] = f
  BY <1>2, ScheduleAssumption DEF Functions, Module0
<1>4. \A i, j \in 1 .. Len(program.names) : program.names[i] = program.names[j] => i = j
  BY <1>2, ScheduleAssumption
<1> QED BY <1>1, <1>2, <1>3, <1>4

\* A program has finitely many functions.
LEMMA FinitelyMany ==
    ASSUME program \in Programs
    PROVE  IsFiniteSet(Functions)
<1> DEFINE nm == program.names
           S == 1 .. Len(nm)
<1>1. nm \in [S -> Functions] /\ \A f \in Functions : \E i \in S : nm[i] = f
  <2>1. /\ nm \in Seq(Functions) /\ Len(nm) \in Nat
        /\ \A f \in Functions : \E i \in 1 .. Len(nm) : nm[i] = f
    BY ProgramFacts
  <2> HIDE DEF nm
  <2> QED BY <2>1 DEF S
<1>2. nm \in Surjection(S, Functions)
  BY <1>1 DEF Surjection
<1>3. IsFiniteSet(S)
  BY ProgramFacts, FS_Interval
<1> HIDE DEF nm, S
<1> QED BY <1>2, <1>3, FS_Surjection

\* Open and closed functions, by their positions.
LEMMA Colours ==
    ASSUME Types
    PROVE  /\ Len(visits) \in Nat /\ Len(order) \in Nat
           /\ DOMAIN visits = 1 .. Len(visits) /\ DOMAIN order = 1 .. Len(order)
           /\ \A f : f \in Open <=> \E k \in 1 .. Len(visits) : visits[k].f = f
           /\ \A f : f \in Closed <=> \E k \in 1 .. Len(order) : order[k] = f
           /\ \A k \in 1 .. Len(visits) : visits[k].f \in Functions /\ visits[k].at \in Nat
           /\ \A k \in 1 .. Len(order) : order[k] \in Functions
           /\ visits # <<>> => Len(visits) >= 1
<1>1. visits \in Seq(OneVisit) /\ order \in Seq(Functions)
  BY DEF Types
<1>2. /\ Len(visits) \in Nat /\ DOMAIN visits = 1 .. Len(visits)
      /\ \A k \in 1 .. Len(visits) : visits[k] \in OneVisit
      /\ visits # <<>> => Len(visits) >= 1
  BY <1>1
<1>3. /\ Len(order) \in Nat /\ DOMAIN order = 1 .. Len(order)
      /\ \A k \in 1 .. Len(order) : order[k] \in Functions
  BY <1>1
<1>4. \A k \in 1 .. Len(visits) : visits[k].f \in Functions /\ visits[k].at \in Nat
  BY <1>2 DEF OneVisit
<1> QED BY <1>2, <1>3, <1>4 DEF Open, Closed

\* A function put at the end of the order.
LEMMA Later ==
    ASSUME order \in Seq(Functions), NEW f \in Functions, order' = Append(order, f)
    PROVE  /\ order' \in Seq(Functions) /\ Len(order') = Len(order) + 1 /\ Len(order) \in Nat
           /\ order'[Len(order) + 1] = f /\ \A k \in 1 .. Len(order) : order'[k] = order[k]
  BY AppendProperties

\* A visit that is begun.
LEMMA Begun ==
    ASSUME NEW s \in Seq(OneVisit), NEW v \in OneVisit
    PROVE  /\ Append(s, v) \in Seq(OneVisit) /\ Len(Append(s, v)) = Len(s) + 1 /\ Len(s) \in Nat
           /\ Append(s, v)[Len(s) + 1] = v /\ \A k \in 1 .. Len(s) : Append(s, v)[k] = s[k]
  BY AppendProperties

\* A visit that is over.
LEMMA Over ==
    ASSUME visits \in Seq(OneVisit), visits # <<>>, visits' = SubSeq(visits, 1, Len(visits) - 1)
    PROVE  /\ visits' \in Seq(OneVisit) /\ Len(visits') = Len(visits) - 1 /\ Len(visits) \in Nat
           /\ Len(visits) >= 1
           /\ \A k \in 1 .. Len(visits) - 1 : visits'[k] = visits[k]
<1>1. Len(visits) \in Nat /\ Len(visits) >= 1 /\ \A k \in 1 .. Len(visits) : visits[k] \in OneVisit
  OBVIOUS
<1> DEFINE n == Len(visits) - 1
<1>2. n \in Int /\ 1 \in Int /\ n >= 0 /\ \A k \in 1 .. n : visits[k] \in OneVisit
  BY <1>1
<1> HIDE DEF n
<1>3. /\ SubSeq(visits, 1, n) \in Seq(OneVisit)
      /\ Len(SubSeq(visits, 1, n)) = n
      /\ \A k \in 1 .. n : SubSeq(visits, 1, n)[k] = visits[k]
  BY <1>2
<1> QED BY <1>1, <1>3 DEF n

-----------------------------------------------------------------------------
(* The search.                                                             *)

\* Before the passes nothing is known, and nothing has to be.
LEMMA NothingKnown == done = 0 /\ info = <<>> => Known
<1> SUFFICES ASSUME done = 0, info = <<>> PROVE Known
  OBVIOUS
<1>1. DOMAIN info = {} /\ 1 .. done = {}
  OBVIOUS
<1> QED BY <1>1 DEF Known, InfoIsCurrent

\* At the beginning.
LEMMA Initially == Init => IInv
<1> SUFFICES ASSUME Init PROVE IInv
  OBVIOUS
<1> USE DEF Init
<1>1. visits = <<>> /\ order = <<>> /\ Len(visits) = 0 /\ Len(order) = 0
  OBVIOUS
<1>2. Types
  BY <1>1 DEF Types, Once, Repeated
<1>3. Apart /\ NoneMissing
  BY DEF Apart, NoneMissing
<1>4. NoneTwice /\ Within /\ ClosedBehind /\ OpenBehind
  BY <1>1 DEF NoneTwice, Within, ClosedBehind, OpenBehind
<1>5. Known
  BY NothingKnown
<1> QED BY <1>2, <1>3, <1>4, <1>5 DEF IInv

\* Nothing happens.
LEMMA NothingKeeps == IInv /\ UNCHANGED vars => IInv'
<1> SUFFICES ASSUME IInv, UNCHANGED vars PROVE IInv'
  OBVIOUS
<1> USE DEF IInv, vars, searchVars, passVars
<1>1. Module0' = Module0 /\ Functions' = Functions /\ Seq(OneVisit)' = Seq(OneVisit)
  BY DEF Functions, Module0, OneVisit
<1>2. Types' /\ Apart'
  BY <1>1 DEF Types, Apart
<1>3. NoneTwice' /\ NoneMissing'
  BY <1>1 DEF NoneTwice, NoneMissing
<1>4. Within' /\ ClosedBehind' /\ OpenBehind'
  BY <1>1 DEF Within, ClosedBehind, OpenBehind, InCycle, CallsOf, Called, Size
<1>5. Known'
  BY DEF Known, InfoIsCurrent, Working, F
<1> QED BY <1>2, <1>3, <1>4, <1>5

\* The module is lowered.
LEMMA LowerKeeps == IInv /\ LowerProgram => IInv'
<1> SUFFICES ASSUME IInv, LowerProgram PROVE IInv'
  OBVIOUS
<1> USE DEF LowerProgram, searchVars, passVars
<1>1. phase = "lower" /\ order = <<>> /\ visits = <<>> /\ done = 0 /\ info = <<>> /\ program \in Programs
  BY DEF IInv, Types, Apart
<1>2. visits' = <<>> /\ Len(visits') = 0 /\ Module0' = Module0 /\ Functions' = Functions
  BY <1>1 DEF Module0, Functions
<1>3. /\ order' \in Seq(Functions) /\ Len(order') \in Nat
      /\ \A k, l \in 1 .. Len(order') : order'[k] = order'[l] => k = l
      /\ phase' = "optimize" => \A f \in Functions : \E k \in 1 .. Len(order') : order'[k] = f
  <2>1. CASE "inline" \in passOff
    <3>1. order' = program.names
      BY <2>1
    <3> QED BY <1>1, <3>1, ProgramFacts
  <2>2. CASE "inline" \notin passOff
    <3>1. order' = <<>> /\ phase' = "order" /\ Len(order') = 0
      BY <2>2
    <3> QED BY <3>1
  <2> QED BY <2>1, <2>2
<1>4. Types'
  <2>1. visits' \in Seq(OneVisit)'
    BY <1>2
  <2>2. mod' = Module0 /\ DOMAIN mod' = Functions'
    BY <1>2 DEF Functions, Module0
  <2>3. recursive \subseteq Functions /\ stage \in 0 .. Len(Once) + 1 /\ round \in 0 .. 2
        /\ scalar \in 0 .. Len(Repeated) /\ iter \in 0 .. 8
    BY DEF IInv, Types
  <2>4. done' \in 0 .. Len(order') /\ phase' \in {"lower", "order", "optimize"}
    BY <1>1, <1>3
  <2> QED BY <1>1, <1>2, <1>3, <2>1, <2>2, <2>3, <2>4 DEF Types
<1>5. Apart'
  BY <1>2 DEF IInv, Apart
<1>6. NoneTwice' /\ NoneMissing'
  BY <1>2, <1>3 DEF NoneTwice, NoneMissing
<1>7. Within' /\ OpenBehind'
  BY <1>2 DEF Within, OpenBehind
<1>8. ClosedBehind'
  <2>1. "inline" \notin passOff' => order' = <<>> /\ Len(order') = 0
    OBVIOUS
  <2> QED BY <2>1 DEF ClosedBehind
<1>9. Known'
  <2>1. (done = 0 /\ info = <<>> => Known)'
    BY NothingKnown, PTL
  <2> QED BY <1>1, <2>1
<1> QED BY <1>4, <1>5, <1>6, <1>7, <1>8, <1>9 DEF IInv

\* What the steps of the search have in common.
LEMMA SearchStep ==
    ASSUME IInv, phase = "order", phase' = "order", visits' \in Seq(OneVisit), order' \in Seq(Functions),
           recursive' \subseteq Functions, NoneTwice', Within', ClosedBehind', OpenBehind',
           UNCHANGED <<program, passOff, mod, done, info, passVars>>
    PROVE  IInv'
<1> USE DEF passVars
<1>1. Module0' = Module0 /\ Functions' = Functions /\ Seq(OneVisit)' = Seq(OneVisit)
  BY DEF Module0, Functions, OneVisit
<1>2. done = 0 /\ info = <<>> /\ stage = 0 /\ scalar = 0 /\ round = 0
  BY DEF IInv, Apart
<1>3. Types'
  <2>1. done' \in 0 .. Len(order')
    BY <1>2
  <2> QED BY <1>1, <2>1 DEF IInv, Types
<1>4. Apart' /\ NoneMissing'
  BY <1>2 DEF Apart, NoneMissing
<1>5. Known'
  <2>1. (done = 0 /\ info = <<>> => Known)'
    BY NothingKnown, PTL
  <2> QED BY <1>2, <2>1
<1> QED BY <1>3, <1>4, <1>5 DEF IInv

\* The search begins with a function that is not closed.
LEMMA RootKeeps == IInv /\ VisitRoot => IInv'
<1> SUFFICES ASSUME IInv, VisitRoot PROVE IInv'
  OBVIOUS
<1> USE DEF VisitRoot
<1>1. program \in Programs /\ Types
  BY DEF IInv, Types
<1>2. PICK k \in DOMAIN program.names : /\ program.names[k] \notin Closed
                                        /\ visits' = <<[f |-> program.names[k], at |-> 0]>>
  OBVIOUS
<1> DEFINE g == program.names[k]
<1>3. g \in Functions /\ Size(g) \in Nat
  <2> DEFINE nm == program.names
  <2>1. /\ nm \in Seq(Functions) /\ Len(nm) \in Nat /\ DOMAIN nm = 1 .. Len(nm)
        /\ \A f \in Functions : Size(f) \in Nat
    BY <1>1, ProgramFacts
  <2>2. k \in DOMAIN nm /\ g = nm[k]
    OBVIOUS
  <2> HIDE DEF nm, g
  <2> QED BY <2>1, <2>2
<1>4. /\ visits' \in Seq(OneVisit) /\ Len(visits') = 1 /\ visits'[1].f = g /\ visits'[1].at = 0
  BY <1>2, <1>3 DEF OneVisit
<1>5. \A l \in 1 .. Len(order) : order[l] # g
  BY <1>1, <1>2, Colours
<1>6. Module0' = Module0 /\ Functions' = Functions
  BY DEF Module0, Functions
<1> HIDE DEF g
<1>7. NoneTwice'
  BY <1>4, <1>5 DEF IInv, NoneTwice
<1>8. Within'
  BY <1>3, <1>4, <1>6 DEF Within, Size
<1>9. ClosedBehind'
  BY <1>6 DEF IInv, ClosedBehind, CallsOf, Size, Called, InCycle
<1>10. OpenBehind'
  <2>1. \A n \in 1 .. Len(visits') : visits'[n].at = 0
    BY <1>4
  <2>2. \A n : \A i \in CallsOf(n)' : i >= 1 /\ i \in Int
    BY DEF CallsOf
  <2>3. ASSUME NEW n \in 1 .. Len(visits'), NEW i \in CallsOf(visits[n].f)', (i <= visits[n].at)'
        PROVE  FALSE
    BY <2>1, <2>2, <2>3
  <2> QED BY <2>3 DEF OpenBehind
<1> QED BY <1>1, <1>4, <1>7, <1>8, <1>9, <1>10, SearchStep DEF IInv, Types

\* Where the function on top stands: at a call that comes next, every call
\* before it has been looked at.
LEMMA TopFacts ==
    ASSUME IInv, phase = "order", visits # <<>>
    PROVE  /\ Len(visits) \in Nat /\ Len(visits) >= 1 /\ Len(visits) \in 1 .. Len(visits)
           /\ Top \in OneVisit /\ Top.f \in Functions /\ Top.at \in Nat /\ mod = Module0
           /\ Size(Top.f) \in Nat /\ Top.at <= Size(Top.f)
<1>1. Types /\ Within /\ visits \in Seq(OneVisit) /\ program \in Programs /\ mod = Module0
  BY DEF IInv, Types
<1>2. Len(visits) \in Nat /\ Len(visits) >= 1 /\ Len(visits) \in 1 .. Len(visits)
  BY <1>1, Colours
<1>3. Top \in OneVisit
  BY <1>1, <1>2 DEF Top
<1>4. Top.f \in Functions /\ Top.at \in Nat
  BY <1>3 DEF OneVisit
<1>5. Size(Top.f) \in Nat
  BY <1>1, <1>4, ProgramFacts
<1>6. Top.at <= Size(Top.f)
  BY <1>1, <1>2 DEF Within, Top
<1> QED BY <1>1, <1>2, <1>3, <1>4, <1>5, <1>6

\* The visits when the function on top has come to its i-th instruction.
MovedTo(i) == [visits EXCEPT ![Len(visits)].at = i]

\* The next call, when it is not followed, or before it is.
LEMMA Advancing ==
    ASSUME IInv, phase = "order", visits # <<>>, NEW i \in 1 .. Len(mod[Top.f].code), IsNextCall(i)
    PROVE  /\ MovedTo(i) \in Seq(OneVisit) /\ Len(MovedTo(i)) = Len(visits)
           /\ \A k \in 1 .. Len(visits) : MovedTo(i)[k].f = visits[k].f
           /\ \A k \in 1 .. Len(visits) : k # Len(visits) => MovedTo(i)[k].at = visits[k].at
           /\ MovedTo(i)[Len(visits)].at = i
           /\ i \in CallsOf(Top.f) /\ i <= Size(Top.f) /\ i > Top.at
           /\ \A j \in CallsOf(Top.f) : j <= i => j = i \/ j <= Top.at
<1>1. /\ visits \in Seq(OneVisit) /\ Top \in OneVisit /\ Top.at \in Nat /\ mod = Module0
      /\ Len(visits) \in Nat /\ Len(visits) \in 1 .. Len(visits) /\ Size(Top.f) \in Nat
  BY TopFacts DEF IInv, Types
<1> DEFINE n == Len(visits)
           v == [visits[n] EXCEPT !.at = i]
           s == MovedTo(i)
<1>2. v \in OneVisit /\ v.f = visits[n].f /\ v.at = i
  BY <1>1 DEF Top, OneVisit
<1>3. s = [visits EXCEPT ![n] = v]
  BY DEF MovedTo
<1> HIDE DEF v, s
<1>4. s \in Seq(OneVisit) /\ Len(s) = n /\ s[n] = v /\ \A k \in 1 .. n : k # n => s[k] = visits[k]
  <2>1. n \in 1 .. Len(visits) /\ n \in Nat /\ DOMAIN visits = 1 .. n
    BY <1>1
  <2>2. s \in Seq(OneVisit) /\ Len(s) = Len(visits)
    BY <1>1, <1>2, <1>3, <2>1, ExceptSeq
  <2> HIDE DEF n
  <2>3. s[n] = v /\ \A k \in 1 .. n : k # n => s[k] = visits[k]
    BY <1>3, <2>1
  <2> QED BY <2>2, <2>3 DEF n
<1>5. Size(Top.f) = Len(mod[Top.f].code) /\ \A j : j \in CallsOf(Top.f) <=> j \in 1 .. Size(Top.f) /\ IsCall(mod, Top.f, j)
  BY <1>1 DEF Size, CallsOf
<1>6. i \in CallsOf(Top.f) /\ i <= Size(Top.f) /\ i > Top.at
  BY <1>1, <1>5 DEF IsNextCall
<1>7. ASSUME NEW j \in CallsOf(Top.f), j <= i, ~(j <= Top.at)
      PROVE  j = i
  <2>1. j \in Int /\ i \in Int /\ IsCall(mod, Top.f, j)
    BY <1>1, <1>5
  <2>2. j \in Top.at + 1 .. i - 1 \/ j = i
    BY <1>1, <1>7, <2>1
  <2> QED BY <2>1, <2>2 DEF IsNextCall
<1> QED BY <1>2, <1>4, <1>6, <1>7 DEF s

\* What becomes of the open functions when the one on top has looked at a call.
LEMMA Looked ==
    ASSUME IInv, phase = "order", visits # <<>>, NEW i \in 1 .. Len(mod[Top.f].code), IsNextCall(i),
           NEW k \in 1 .. Len(visits), NEW j \in CallsOf(visits[k].f),
           k = Len(visits) => j <= i, k # Len(visits) => j <= visits[k].at
    PROVE  \/ InCycle(visits[k].f, j)
           \/ \E l \in 1 .. Len(order) : order[l] = Called(visits[k].f, j)
           \/ j = visits[k].at /\ k < Len(visits) /\ visits[k + 1].f = Called(visits[k].f, j)
           \/ k = Len(visits) /\ j = i
<1>1. OpenBehind
  BY DEF IInv
<1>2. CASE k = Len(visits)
  <2>1. visits[k] = Top
    BY <1>2 DEF Top
  <2>2. j = i \/ j <= Top.at
    BY <1>2, <2>1, Advancing
  <2> QED BY <1>1, <1>2, <2>1, <2>2 DEF OpenBehind
<1>3. CASE k # Len(visits)
  BY <1>1, <1>3 DEF OpenBehind
<1> QED BY <1>2, <1>3

\* A call of the module's functions, once more.
LEMMA CalledFacts ==
    ASSUME NEW f \in Functions, NEW i \in CallsOf(f)
    PROVE  Called(f, i) \in Functions /\ i \in Nat /\ i >= 1 /\ i <= Size(f)
  BY DEF CallsOf, IsCall, Called, Functions

\* A call is looked at that is not followed: it closes a cycle, or the function
\* is closed.
LEMMA PassesBy ==
    ASSUME IInv, phase = "order", phase' = "order", visits # <<>>,
           NEW i \in 1 .. Len(mod[Top.f].code), IsNextCall(i),
           Called(Top.f, i) \in Open \union Closed,
           visits' = [visits EXCEPT ![Len(visits)].at = i],
           recursive' = IF Called(Top.f, i) \in Open THEN recursive \union {Called(Top.f, i), Top.f} ELSE recursive,
           UNCHANGED <<program, passOff, mod, order, done, info, passVars>>
    PROVE  IInv'
<1> DEFINE n == Len(visits)
<1>1. /\ Len(visits') = n /\ visits' \in Seq(OneVisit)
      /\ \A k \in 1 .. n : visits'[k].f = visits[k].f
      /\ \A k \in 1 .. n : k # n => visits'[k].at = visits[k].at
      /\ visits'[n].at = i /\ i \in CallsOf(Top.f) /\ i <= Size(Top.f)
  <2> DEFINE s == MovedTo(i)
  <2>1. visits' = s
    BY DEF MovedTo
  <2>2. /\ s \in Seq(OneVisit) /\ Len(s) = Len(visits)
        /\ \A k \in 1 .. Len(visits) : s[k].f = visits[k].f
        /\ \A k \in 1 .. Len(visits) : k # Len(visits) => s[k].at = visits[k].at
        /\ s[Len(visits)].at = i
        /\ i \in CallsOf(Top.f) /\ i <= Size(Top.f)
    <3> HIDE DEF n
    <3> QED BY Advancing
  <2> HIDE DEF s, n
  <2> QED BY <2>1, <2>2 DEF n
<1>2. n \in Nat /\ n \in 1 .. n /\ Top.f \in Functions /\ Top = visits[n] /\ Types
  BY TopFacts DEF Top, IInv
<1>3. order' \in Seq(Functions) /\ order' = order /\ recursive' \subseteq Functions
  BY <1>1, <1>2, CalledFacts DEF IInv, Types
<1>4. Module0' = Module0 /\ Functions' = Functions
  BY DEF Module0, Functions
<1>5. NoneTwice'
  BY <1>1, <1>3 DEF IInv, NoneTwice
<1>6. Within'
  <2>1. ASSUME NEW k \in 1 .. n PROVE visits'[k].at <= Size(visits[k].f)
    <3>1. CASE k = n
      BY <1>1, <1>2, <3>1
    <3>2. CASE k # n
      BY <1>1, <3>2 DEF IInv, Within
    <3> QED BY <3>1, <3>2
  <2> QED BY <1>1, <1>4, <2>1 DEF Within, Size
<1>7. recursive \subseteq recursive'
  OBVIOUS
<1>8. ClosedBehind'
  BY <1>3, <1>4, <1>7 DEF IInv, ClosedBehind, InCycle, CallsOf, Called, Size
<1>9. OpenBehind'
  <2>1. ASSUME NEW k \in 1 .. n, NEW j \in CallsOf(visits[k].f), j <= visits'[k].at
        PROVE  \/ visits[k].f \in recursive' /\ Called(visits[k].f, j) \in recursive'
               \/ \E l \in 1 .. Len(order) : order[l] = Called(visits[k].f, j)
               \/ j = visits'[k].at /\ k < n /\ visits[k + 1].f = Called(visits[k].f, j)
    <3>1. k = n => j <= i
      BY <1>1, <2>1
    <3>2. k # n => visits'[k].at = visits[k].at
      BY <1>1
    <3>3. \/ InCycle(visits[k].f, j)
          \/ \E l \in 1 .. Len(order) : order[l] = Called(visits[k].f, j)
          \/ j = visits[k].at /\ k < n /\ visits[k + 1].f = Called(visits[k].f, j)
          \/ k = n /\ j = i
      BY <2>1, <3>1, <3>2, Looked
    <3>4. CASE k = n /\ j = i
      <4>1. Called(visits[k].f, j) = Called(Top.f, i) /\ visits[k].f = Top.f
        BY <1>2, <3>4
      <4>2. CASE Called(Top.f, i) \in Open
        BY <4>1, <4>2
      <4>3. CASE Called(Top.f, i) \in Closed
        BY <1>2, <4>1, <4>3, Colours
      <4> QED BY <4>2, <4>3
    <3>5. k < n => k # n
      BY <1>2
    <3> QED BY <1>7, <3>2, <3>3, <3>4, <3>5 DEF InCycle
  <2>3. \A k \in 1 .. n : k < n => k + 1 \in 1 .. n
    BY <1>2
  <2>4. ASSUME NEW k \in 1 .. Len(visits'), NEW j \in CallsOf(visits[k].f)', (j <= visits[k].at)'
        PROVE  (\/ InCycle(visits[k].f, j)
                \/ \E l \in 1 .. Len(order) : order[l] = Called(visits[k].f, j)
                \/ j = visits[k].at /\ k < Len(visits) /\ visits[k + 1].f = Called(visits[k].f, j))'
    <3> DEFINE f == visits[k].f
    <3>1. k \in 1 .. n /\ j \in CallsOf(f) /\ j <= visits'[k].at /\ f' = f
      BY <1>1, <1>4, <2>4 DEF CallsOf, Size
    <3>2. Called(f, j)' = Called(f, j) /\ (InCycle(f, j)' <=> f \in recursive' /\ Called(f, j) \in recursive')
      BY <1>4, <3>1 DEF Called, InCycle
    <3>3. k < Len(visits) => (visits[k + 1].f)' = visits[k + 1].f
      BY <1>1, <2>3, <3>1
    <3>4. \/ f \in recursive' /\ Called(f, j) \in recursive'
          \/ \E l \in 1 .. Len(order) : order[l] = Called(f, j)
          \/ j = visits'[k].at /\ k < n /\ visits[k + 1].f = Called(f, j)
      BY <2>1, <3>1
    <3> QED BY <1>1, <1>3, <3>2, <3>3, <3>4
  <2> QED BY <2>4 DEF OpenBehind
<1> QED BY <1>1, <1>3, <1>5, <1>6, <1>8, <1>9, SearchStep

\* A call of a function that has not been seen is followed.
LEMMA GoesDown ==
    ASSUME IInv, phase = "order", phase' = "order", visits # <<>>,
           NEW i \in 1 .. Len(mod[Top.f].code), IsNextCall(i),
           Called(Top.f, i) \notin Open \union Closed,
           visits' = Append(MovedTo(i), [f |-> Called(Top.f, i), at |-> 0]),
           UNCHANGED <<program, passOff, mod, order, recursive, done, info, passVars>>
    PROVE  IInv'
<1> DEFINE n == Len(visits)
           g == Called(Top.f, i)
           s == MovedTo(i)
           v == [f |-> g, at |-> 0]
<1>1. /\ s \in Seq(OneVisit) /\ Len(s) = n
      /\ \A k \in 1 .. n : s[k].f = visits[k].f
      /\ \A k \in 1 .. n : k # n => s[k].at = visits[k].at
      /\ s[n].at = i /\ i \in CallsOf(Top.f) /\ i <= Size(Top.f)
  <2> HIDE DEF n
  <2> QED BY Advancing DEF n
<1>2. n \in Nat /\ n \in 1 .. n /\ Top.f \in Functions /\ Top = visits[n] /\ Types
  BY TopFacts DEF Top, IInv
<1>3. g \in Functions /\ v \in OneVisit
  BY <1>1, <1>2, CalledFacts DEF OneVisit
<1>4. Size(g) \in Nat
  BY <1>3, ProgramFacts DEF IInv, Types
<1> HIDE DEF s, n, v
<1>5. /\ visits' \in Seq(OneVisit) /\ Len(visits') = n + 1
      /\ visits'[n + 1] = v /\ \A k \in 1 .. n : visits'[k] = s[k]
  <2>1. visits' = Append(s, v)
    BY DEF s, v
  <2>2. /\ Append(s, v) \in Seq(OneVisit) /\ Len(Append(s, v)) = Len(s) + 1
        /\ Append(s, v)[Len(s) + 1] = v /\ \A k \in 1 .. Len(s) : Append(s, v)[k] = s[k]
    BY <1>1, <1>3, Begun
  <2> QED BY <1>1, <2>1, <2>2
<1>6. visits'[n + 1].f = g /\ visits'[n + 1].at = 0
  BY <1>5 DEF v
<1>7. /\ \A k \in 1 .. n : visits'[k].f = visits[k].f
      /\ \A k \in 1 .. n : k # n => visits'[k].at = visits[k].at
      /\ visits'[n].at = i
  BY <1>1, <1>2, <1>5
<1>8. Module0' = Module0 /\ Functions' = Functions
  BY DEF Module0, Functions
<1>9. /\ \A k \in 1 .. n : visits[k].f # g
      /\ \A l \in 1 .. Len(order) : order[l] # g
  BY <1>2, Colours DEF n
<1> HIDE DEF g
<1>10. NoneTwice'
  <2>1. /\ \A k, l \in 1 .. n : visits[k].f = visits[l].f => k = l
        /\ \A k \in 1 .. n : \A l \in 1 .. Len(order) : visits[k].f # order[l]
        /\ \A k, l \in 1 .. Len(order) : order[k] = order[l] => k = l
    BY DEF IInv, NoneTwice, n
  <2>2. \A k \in 1 .. n + 1 : k \in 1 .. n \/ k = n + 1
    BY <1>2
  <2>3. ASSUME NEW k \in 1 .. n + 1, NEW l \in 1 .. n + 1, visits'[k].f = visits'[l].f
        PROVE  k = l
    BY <1>6, <1>7, <1>9, <2>1, <2>2, <2>3
  <2>4. ASSUME NEW k \in 1 .. n + 1, NEW l \in 1 .. Len(order)
        PROVE  visits'[k].f # order[l]
    <3>1. CASE k = n + 1
      BY <1>6, <1>9, <3>1
    <3>2. CASE k \in 1 .. n
      BY <1>7, <2>1, <3>2
    <3> QED BY <2>2, <3>1, <3>2
  <2> QED BY <1>5, <2>1, <2>3, <2>4 DEF NoneTwice
<1>11. Within'
  <2>1. ASSUME NEW k \in 1 .. n + 1 PROVE visits'[k].at <= Size(visits'[k].f)
    <3>1. CASE k = n
      BY <1>1, <1>2, <1>7, <3>1
    <3>2. CASE k \in 1 .. n /\ k # n
      BY <1>7, <3>2 DEF IInv, Within, n
    <3>3. CASE k = n + 1
      <4>1. visits'[k].f = g /\ visits'[k].at = 0
        BY <1>6, <3>3
      <4>2. Size(visits'[k].f) = Size(g)
        BY <4>1
      <4> DEFINE z == Size(g)
      <4>3. z \in Nat
        BY <1>4
      <4>4. visits'[k].at = 0 /\ Size(visits'[k].f) = z
        BY <4>1, <4>2
      <4> HIDE DEF z
      <4>5. 0 <= z
        BY <4>3
      <4> QED BY <4>4, <4>5
    <3>4. k \in 1 .. n \/ k = n + 1
      BY <1>2
    <3> QED BY <3>1, <3>2, <3>3, <3>4
  <2>2. \A f : Size(f)' = Size(f)
    BY <1>8 DEF Size
  <2>3. ASSUME NEW k \in 1 .. Len(visits') PROVE (visits[k].at <= Size(visits[k].f))'
    BY <1>5, <1>8, <2>1 DEF Size
  <2> QED BY <2>3 DEF Within
<1>12. ClosedBehind'
  BY <1>8 DEF IInv, ClosedBehind, InCycle, CallsOf, Called, Size
<1>13. OpenBehind'
  <2>1. ASSUME NEW k \in 1 .. n, NEW j \in CallsOf(visits[k].f), j <= visits'[k].at
        PROVE  \/ InCycle(visits[k].f, j)
               \/ \E l \in 1 .. Len(order) : order[l] = Called(visits[k].f, j)
               \/ j = visits'[k].at /\ visits'[k + 1].f = Called(visits[k].f, j)
    <3>1. k = n => j <= i
      BY <1>7, <2>1
    <3>2. k # n => visits'[k].at = visits[k].at
      BY <1>7
    <3>3. \/ InCycle(visits[k].f, j)
          \/ \E l \in 1 .. Len(order) : order[l] = Called(visits[k].f, j)
          \/ j = visits[k].at /\ k < n /\ visits[k + 1].f = Called(visits[k].f, j)
          \/ k = n /\ j = i
      BY <2>1, <3>1, <3>2, Looked DEF n
    <3>4. CASE k = n /\ j = i
      BY <1>2, <1>6, <1>7, <3>4 DEF g
    <3>5. k < n => k # n /\ k + 1 \in 1 .. n
      BY <1>2
    <3> QED BY <1>7, <3>2, <3>3, <3>4, <3>5
  <2>2. ASSUME NEW k \in 1 .. Len(visits'), NEW j \in CallsOf(visits[k].f)', (j <= visits[k].at)'
        PROVE  (\/ InCycle(visits[k].f, j)
                \/ \E l \in 1 .. Len(order) : order[l] = Called(visits[k].f, j)
                \/ j = visits[k].at /\ k < Len(visits) /\ visits[k + 1].f = Called(visits[k].f, j))'
    <3>1. k \in 1 .. n
      <4>1. j \in Int /\ j >= 1
        BY <2>2 DEF CallsOf
      <4>2. k # n + 1
        BY <1>6, <2>2, <4>1
      <4> QED BY <1>2, <1>5, <4>2
    <3> DEFINE f == visits[k].f
    <3>2. j \in CallsOf(f) /\ j <= visits'[k].at /\ f' = f
      BY <1>7, <1>8, <2>2, <3>1 DEF CallsOf, Size
    <3>3. Called(f, j)' = Called(f, j) /\ (InCycle(f, j)' <=> InCycle(f, j))
      BY <1>8, <3>2 DEF Called, InCycle
    <3>4. \/ InCycle(f, j)
          \/ \E l \in 1 .. Len(order) : order[l] = Called(f, j)
          \/ j = visits'[k].at /\ visits'[k + 1].f = Called(f, j)
      BY <2>1, <3>1, <3>2
    <3>5. k < Len(visits')
      BY <1>2, <1>5, <3>1
    <3> QED BY <3>3, <3>4, <3>5
  <2> QED BY <2>2 DEF OpenBehind
<1>14. order' \in Seq(Functions) /\ recursive' \subseteq Functions
  BY DEF IInv, Types
<1> QED BY <1>5, <1>10, <1>11, <1>12, <1>13, <1>14, SearchStep

\* A call that is followed, or passed by, in each of the three colors of what it calls.
LEMMA FollowKeeps == IInv /\ FollowCall => IInv'
<1> SUFFICES ASSUME IInv, FollowCall PROVE IInv'
  OBVIOUS
<1> USE DEF FollowCall
<1>1. phase = "order" /\ visits # <<>> /\ mod = Module0
  BY TopFacts
<1>2. PICK i \in 1 .. Len(mod[Top.f].code) :
        /\ IsNextCall(i)
        /\ visits' = (IF Called(Top.f, i) \in Open \union Closed THEN MovedTo(i)
                      ELSE Append(MovedTo(i), [f |-> Called(Top.f, i), at |-> 0]))
        /\ recursive' = (IF Called(Top.f, i) \in Open THEN recursive \union {Called(Top.f, i), Top.f} ELSE recursive)
  BY <1>1 DEF MovedTo, Called
<1>3. CASE Called(Top.f, i) \in Open \union Closed
  BY <1>1, <1>2, <1>3, PassesBy DEF MovedTo
<1>4. CASE Called(Top.f, i) \notin Open \union Closed
  BY <1>1, <1>2, <1>4, GoesDown
<1> QED BY <1>3, <1>4

\* A function without another call is closed.
LEMMA LeaveKeeps == IInv /\ LeaveFunction => IInv'
<1> SUFFICES ASSUME IInv, LeaveFunction PROVE IInv'
  OBVIOUS
<1> USE DEF LeaveFunction
<1> DEFINE n == Len(visits)
           m == Len(order)
           f == Top.f
<1>1. /\ phase = "order" /\ visits # <<>> /\ mod = Module0 /\ n \in Nat /\ n \in 1 .. n
      /\ f \in Functions /\ visits[n].f = f /\ Top.at \in Nat /\ visits[n].at = Top.at
      /\ Size(f) \in Nat
  BY TopFacts DEF Top
<1>2. /\ visits' \in Seq(OneVisit) /\ Len(visits') = n - 1
      /\ \A k \in 1 .. n - 1 : visits'[k] = visits[k]
  BY Over DEF IInv, Types
<1>3. /\ order' \in Seq(Functions) /\ Len(order') = m + 1 /\ m \in Nat
      /\ order'[m + 1] = f /\ \A k \in 1 .. m : order'[k] = order[k]
  BY <1>1, Later DEF IInv, Types
<1>4. Module0' = Module0 /\ Functions' = Functions
  BY DEF Module0, Functions
<1>5. /\ \A k, l \in 1 .. n : visits[k].f = visits[l].f => k = l
      /\ \A k \in 1 .. n : \A l \in 1 .. m : visits[k].f # order[l]
      /\ \A k, l \in 1 .. m : order[k] = order[l] => k = l
  BY DEF IInv, NoneTwice
<1>6. /\ \A k \in 1 .. m + 1 : k \in 1 .. m \/ k = m + 1
      /\ \A k \in 1 .. n - 1 : k \in 1 .. n /\ k # n
  BY <1>1, <1>3
<1>7. \A i \in CallsOf(f) : i <= visits[n].at
  <2>1. ASSUME NEW i \in CallsOf(f), ~(i <= Top.at)
        PROVE  FALSE
    <3>1. i \in Nat /\ i >= 1 /\ i <= Size(f)
      BY <1>1, CalledFacts
    <3>2. i \in Top.at + 1 .. Len(mod[f].code)
      BY <1>1, <2>1, <3>1 DEF Size
    <3>3. IsCall(mod, f, i)
      BY <1>1 DEF CallsOf
    <3> QED BY <3>2, <3>3
  <2> QED BY <1>1, <2>1
<1>8. \A i \in CallsOf(f) : InCycle(f, i) \/ \E l \in 1 .. m : order[l] = Called(f, i)
  <2>1. ASSUME NEW i \in CallsOf(f)
        PROVE  InCycle(f, i) \/ \E l \in 1 .. m : order[l] = Called(f, i)
    <3>1. i \in CallsOf(visits[n].f) /\ i <= visits[n].at
      BY <1>1, <1>7
    <3>2. ~(n < n)
      BY <1>1
    <3> QED BY <1>1, <3>1, <3>2 DEF IInv, OpenBehind
  <2> QED BY <2>1
<1> HIDE DEF n, m, f
<1>9. NoneTwice'
  <2>1. ASSUME NEW k \in 1 .. m + 1, NEW l \in 1 .. m + 1, order'[k] = order'[l]
        PROVE  k = l
    <3>1. \A j \in 1 .. m : order'[j] # f
      BY <1>1, <1>3, <1>5
    <3> QED BY <1>3, <1>5, <1>6, <2>1, <3>1
  <2>2. ASSUME NEW k \in 1 .. n - 1, NEW l \in 1 .. m + 1
        PROVE  visits'[k].f # order'[l]
    <3>1. visits'[k].f = visits[k].f /\ k \in 1 .. n /\ k # n
      BY <1>2, <1>6
    <3>2. visits[k].f # f
      BY <1>1, <1>5, <3>1
    <3>3. CASE l = m + 1
      BY <1>3, <3>1, <3>2, <3>3
    <3>4. CASE l \in 1 .. m
      BY <1>3, <1>5, <3>1, <3>4
    <3> QED BY <1>6, <3>3, <3>4
  <2>3. ASSUME NEW k \in 1 .. n - 1, NEW l \in 1 .. n - 1, visits'[k].f = visits'[l].f
        PROVE  k = l
    BY <1>2, <1>5, <1>6, <2>3
  <2>4. \A k, l \in 1 .. Len(order') : order'[k] = order'[l] => k = l
    BY <1>3, <2>1
  <2>5. \A k, l \in 1 .. Len(visits') : visits'[k].f = visits'[l].f => k = l
    BY <1>2, <2>3
  <2>6. \A k \in 1 .. Len(visits') : \A l \in 1 .. Len(order') : visits'[k].f # order'[l]
    BY <1>2, <1>3, <2>2
  <2> QED BY <2>4, <2>5, <2>6 DEF NoneTwice
<1>10. Within'
  <2>1. ASSUME NEW k \in 1 .. Len(visits') PROVE (visits[k].at <= Size(visits[k].f))'
    <3>1. visits'[k] = visits[k] /\ k \in 1 .. Len(visits)
      BY <1>2, <1>6 DEF n
    <3> QED BY <1>4, <3>1 DEF IInv, Within, Size
  <2> QED BY <2>1 DEF Within
<1>11. ASSUME "inline" \notin passOff,
              NEW k \in 1 .. m + 1, NEW i \in CallsOf(order'[k])
       PROVE  InCycle(order'[k], i) \/ \E l \in 1 .. k - 1 : order'[l] = Called(order'[k], i)
  <2>1. CASE k = m + 1
    <3>1. order'[k] = f /\ k - 1 = m
      BY <1>3, <2>1
    <3> QED BY <1>3, <1>8, <1>11, <3>1
  <2>2. CASE k \in 1 .. m
    <3>1. order'[k] = order[k] /\ \A l \in 1 .. k - 1 : order'[l] = order[l]
      BY <1>3, <2>2
    <3> QED BY <1>11, <2>2, <3>1 DEF IInv, ClosedBehind, m
  <2> QED BY <1>6, <2>1, <2>2
<1>12. ClosedBehind'
  <2>1. ASSUME ("inline" \notin passOff)', NEW k \in 1 .. Len(order'), NEW i \in CallsOf(order[k])'
        PROVE  (InCycle(order[k], i) \/ \E l \in 1 .. k - 1 : order[l] = Called(order[k], i))'
    <3> DEFINE h == order'[k]
    <3>1. k \in 1 .. m + 1 /\ i \in CallsOf(h)
      BY <1>3, <1>4, <2>1 DEF CallsOf, Size
    <3>2. InCycle(h, i) \/ \E l \in 1 .. k - 1 : order'[l] = Called(h, i)
      BY <1>11, <2>1, <3>1
    <3> QED BY <1>4, <3>2 DEF InCycle, Called
  <2> QED BY <2>1 DEF ClosedBehind
<1>13. ASSUME NEW k \in 1 .. n - 1, NEW j \in CallsOf(visits[k].f), j <= visits[k].at
       PROVE  \/ InCycle(visits[k].f, j)
              \/ \E l \in 1 .. m + 1 : order'[l] = Called(visits[k].f, j)
              \/ j = visits[k].at /\ k < n - 1 /\ visits[k + 1].f = Called(visits[k].f, j)
  <2>1. k \in 1 .. n /\ k + 1 \in 1 .. n /\ (k + 1 = n \/ k < n - 1)
    BY <1>1, <1>6
  <2>2. \/ InCycle(visits[k].f, j)
        \/ \E l \in 1 .. m : order[l] = Called(visits[k].f, j)
        \/ j = visits[k].at /\ visits[k + 1].f = Called(visits[k].f, j)
    BY <1>13, <2>1 DEF IInv, OpenBehind, n, m
  <2>3. ASSUME NEW l \in 1 .. m PROVE l \in 1 .. m + 1 /\ order'[l] = order[l]
    BY <1>3
  <2>4. m + 1 \in 1 .. m + 1
    BY <1>3
  <2>5. CASE k + 1 = n /\ j = visits[k].at /\ visits[k + 1].f = Called(visits[k].f, j)
    BY <1>1, <1>3, <2>4, <2>5
  <2> QED BY <2>1, <2>2, <2>3, <2>5
<1>14. OpenBehind'
  <2>1. ASSUME NEW k \in 1 .. Len(visits'), NEW j \in CallsOf(visits[k].f)', (j <= visits[k].at)'
        PROVE  (\/ InCycle(visits[k].f, j)
                \/ \E l \in 1 .. Len(order) : order[l] = Called(visits[k].f, j)
                \/ j = visits[k].at /\ k < Len(visits) /\ visits[k + 1].f = Called(visits[k].f, j))'
    <3> DEFINE h == visits[k].f
    <3>1. k \in 1 .. n - 1 /\ visits'[k] = visits[k]
      BY <1>2
    <3>2. j \in CallsOf(h) /\ j <= visits[k].at /\ h' = h
      BY <1>4, <2>1, <3>1 DEF CallsOf, Size
    <3>3. Called(h, j)' = Called(h, j) /\ (InCycle(h, j)' <=> InCycle(h, j))
      BY <1>4, <3>2 DEF Called, InCycle
    <3>4. \/ InCycle(h, j)
          \/ \E l \in 1 .. m + 1 : order'[l] = Called(h, j)
          \/ j = visits[k].at /\ k < n - 1 /\ visits[k + 1].f = Called(h, j)
      BY <1>13, <3>1, <3>2
    <3>5. k < n - 1 => visits'[k + 1] = visits[k + 1]
      BY <1>1, <1>2, <3>1
    <3> QED BY <1>2, <1>3, <3>1, <3>3, <3>4, <3>5
  <2> QED BY <2>1 DEF OpenBehind
<1>15. recursive' \subseteq Functions
  BY DEF IInv, Types
<1> QED BY <1>1, <1>2, <1>3, <1>9, <1>10, <1>12, <1>14, <1>15, SearchStep

\* The search is over.
LEMMA DoneKeeps == IInv /\ SearchDone => IInv'
<1> SUFFICES ASSUME IInv, SearchDone PROVE IInv'
  OBVIOUS
<1> USE DEF SearchDone, searchVars, passVars
<1>1. program \in Programs /\ Types /\ phase = "order" /\ mod = Module0
  BY DEF IInv, Types
<1>2. Module0' = Module0 /\ Functions' = Functions /\ Seq(OneVisit)' = Seq(OneVisit)
  BY DEF Module0, Functions, OneVisit
<1>3. DOMAIN mod' = Functions'
  BY <1>1, <1>2 DEF Functions
<1>4. Types' /\ Apart'
  BY <1>1, <1>2, <1>3 DEF IInv, Types, Apart
<1>5. NoneTwice'
  BY DEF IInv, NoneTwice
<1>6. NoneMissing'
  <2>1. ASSUME NEW f \in Functions PROVE \E k \in 1 .. Len(order) : order[k] = f
    <3>1. PICK i \in 1 .. Len(program.names) : program.names[i] = f
      BY <1>1, ProgramFacts
    <3>2. i \in DOMAIN program.names
      BY <1>1, ProgramFacts
    <3>3. f \in Closed
      BY <3>1, <3>2
    <3> QED BY <1>1, <3>3, Colours
  <2> QED BY <1>2, <2>1 DEF NoneMissing
<1>7. Within' /\ ClosedBehind' /\ OpenBehind'
  BY <1>2 DEF IInv, Within, ClosedBehind, OpenBehind, InCycle, CallsOf, Called, Size
<1>8. Known'
  <2>1. (done = 0 /\ info = <<>> => Known)'
    BY NothingKnown, PTL
  <2> QED BY <2>1, <1>1 DEF IInv, Apart
<1> QED BY <1>4, <1>5, <1>6, <1>7, <1>8 DEF IInv

-----------------------------------------------------------------------------
(* The passes.                                                             *)

\* What the steps over the functions have in common.
LEMMA PassStep ==
    ASSUME IInv, phase = "optimize", DOMAIN mod' = DOMAIN mod, Known', done' \in 0 .. Len(order),
           stage' \in 0 .. Len(Once) + 1, round' \in 0 .. 2, scalar' \in 0 .. Len(Repeated), iter' \in 0 .. 8,
           UNCHANGED <<program, passOff, phase, searchVars, order>>
    PROVE  IInv'
<1> USE DEF searchVars
<1>1. Module0' = Module0 /\ Functions' = Functions /\ Seq(OneVisit)' = Seq(OneVisit)
  BY DEF Module0, Functions, OneVisit
<1>2. Types' /\ Apart'
  BY <1>1 DEF IInv, Types, Apart
<1>3. NoneTwice' /\ NoneMissing'
  BY <1>1 DEF IInv, NoneTwice, NoneMissing
<1>4. Within' /\ ClosedBehind' /\ OpenBehind'
  BY <1>1 DEF IInv, Within, ClosedBehind, OpenBehind, InCycle, CallsOf, Called, Size
<1> QED BY <1>2, <1>3, <1>4 DEF IInv

\* The function worked on is not among the finished ones.
LEMMA WorkingFacts ==
    ASSUME IInv, Working
    PROVE  /\ phase = "optimize" /\ done \in Nat /\ Len(order) \in Nat /\ done + 1 \in 1 .. Len(order)
           /\ F \in Functions /\ DOMAIN mod = Functions
           /\ \A k \in 1 .. done : k \in 1 .. Len(order) /\ order[k] # F /\ order[k] \in Functions
<1>1. /\ phase = "optimize" /\ Len(order) \in Nat /\ done \in 0 .. Len(order) /\ done < Len(order)
      /\ \A k \in 1 .. Len(order) : order[k] \in Functions
      /\ \A k, l \in 1 .. Len(order) : order[k] = order[l] => k = l
      /\ DOMAIN mod = Functions
  BY Colours DEF IInv, Types, NoneTwice, Working
<1>2. done \in Nat /\ done + 1 \in 1 .. Len(order) /\ \A k \in 1 .. done : k \in 1 .. Len(order) /\ k # done + 1
  BY <1>1
<1> QED BY <1>1, <1>2 DEF F

\* The code of the current function is replaced.
ChangesOnly(g, code) == mod' = [mod EXCEPT ![g].code = code]

\* The finished functions are others than the current one.
LEMMA OthersStay ==
    ASSUME IInv, Working, NEW code, ChangesOnly(F, code)
    PROVE  DOMAIN mod' = DOMAIN mod /\ \A k \in 1 .. done : mod'[order[k]] = mod[order[k]]
<1> DEFINE fn == [mod[F] EXCEPT !.code = code]
<1>1. mod' = [mod EXCEPT ![F] = fn]
  BY DEF ChangesOnly
<1> HIDE DEF fn
<1>2. DOMAIN mod' = DOMAIN mod /\ \A g \in DOMAIN mod : g # F => mod'[g] = mod[g]
  BY <1>1
<1> QED BY <1>2, WorkingFacts

\* A pass does not disturb what is known of the finished functions.
LEMMA PassKnown ==
    ASSUME IInv, Working, NEW code, ChangesOnly(F, code),
           UNCHANGED <<phase, passOff, order, done, info, recursive>>
    PROVE  Known'
<1>1. \A k \in 1 .. done : mod'[order[k]] = mod[order[k]]
  BY OthersStay
<1>2. InfoIsCurrent'
  BY <1>1 DEF IInv, Known, InfoIsCurrent
<1>3. (\A g \in DOMAIN info : (\E k \in 1 .. done : order[k] = g) \/ (Working /\ g = F /\ g \in recursive))'
  BY DEF IInv, Known, Working, F
<1> QED BY <1>2, <1>3 DEF Known

\* The calls are expanded.
LEMMA InlineKeeps == IInv /\ InlineCalls => IInv'
<1> SUFFICES ASSUME IInv, InlineCalls PROVE IInv'
  OBVIOUS
<1> USE DEF InlineCalls, searchVars
<1> DEFINE code == IF "inline" \in passOff THEN mod[F].code ELSE Inlined(mod, F, Expandable)
<1>1. ChangesOnly(F, code)
  BY DEF ChangesOnly
<1> HIDE DEF code
<1>2. Working /\ phase = "optimize" /\ DOMAIN mod' = DOMAIN mod /\ Known'
  BY <1>1, OthersStay, PassKnown DEF Working
<1>3. Types
  BY DEF IInv
<1>4. stage' \in 0 .. Len(Once) + 1
  BY DEF Once
<1> QED BY <1>2, <1>3, <1>4, PassStep DEF Types

\* A pass that is made once.
LEMMA OnceKeeps == IInv /\ OncePass => IInv'
<1> SUFFICES ASSUME IInv, OncePass PROVE IInv'
  OBVIOUS
<1> USE DEF OncePass, searchVars
<1> DEFINE code == Pass(Once[stage], mod[F], passOff)
<1>1. ChangesOnly(F, code)
  BY DEF ChangesOnly
<1> HIDE DEF code
<1>2. Working /\ phase = "optimize" /\ DOMAIN mod' = DOMAIN mod /\ Known'
  BY <1>1, OthersStay, PassKnown DEF Working
<1>3. Types
  BY DEF IInv
<1>4. stage' \in 0 .. Len(Once) + 1 /\ scalar' \in 0 .. Len(Repeated) /\ iter' \in 0 .. 8
  BY DEF Once, Repeated
<1> QED BY <1>2, <1>3, <1>4, PassStep DEF Types

\* A pass of scalar_fixpoint.
LEMMA ScalarKeeps == IInv /\ ScalarPass => IInv'
<1> SUFFICES ASSUME IInv, ScalarPass PROVE IInv'
  OBVIOUS
<1> USE DEF ScalarPass, searchVars
<1> DEFINE code == Pass(Repeated[scalar], mod[F], passOff)
<1>1. ChangesOnly(F, code)
  BY DEF ChangesOnly
<1> HIDE DEF code
<1>2. Working /\ phase = "optimize" /\ DOMAIN mod' = DOMAIN mod /\ Known'
  BY <1>1, OthersStay, PassKnown DEF Working
<1>3. Types
  BY DEF IInv
<1>4. Len(Repeated) = 8 /\ scalar \in 0 .. 8 /\ iter \in 0 .. 8
  BY <1>3 DEF Types, Repeated
<1>5. scalar' \in 0 .. Len(Repeated) /\ iter' \in 0 .. 8
  BY <1>4
<1> QED BY <1>2, <1>3, <1>5, PassStep DEF Types

\* The function is expanded into itself.
LEMMA SelfKeeps == IInv /\ SelfInline => IInv'
<1> SUFFICES ASSUME IInv, SelfInline PROVE IInv'
  OBVIOUS
<1> USE DEF SelfInline, searchVars
<1> DEFINE code == Inlined(mod, F, Expandable \union {g \in {F} : Info(mod[F]).canInline})
<1>1. ChangesOnly(F, code)
  BY DEF ChangesOnly
<1> HIDE DEF code
<1>2. Working /\ phase = "optimize" /\ F \in recursive /\ round < 2
  BY DEF Working, Optimized, SelfInlines
<1>3. DOMAIN mod' = DOMAIN mod /\ \A k \in 1 .. done : mod'[order[k]] = mod[order[k]]
  BY <1>1, <1>2, OthersStay
<1>4. \A k \in 1 .. done : order[k] # F
  BY <1>2, WorkingFacts
<1>5. DOMAIN info' = DOMAIN info \union {F} /\ \A g \in DOMAIN info : g # F => info'[g] = info[g]
  BY DEF Recorded
<1>6. InfoIsCurrent'
  BY <1>3, <1>4, <1>5 DEF IInv, Known, InfoIsCurrent
<1>7. F' = F /\ Working'
  BY <1>2 DEF F, Working
<1>8. (\A g \in DOMAIN info : (\E k \in 1 .. done : order[k] = g) \/ (Working /\ g = F /\ g \in recursive))'
  BY <1>2, <1>5, <1>7 DEF IInv, Known
<1>9. Known'
  BY <1>6, <1>8 DEF Known
<1>10. Types
  BY DEF IInv
<1>11. stage' \in 0 .. Len(Once) + 1 /\ round' \in 0 .. 2
  <2>1. stage \in 0 .. Len(Once) + 1 /\ Len(Once) = 9 /\ round \in 0 .. 2
    BY <1>10 DEF Types, Once
  <2> QED BY <1>2, <2>1
<1> QED BY <1>2, <1>3, <1>9, <1>10, <1>11, PassStep DEF Types

\* The function is finished.
LEMMA NextKeeps == IInv /\ NextFunction => IInv'
<1> SUFFICES ASSUME IInv, NextFunction PROVE IInv'
  OBVIOUS
<1> USE DEF NextFunction, searchVars
<1>1. /\ Working /\ phase = "optimize" /\ done \in Nat /\ Len(order) \in Nat /\ done + 1 \in 1 .. Len(order)
      /\ \A k \in 1 .. done : order[k] # F
  BY WorkingFacts DEF Optimized
<1>2. done' \in 0 .. Len(order) /\ order'[done'] = F /\ \A k \in 1 .. done' : k \in 1 .. done \/ k = done'
  BY <1>1 DEF F
<1>3. "inline" \notin passOff =>
        /\ DOMAIN info' = DOMAIN info \union {F} /\ info'[F] = Info(mod[F])
        /\ \A g \in DOMAIN info : g # F => info'[g] = info[g]
  BY DEF Recorded
<1>4. InfoIsCurrent'
  <2>1. ASSUME "inline" \notin passOff, NEW k \in 1 .. done'
        PROVE  order[k] \in DOMAIN info' /\ info'[order[k]] = Info(mod[order[k]])
    <3>1. CASE k = done'
      BY <1>2, <1>3, <2>1, <3>1
    <3>2. CASE k \in 1 .. done
      BY <1>1, <1>3, <2>1, <3>2 DEF IInv, Known, InfoIsCurrent
    <3> QED BY <1>2, <3>1, <3>2
  <2> QED BY <2>1 DEF InfoIsCurrent
<1>5. \A g \in DOMAIN info' : \E k \in 1 .. done' : order[k] = g
  <2>1. ASSUME NEW g \in DOMAIN info' PROVE \E k \in 1 .. done' : order[k] = g
    <3>1. g \in DOMAIN info \/ g = F
      BY <1>3, <2>1
    <3>2. done' \in 1 .. done' /\ order[done'] = F /\ \A k \in 1 .. done : k \in 1 .. done'
      BY <1>1, <1>2
    <3>3. CASE g = F
      BY <3>2, <3>3
    <3>4. CASE g \in DOMAIN info /\ g # F
      BY <3>2, <3>4 DEF IInv, Known
    <3> QED BY <3>1, <3>3, <3>4
  <2> QED BY <2>1
<1>6. Known'
  BY <1>4, <1>5 DEF Known
<1>7. Types
  BY DEF IInv
<1>8. stage' \in 0 .. Len(Once) + 1
  BY DEF Once
<1> QED BY <1>1, <1>2, <1>6, <1>7, <1>8, PassStep DEF Types

\* Every step keeps the invariant.
LEMMA StepKeeps == IInv /\ [Next]_vars => IInv'
  BY LowerKeeps, RootKeeps, FollowKeeps, LeaveKeeps, DoneKeeps, InlineKeeps, OnceKeeps, ScalarKeeps, SelfKeeps,
     NextKeeps, NothingKeeps DEF Next

-----------------------------------------------------------------------------
(* What follows from the invariant.                                        *)

\* A call that does not go to an earlier function closes a cycle.
LEMMA CalleesAreFirst == IInv => CalleesFirst
<1> SUFFICES ASSUME IInv, "inline" \notin passOff,
                    NEW k \in DOMAIN order, NEW l \in DOMAIN order, k <= l,
                    NEW i \in 1 .. Size(order[k]), IsCall(Module0, order[k], i), Called(order[k], i) = order[l]
             PROVE  {order[k], order[l]} \subseteq recursive
  BY DEF CalleesFirst, Size, Called, Module0
<1>1. /\ Len(order) \in Nat /\ k \in 1 .. Len(order) /\ l \in 1 .. Len(order)
      /\ \A m, n \in 1 .. Len(order) : order[m] = order[n] => m = n
  BY Colours DEF IInv, NoneTwice
<1>2. i \in CallsOf(order[k])
  BY DEF CallsOf
<1>3. InCycle(order[k], i) \/ \E m \in 1 .. k - 1 : order[m] = Called(order[k], i)
  BY <1>1, <1>2 DEF IInv, ClosedBehind
<1>4. ASSUME NEW m \in 1 .. k - 1, order[m] = Called(order[k], i)
      PROVE  FALSE
  <2>1. m \in 1 .. Len(order) /\ m # l
    BY <1>1
  <2> QED BY <1>1, <1>4, <2>1
<1> QED BY <1>3, <1>4 DEF InCycle

\* Every function has its place.
LEMMA EveryPlace == IInv => EachOnce
<1> SUFFICES ASSUME IInv, phase = "optimize", NEW f \in Functions
             PROVE  \E k \in 1 .. Len(order) : \A l \in 1 .. Len(order) : order[l] = f <=> l = k
  BY DEF EachOnce
<1>1. PICK k \in 1 .. Len(order) : order[k] = f
  BY DEF IInv, NoneMissing
<1> QED BY <1>1 DEF IInv, NoneTwice

\* What is expanded is known, and what is known is finished, or recursive.
LEMMA ExpandableFinished == IInv => ExpandsFinished
  BY DEF IInv, Known, ExpandsFinished, Expandable

\* No step touches a finished function.
LEMMA StaysFinished == IInv /\ [Next]_vars => FinishedStays \/ UNCHANGED vars
<1> SUFFICES ASSUME IInv, Next PROVE FinishedStays
  OBVIOUS
<1>1. ASSUME Working, NEW code, ChangesOnly(F, code) PROVE FinishedStays
  BY <1>1, OthersStay DEF FinishedStays
<1>2. CASE InlineCalls
  <2> DEFINE code == IF "inline" \in passOff THEN mod[F].code ELSE Inlined(mod, F, Expandable)
  <2>1. Working /\ ChangesOnly(F, code)
    BY <1>2 DEF InlineCalls, ChangesOnly
  <2> HIDE DEF code
  <2> QED BY <1>1, <2>1
<1>3. CASE OncePass
  <2> DEFINE code == Pass(Once[stage], mod[F], passOff)
  <2>1. Working /\ ChangesOnly(F, code)
    BY <1>3 DEF OncePass, ChangesOnly
  <2> HIDE DEF code
  <2> QED BY <1>1, <2>1
<1>4. CASE ScalarPass
  <2> DEFINE code == Pass(Repeated[scalar], mod[F], passOff)
  <2>1. Working /\ ChangesOnly(F, code)
    BY <1>4 DEF ScalarPass, ChangesOnly
  <2> HIDE DEF code
  <2> QED BY <1>1, <2>1
<1>5. CASE SelfInline
  <2> DEFINE code == Inlined(mod, F, Expandable \union {g \in {F} : Info(mod[F]).canInline})
  <2>1. Working /\ ChangesOnly(F, code)
    BY <1>5 DEF SelfInline, Optimized, ChangesOnly
  <2> HIDE DEF code
  <2> QED BY <1>1, <2>1
<1>6. CASE LowerProgram
  <2>1. 1 .. done = {}
    BY <1>6 DEF LowerProgram, IInv, Apart
  <2> QED BY <2>1 DEF FinishedStays
<1>7. CASE VisitRoot \/ FollowCall \/ LeaveFunction \/ SearchDone \/ NextFunction
  BY <1>7 DEF VisitRoot, FollowCall, LeaveFunction, SearchDone, NextFunction, FinishedStays
<1> QED BY <1>2, <1>3, <1>4, <1>5, <1>6, <1>7 DEF Next

-----------------------------------------------------------------------------
(* The end.                                                                *)

\* The functions not seen are counted.
LEMMA UnseenFinite == IInv => IsFiniteSet(Unseen) /\ Cardinality(Unseen) \in Nat
<1> SUFFICES ASSUME IInv PROVE IsFiniteSet(Unseen) /\ Cardinality(Unseen) \in Nat
  OBVIOUS
<1>1. IsFiniteSet(Functions)
  BY FinitelyMany DEF IInv, Types
<1>2. Unseen \in SUBSET Functions
  BY DEF Unseen
<1>3. IsFiniteSet(Unseen)
  BY <1>1, <1>2, FS_Subset
<1> QED BY <1>3, FS_CardinalityType

\* One that is seen is not counted any more.
LEMMA FewerUnseen ==
    ASSUME IInv, NEW g \in Unseen, Unseen' \subseteq Unseen \ {g}
    PROVE  Cardinality(Unseen') \in Nat /\ Cardinality(Unseen') < Cardinality(Unseen)
<1> DEFINE T == Unseen'
           S == Unseen
<1>1. IsFiniteSet(S) /\ Cardinality(S) \in Nat
  BY UnseenFinite
<1>2. T \in SUBSET S /\ g \in S /\ g \notin T
  OBVIOUS
<1> HIDE DEF S, T
<1>3. IsFiniteSet(T) /\ Cardinality(T) <= Cardinality(S) /\ (Cardinality(S) = Cardinality(T) => S = T)
  BY <1>1, <1>2, FS_Subset
<1>4. Cardinality(T) \in Nat /\ Cardinality(S) # Cardinality(T)
  BY <1>2, <1>3, FS_CardinalityType
<1> QED BY <1>1, <1>3, <1>4 DEF S, T

\* What is left of the search is counted in natural numbers.
LEMMA SearchMeasure ==
    ASSUME IInv, phase = "order"
    PROVE  /\ Left = InSearch /\ Cardinality(Unseen) \in Nat /\ Len(visits) \in Nat
           /\ (IF visits = <<>> THEN 0 ELSE Size(Top.f) - Top.at) \in Nat
           /\ visits # <<>> => Size(Top.f) \in Nat /\ Top.at \in Nat
<1>1. Left = InSearch
  BY DEF Left
<1>2. Cardinality(Unseen) \in Nat /\ Len(visits) \in Nat
  BY UnseenFinite, Colours DEF IInv
<1>3. CASE visits = <<>>
  BY <1>1, <1>2, <1>3
<1>4. CASE visits # <<>>
  <2>1. Size(Top.f) \in Nat /\ Top.at \in Nat /\ Top.at <= Size(Top.f)
    BY <1>4, TopFacts
  <2>2. Size(Top.f) - Top.at \in Nat
    BY <2>1
  <2> QED BY <1>1, <1>2, <1>4, <2>1, <2>2
<1> QED BY <1>3, <1>4

PassesLeft == 3 * (Len(order) - done) + (2 - round)
StagesLeft == Len(Once) + 1 - stage
ScalarLeft == IF scalar = 0 THEN 0 ELSE 8 * (8 - iter) + (9 - scalar)

\* What is left of the passes, too.
LEMMA PassMeasure ==
    ASSUME IInv, phase = "optimize"
    PROVE  /\ Left = <<0, PassesLeft, StagesLeft, ScalarLeft>>
           /\ PassesLeft \in Nat /\ StagesLeft \in Nat /\ ScalarLeft \in Nat
<1>1. /\ Len(order) \in Nat /\ done \in 0 .. Len(order) /\ stage \in 0 .. 10 /\ round \in 0 .. 2
      /\ scalar \in 0 .. 8 /\ iter \in 0 .. 8
  BY Colours DEF IInv, Types, Once, Repeated
<1>2. Len(Once) = 9
  BY DEF Once
<1>3. Len(order) - done \in Nat
  BY <1>1
<1>4. PassesLeft \in Nat
  <2>1. \A n \in Nat : \A r \in 0 .. 2 : 3 * n + (2 - r) \in Nat
    OBVIOUS
  <2> QED BY <1>1, <1>3, <2>1 DEF PassesLeft
<1>5. StagesLeft \in Nat /\ ScalarLeft \in Nat
  BY <1>1, <1>2 DEF StagesLeft, ScalarLeft
<1>6. Left = <<0, PassesLeft, StagesLeft, ScalarLeft>>
  BY DEF Left, InPasses, PassesLeft, StagesLeft, ScalarLeft
<1> QED BY <1>4, <1>5, <1>6

\* What is left of the work is a quadruple of natural numbers.
LEMMA LeftIsMeasure == IInv => Left \in Measure
<1> SUFFICES ASSUME IInv PROVE Left \in Measure
  OBVIOUS
<1>1. CASE phase = "lower"
  BY <1>1 DEF Left, Measure
<1>2. CASE phase = "order"
  BY <1>2, SearchMeasure DEF InSearch, Measure
<1>3. CASE phase = "optimize"
  BY <1>3, PassMeasure DEF Measure
<1> QED BY <1>1, <1>2, <1>3 DEF IInv, Types

\* A step to a lower second number.
LEMMA RootEnds == IInv /\ IInv' /\ VisitRoot => Below(Left', Left)
<1> SUFFICES ASSUME IInv, IInv', VisitRoot PROVE Below(Left', Left)
  OBVIOUS
<1> USE DEF VisitRoot
<1>1. PICK k \in DOMAIN program.names : /\ program.names[k] \notin Closed
                                        /\ visits' = <<[f |-> program.names[k], at |-> 0]>>
  OBVIOUS
<1> DEFINE g == program.names[k]
           nm == program.names
<1>2. g \in Functions
  <2>1. nm \in Seq(Functions) /\ k \in DOMAIN nm
    BY <1>1, ProgramFacts DEF IInv, Types
  <2> HIDE DEF nm
  <2> QED BY <2>1 DEF nm
<1>3. Open = {} /\ Open' = {g} /\ Closed' = Closed /\ Functions' = Functions
  <2>1. DOMAIN visits' = {1} /\ visits'[1].f = g /\ DOMAIN visits = {}
    BY <1>1
  <2> QED BY <2>1 DEF Open, Closed, Functions, Module0
<1>4. g \in Unseen /\ Unseen' \subseteq Unseen \ {g}
  BY <1>1, <1>2, <1>3 DEF Unseen
<1>5. Cardinality(Unseen') < Cardinality(Unseen)
  BY <1>4, FewerUnseen
<1>6. Left = InSearch /\ (Left = InSearch)'
  BY DEF Left
<1> QED BY <1>5, <1>6 DEF InSearch, Below

\* A function that is left is open no more, and was seen before.
LEMMA LeaveEnds == IInv /\ IInv' /\ LeaveFunction => Below(Left', Left)
<1> SUFFICES ASSUME IInv, IInv', LeaveFunction PROVE Below(Left', Left)
  OBVIOUS
<1> USE DEF LeaveFunction
<1> DEFINE n == Len(visits)
           m == Len(order)
<1>1. /\ n \in Nat /\ n \in 1 .. n /\ Top = visits[n] /\ Top.f \in Functions
  BY TopFacts DEF Top
<1>2. /\ visits' \in Seq(OneVisit) /\ Len(visits') = n - 1
      /\ \A k \in 1 .. n - 1 : visits'[k] = visits[k]
  BY Over DEF IInv, Types
<1>3. /\ order' \in Seq(Functions) /\ Len(order') = m + 1 /\ m \in Nat
      /\ order'[m + 1] = Top.f /\ \A k \in 1 .. m : order'[k] = order[k]
  BY <1>1, Later DEF IInv, Types
<1>4. DOMAIN visits' = 1 .. n - 1 /\ DOMAIN order' = 1 .. m + 1 /\ DOMAIN visits = 1 .. n /\ DOMAIN order = 1 .. m
  BY <1>1, <1>2, <1>3, Colours DEF IInv
<1> HIDE DEF n, m
<1>5. Open' = {visits'[k].f : k \in 1 .. n - 1} /\ Closed' = {order'[k] : k \in 1 .. m + 1}
  BY <1>4 DEF Open, Closed
<1>6. Open = {visits[k].f : k \in 1 .. n} /\ Closed = {order[k] : k \in 1 .. m}
  BY <1>4 DEF Open, Closed
<1>7. \A k \in 1 .. n : k \in 1 .. n - 1 \/ k = n
  BY <1>1
<1>8. \A k \in 1 .. m + 1 : k \in 1 .. m \/ k = m + 1
  BY <1>3
<1>9. /\ \A k \in 1 .. n - 1 : k \in 1 .. n
      /\ \A k \in 1 .. m : k \in 1 .. m + 1
      /\ m + 1 \in 1 .. m + 1
  BY <1>1, <1>3
<1>10. ASSUME NEW f PROVE f \in Open \union Closed <=> f \in Open' \union Closed'
  <2>1. ASSUME f \in Open PROVE f \in Open' \union Closed'
    <3>1. PICK k \in 1 .. n : f = visits[k].f
      BY <1>6, <2>1
    <3>2. CASE k = n
      BY <1>1, <1>3, <1>5, <1>9, <3>1, <3>2
    <3>3. CASE k \in 1 .. n - 1
      BY <1>2, <1>5, <3>1, <3>3
    <3> QED BY <1>7, <3>2, <3>3
  <2>2. ASSUME f \in Closed PROVE f \in Closed'
    BY <1>3, <1>5, <1>6, <1>9, <2>2
  <2>3. ASSUME f \in Open' PROVE f \in Open
    BY <1>2, <1>5, <1>6, <1>9, <2>3
  <2>4. ASSUME f \in Closed' PROVE f \in Open \union Closed
    <3>1. PICK k \in 1 .. m + 1 : f = order'[k]
      BY <1>5, <2>4
    <3>2. CASE k = m + 1
      BY <1>1, <1>3, <1>6, <3>1, <3>2
    <3>3. CASE k \in 1 .. m
      BY <1>3, <1>6, <3>1, <3>3
    <3> QED BY <1>8, <3>2, <3>3
  <2> QED BY <2>1, <2>2, <2>3, <2>4
<1>11. Unseen' = Unseen
  <2>1. Functions' = Functions
    BY DEF Functions, Module0
  <2> QED BY <1>10, <2>1 DEF Unseen
<1>12. Left = InSearch /\ (Left = InSearch)'
  BY DEF Left
<1>13. Len(visits') < Len(visits)
  BY <1>1, <1>2 DEF n
<1> QED BY <1>11, <1>12, <1>13 DEF InSearch, Below

\* A call that is not followed: there are fewer instructions ahead.  One that
\* is: another function is seen.
LEMMA FollowEnds == IInv /\ IInv' /\ FollowCall => Below(Left', Left)
<1> SUFFICES ASSUME IInv, IInv', FollowCall PROVE Below(Left', Left)
  OBVIOUS
<1> USE DEF FollowCall
<1> DEFINE n == Len(visits)
<1>1. /\ phase = "order" /\ visits # <<>> /\ mod = Module0 /\ n \in Nat /\ n \in 1 .. n /\ n >= 1
      /\ Top = visits[n] /\ Top.f \in Functions /\ Top.at \in Nat /\ Size(Top.f) \in Nat
  BY TopFacts DEF Top
<1>2. PICK i \in 1 .. Len(mod[Top.f].code) :
        /\ IsNextCall(i)
        /\ visits' = (IF Called(Top.f, i) \in Open \union Closed THEN MovedTo(i)
                      ELSE Append(MovedTo(i), [f |-> Called(Top.f, i), at |-> 0]))
  BY <1>1 DEF MovedTo, Called
<1> DEFINE s == MovedTo(i)
           g == Called(Top.f, i)
<1>3. /\ s \in Seq(OneVisit) /\ Len(s) = n
      /\ \A k \in 1 .. n : s[k].f = visits[k].f
      /\ s[n].at = i /\ i \in CallsOf(Top.f) /\ i <= Size(Top.f) /\ i > Top.at
  <2> HIDE DEF n
  <2> QED BY <1>1, <1>2, Advancing DEF n
<1>4. DOMAIN s = 1 .. n /\ DOMAIN visits = 1 .. n /\ s # <<>>
  BY <1>1, <1>3, Colours DEF IInv
<1> HIDE DEF s, n
<1>5. Open = {s[k].f : k \in 1 .. n}
  BY <1>3, <1>4 DEF Open
<1>6. Functions' = Functions /\ Closed' = Closed /\ (\A f : Size(f)' = Size(f)) /\ phase' = "order"
  BY DEF Functions, Module0, Closed, Size
<1>7. Left = InSearch /\ (Left = InSearch)'
  BY DEF Left
<1>8. CASE g \in Open \union Closed
  <2>1. visits' = s
    BY <1>2, <1>8 DEF s
  <2>2. Open' = Open
    BY <1>4, <1>5, <2>1 DEF Open
  <2>3. Unseen' = Unseen
    BY <1>6, <2>2 DEF Unseen
  <2>4. Len(visits') = Len(visits) /\ visits' # <<>> /\ Top' = s[n]
    BY <1>3, <1>4, <2>1 DEF n, Top
  <2>5. Top'.f = Top.f /\ Top'.at = i
    BY <1>1, <1>3, <2>4
  <2>6. Size(Top.f)' = Size(Top.f)
    BY <1>6, <2>5 DEF Size, Module0
  <2>7. i \in Nat
    OBVIOUS
  <2>8. Size(Top.f) - i < Size(Top.f) - Top.at
    BY <1>1, <1>3, <2>7
  <2>9. InSearch[4] = Size(Top.f) - Top.at /\ InSearch'[4] = Size(Top.f) - i
    BY <1>1, <2>4, <2>5, <2>6 DEF InSearch
  <2>10. InSearch'[1] = InSearch[1] /\ InSearch'[2] = InSearch[2] /\ InSearch'[3] = InSearch[3]
    BY <2>3, <2>4 DEF InSearch
  <2> QED BY <1>7, <2>8, <2>9, <2>10 DEF Below
<1>9. CASE g \notin Open \union Closed
  <2> DEFINE v == [f |-> g, at |-> 0]
  <2>1. visits' = Append(s, v)
    BY <1>2, <1>9 DEF s
  <2>2. g \in Functions /\ v \in OneVisit
    BY <1>1, <1>3, CalledFacts DEF OneVisit
  <2> HIDE DEF v
  <2>3. /\ Append(s, v) \in Seq(OneVisit) /\ Len(Append(s, v)) = n + 1
        /\ Append(s, v)[n + 1] = v /\ \A k \in 1 .. n : Append(s, v)[k] = s[k]
    BY <1>3, <2>2, Begun
  <2>4. DOMAIN visits' = 1 .. n + 1 /\ visits'[n + 1].f = g /\ \A k \in 1 .. n : visits'[k] = s[k]
    <3> DEFINE w == Append(s, v)
    <3>1. w \in Seq(OneVisit) /\ Len(w) = n + 1 /\ w[n + 1] = v /\ \A k \in 1 .. n : w[k] = s[k]
      BY <2>3
    <3>2. visits' = w /\ v.f = g
      BY <2>1 DEF v
    <3> HIDE DEF w, g
    <3>3. DOMAIN w = 1 .. n + 1
      BY <3>1
    <3> QED BY <3>1, <3>2, <3>3
  <2>5. n + 1 \in 1 .. n + 1 /\ \A k \in 1 .. n : k \in 1 .. n + 1
    BY <1>1
  <2>6. Open \union {g} \subseteq Open'
    BY <1>5, <2>4, <2>5 DEF Open
  <2> HIDE DEF g
  <2>7. g \in Unseen /\ Unseen' \subseteq Unseen \ {g}
    BY <1>6, <1>9, <2>2, <2>6 DEF Unseen
  <2>8. Cardinality(Unseen') < Cardinality(Unseen)
    BY <2>7, FewerUnseen
  <2> QED BY <1>7, <2>8 DEF InSearch, Below
<1> QED BY <1>8, <1>9

\* A step from one phase to the next.
LEMMA PhaseEnds == IInv /\ (LowerProgram \/ SearchDone) => Below(Left', Left)
<1>1. IInv /\ LowerProgram => Below(Left', Left)
  BY DEF LowerProgram, Left, InSearch, InPasses, Below
<1>2. IInv /\ SearchDone => Below(Left', Left)
  BY DEF SearchDone, Left, InSearch, InPasses, Below
<1> QED BY <1>1, <1>2

\* The passes.
LEMMA PassEnds ==
    ASSUME IInv, IInv', InlineCalls \/ OncePass \/ ScalarPass \/ SelfInline \/ NextFunction
    PROVE  Below(Left', Left)
<1>1. phase = "optimize" /\ phase' = "optimize" /\ order' = order /\ Working
  BY DEF InlineCalls, OncePass, ScalarPass, SelfInline, NextFunction, Optimized, Working
<1>2. /\ Len(order) \in Nat /\ done \in Nat /\ done < Len(order) /\ stage \in 0 .. 10 /\ round \in 0 .. 2
      /\ scalar \in 0 .. 8 /\ iter \in 0 .. 8 /\ Len(Once) = 9 /\ Len(Repeated) = 8 /\ DOMAIN Once = 1 .. 9
  BY <1>1, Colours DEF IInv, Types, Once, Repeated, Working
<1>3. Left = <<0, PassesLeft, StagesLeft, ScalarLeft>> /\ (Left = <<0, PassesLeft, StagesLeft, ScalarLeft>>)'
  BY <1>1 DEF Left, InPasses, PassesLeft, StagesLeft, ScalarLeft
<1>4. CASE InlineCalls
  <2>1. PassesLeft' = PassesLeft /\ StagesLeft' < StagesLeft
    BY <1>2, <1>4 DEF InlineCalls, PassesLeft, StagesLeft
  <2> QED BY <1>3, <2>1 DEF Below
<1>5. CASE OncePass
  <2>1. PassesLeft' = PassesLeft /\ StagesLeft' < StagesLeft
    BY <1>2, <1>5 DEF OncePass, PassesLeft, StagesLeft
  <2> QED BY <1>3, <2>1 DEF Below
<1>6. CASE ScalarPass
  <2>1. PassesLeft' = PassesLeft /\ StagesLeft' = StagesLeft
    BY <1>6 DEF ScalarPass, PassesLeft, StagesLeft
  <2>2. /\ scalar # 0
        /\ \/ scalar < 8 /\ scalar' = scalar + 1 /\ iter' = iter
           \/ scalar = 8 /\ scalar' = 1 /\ iter' = iter + 1 /\ iter < 8
           \/ scalar = 8 /\ scalar' = 0
    BY <1>2, <1>6 DEF ScalarPass
  <2>3. ScalarLeft' < ScalarLeft
    BY <1>2, <2>2 DEF ScalarLeft
  <2> QED BY <1>3, <2>1, <2>3 DEF Below
<1>7. CASE SelfInline
  <2>1. round' = round + 1 /\ done' = done
    BY <1>7 DEF SelfInline
  <2>2. PassesLeft' < PassesLeft
    BY <1>1, <1>2, <2>1 DEF PassesLeft
  <2> QED BY <1>3, <2>2 DEF Below
<1>8. CASE NextFunction
  <2>1. round' = 0 /\ done' = done + 1
    BY <1>8 DEF NextFunction
  <2>2. PassesLeft' < PassesLeft
    BY <1>1, <1>2, <2>1 DEF PassesLeft
  <2> QED BY <1>3, <2>2 DEF Below
<1> QED BY <1>4, <1>5, <1>6, <1>7, <1>8

\* All steps together.
LEMMA StepEnds == IInv /\ IInv' /\ Next => Below(Left', Left)
  BY RootEnds, FollowEnds, LeaveEnds, PhaseEnds, PassEnds DEF Next

-----------------------------------------------------------------------------
(* The theorems.                                                           *)

\* The invariant holds of the search and of the passes.
THEOREM Invariance == Spec => []IInv
<1> QED BY Initially, StepKeeps, PTL DEF Spec

\* Callees come before their callers, unless the call closes a cycle and both
\* are known to be recursive (cg_visit).
THEOREM Ordered == Spec => []CalleesFirst
<1> QED BY Invariance, CalleesAreFirst, PTL

\* Every function is optimized, and none twice (color, in cg_visit).
THEOREM OptimizedOnce == Spec => []EachOnce
<1> QED BY Invariance, EveryPlace, PTL

\* What hyopt_module knows of a function is true of the code it has now.
THEOREM Current == Spec => []InfoIsCurrent
<1>1. IInv => InfoIsCurrent
  BY DEF IInv, Known
<1> QED BY Invariance, <1>1, PTL

\* Only finished functions are expanded in other functions, and a finished
\* function is not changed any more: the code expanded is the code that is
\* emitted.
THEOREM Final == Spec => []ExpandsFinished /\ [][FinishedStays]_vars
<1>1. IInv /\ [Next]_vars => [FinishedStays]_vars
  BY StaysFinished
<1> QED BY Invariance, ExpandableFinished, <1>1, PTL DEF Spec

\* Whatever the passes do to the code, hyopt_module comes to its end.
THEOREM Ends == Spec => [](Left \in Measure) /\ [][Below(Left', Left)]_vars
<1>1. IInv /\ IInv' /\ [Next]_vars => [Below(Left', Left)]_vars
  BY StepEnds
<1> QED BY Invariance, LeftIsMeasure, <1>1, PTL DEF Spec
=============================================================================
