--------------------------- MODULE MCLinearScan ---------------------------
(* The scan on every list of four intervals over three positions, with two *)
(* registers of which register 0 survives calls.                           *)
EXTENDS LinearScan, FiniteSets

MCVReg == 1 .. 4

\* Caller-saved registers are handed out first.
MCRank == [r \in {0, 1} |-> 1 - r]

\* Only an interval with a position strictly inside can span a call (crosses)
\* or an instruction that destroys register 0 (forbid).
Spans == {s \in (0 .. 2) \X (0 .. 2) : s[1] <= s[2]}
Dangers(s) == IF s[2] < s[1] + 2 THEN {<<FALSE, {}>>}
              ELSE {<<FALSE, {}>>, <<TRUE, {}>>, <<FALSE, {0}>>}

\* The later two may be hinted at register 0, or follow their predecessor.
Hints(v) == {<<{}, {}>>} \union IF v < 3 THEN {} ELSE {<<{0}, {}>>, <<{}, {v - 1}>>}

Choices(v) ==
    UNION {{[start |-> s[1], end |-> s[2], crosses |-> d[1], weight |-> w,
             forbid |-> d[2], hint |-> h[1], follow |-> h[2]] :
               d \in Dangers(s), w \in {1, 4}, h \in Hints(v)} : s \in Spans}

\* Numbered in the order of the scan.
MCInputs ==
    {[iv |-> <<a, b, c, d>>, queue |-> <<1, 2, 3, 4>>] :
        <<a, b, c, d>> \in
            {t \in Choices(1) \X Choices(2) \X Choices(3) \X Choices(4) :
                /\ t[1].start <= t[2].start
                /\ t[2].start <= t[3].start
                /\ t[3].start <= t[4].start}}
===========================================================================
