------------------------ MODULE MCRepairCertificate ------------------------
EXTENDS RepairCertificate

Int2Q(v) == [k \in 1..Len(v) |-> <<v[k], 1>>]
P(M, v)  == [D |-> [i \in 1..Len(M) |-> Int2Q(M[i])], r |-> Int2Q(v)]

\* Solvable once, never and in many ways; a witness that is longer than any
\* entry of the input (1/3); no columns at all.
MCProblems ==
    {P(<<<<1>>>>, <<1>>), P(<<<<3>>>>, <<1>>), P(<<<<0>>>>, <<1>>),
     P(<<<<1>>, <<1>>>>, <<0, 1>>), P(<<<<1>>, <<-1>>>>, <<1, -1>>),
     P(<<<<1, 1>>>>, <<1>>), P(<<<<>>>>, <<1>>), P(<<>>, <<>>)}

\* <<2, 2>> and <<1, 0>> are spellings that no canonical text has.
MCEntries == {<<0, 1>>, <<1, 1>>, <<-1, 1>>, <<1, 3>>, <<2, 2>>, <<1, 0>>}
=============================================================================
