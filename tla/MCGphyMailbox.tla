---------------------------- MODULE MCGphyMailbox ----------------------------
\* Values of Calls for the runs of GphyMailbox: two registers, updates of both
\* halves, 16-bit and 32-bit accesses.
EXTENDS GphyMailbox, TLC

R(h, l) == [hi |-> h, lo |-> l]
C(a, h, v, w) == [addr |-> a, half |-> h, val |-> v, wide |-> w]

\* Two fields of one register, and a 16-bit register whose address differs in
\* ADDRLO, the part that is written before the command: a request made with the
\* ADDRLO of another call hits a register nobody asked for.
CallsMixed == {C(R(0, 0), "lo", 1, TRUE), C(R(0, 0), "hi", 1, TRUE), C(R(0, 1), "lo", 1, FALSE)}
CallsOne == {C(R(0, 0), "hi", 1, TRUE)}

ThreadSymmetry == Permutations(Threads)
=============================================================================
