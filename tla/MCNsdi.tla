------------------------------- MODULE MCNsdi -------------------------------
\* Two applications of which the second forks, on two CPUs, two processes pinned.
EXTENDS Nsdi

MCDomainOf == [c \in Cpus |-> 0]
MCRootOf == (0 :> 1) @@ (1 :> 2)
MCMask == (1 :> {1}) @@ (2 :> {0, 1}) @@ (3 :> {0})
MCSenders == {<<1, "work">>, <<2, "work">>, <<3, "work">>, <<3, "helper">>}
=============================================================================
