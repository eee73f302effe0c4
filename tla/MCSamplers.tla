----------------------------- MODULE MCSamplers -----------------------------
(* Two CCM domains, one CS link and one L3 domain.  The L3 samplers share  *)
(* neither counters nor channels with the others, so the machines are one  *)
(* where only the DF device opens and one where only the L3 device does.   *)
EXTENDS Samplers

MCCcmDomains == <<1, 2>>
MCCsLinks == <<1>>
MCMaxSweeps == [ccm |-> 2, cs |-> 1]
MCMachines == {{"df"}, {"llc"}}
=============================================================================
