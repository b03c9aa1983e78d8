------------------------------ MODULE MCPhyLink ------------------------------
\* Requests for the runs of PhyLink: negotiate all, negotiate less, ask for what
\* is not supported, force a medium of each kind, force what cannot be.
EXTENDS PhyLink

Asks(autoneg, adv, medium, pause) ==
  [autoneg |-> autoneg, adv |-> adv, medium |-> medium, pause |-> pause]

MCRequests ==
  {Asks(TRUE, Modes, Unknown, TRUE), Asks(TRUE, GMedia, Unknown, FALSE),
   Asks(TRUE, Modes \ GMedia, Unknown, FALSE),
   Asks(TRUE, GMedia \cup {Pause}, Unknown, FALSE),
   Asks(FALSE, Modes, TenHalf, FALSE), Asks(FALSE, Modes, FiveG, TRUE),
   Asks(FALSE, GMedia, HalfGig, FALSE), Asks(FALSE, GMedia, OddSpeed, TRUE)}
MCSupported == (Media \ {FiveG}) \cup {Pause}
=============================================================================
