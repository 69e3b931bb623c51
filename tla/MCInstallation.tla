--------------------------- MODULE MCInstallation ---------------------------
(* Model checking of Installation.                                         *)
EXTENDS Installation

=============================================================================
