------------------------- MODULE MCInstallPackages -------------------------
(* InstallPackages on small lists; the cfg files give the constants. *)
EXTENDS InstallPackages
=============================================================================
