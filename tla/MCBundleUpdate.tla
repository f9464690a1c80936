--------------------------- MODULE MCBundleUpdate ---------------------------
(* Small instances of BundleUpdate for TLC. *)
EXTENDS BundleUpdate, TLC

CONSTANTS a1, a2, a3, g1, g2

\* Two APKs embed the first helper, so that one can replace the other alone.
Embeds == a1 :> g1 @@ a2 :> g1 @@ a3 :> g2
=============================================================================
