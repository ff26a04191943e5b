----------------------------- MODULE MCBanners -----------------------------
(* Banners on a small instance.                                            *)
EXTENDS Banners, TLC

\* Neither banners nor requests are told apart by anything but their identity.
Symmetry == Permutations(Ids) \cup Permutations(Requests)
=============================================================================
