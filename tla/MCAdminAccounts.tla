-------------------------- MODULE MCAdminAccounts --------------------------
(* AdminAccounts on a small instance.                                      *)
EXTENDS AdminAccounts, TLC

\* Accounts and requests are interchangeable; so are addresses, but one of them
\* is chosen for absent rows.
Symmetry == Permutations(Accounts) \cup Permutations(Requests)
=============================================================================
