----------------------------- MODULE MCAccounts -----------------------------
(***************************************************************************)
(* Accounts with three calls, two emails and passwords, and an admin who   *)
(* also uses one of those emails.                                          *)
(***************************************************************************)
EXTENDS Accounts, TLC

CONSTANTS k1, k2, k3, root, ann, bea, p1, p2

MCCalls     == {k1, k2, k3}
MCEmails    == {ann, bea}
MCPasswords == {p1, p2}
MCAdmins    == {root}
MCAdminEmail    == root :> ann
MCAdminPassword == root :> p1
MCAll       == {"fail", "lost", "unread"}
MCSymmetry  == Permutations(Calls)
=============================================================================
