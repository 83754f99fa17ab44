----------------------------- MODULE MCAccounts -----------------------------
(* Values of the constants of Accounts for TLC.                            *)
EXTENDS Accounts, TLC

CONSTANTS c1, c2, u1, u2, a, b, x, y, p, admin, editor, edit, manage

MCGrants == (admin :> {edit, manage}) @@ (editor :> {edit})
=============================================================================
