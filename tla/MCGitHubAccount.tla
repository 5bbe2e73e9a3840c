-------------------------- MODULE MCGitHubAccount ---------------------------
(***************************************************************************)
(* A small instance of GitHubAccount for TLC: two accounts, one repository *)
(* that can move between them, and a user who links and watches them.      *)
(***************************************************************************)
EXTENDS GitHubAccount

CONSTANTS i1, i2, r1, u1

=============================================================================
