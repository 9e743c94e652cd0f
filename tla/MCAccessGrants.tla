-------------------------- MODULE MCAccessGrants ---------------------------
(* Small instances of the users, logins and grants for TLC; the values are  *)
(* in the .cfg files.                                                       *)
EXTENDS AccessGrants
=============================================================================
