------------------------------ MODULE MCMigrations ------------------------------
(* Instances of Migrations: two processes of any release, so that one may be     *)
(* older or newer than the schema the other one makes.                           *)
EXTENDS Migrations
CONSTANTS p1, p2
=================================================================================
