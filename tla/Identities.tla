----------------------------- MODULE Identities -----------------------------
(* The ids every part of the server passes around as strings.              *)
EXTENDS Integers

CONSTANTS
    PlayerIds,    \* the players
    NoPlayer,     \* the empty player id
    TableIds      \* the tables

ASSUME NoPlayerAssumption == NoPlayer \notin PlayerIds
=============================================================================
