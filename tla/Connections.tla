---------------------------- MODULE Connections ----------------------------
(* What the servers with a goroutine per connection have to do with.         *)
EXTENDS FiniteSets

CONSTANTS
    Conns,     \* connections that clients may open
    NoConn

ASSUME ConnectionsAssumption == IsFiniteSet(Conns) /\ NoConn \notin Conns
=============================================================================
