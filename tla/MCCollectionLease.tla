-------------------------- MODULE MCCollectionLease --------------------------
\* CollectionLease for TLC: two calls, one of them stubborn, beside a build
\* without heartbeats; the isolates' clocks lag D1's by one unit.
EXTENDS CollectionLease
=============================================================================
