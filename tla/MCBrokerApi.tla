---------------------------- MODULE MCBrokerApi ----------------------------
(* TLC instances of BrokerApi. *)
EXTENDS BrokerApi, TLC

CONSTANTS u1, s1, h1, h2, pass

Login1 == [user |-> u1, password |-> pass]
PutOf(h) ==
    [op |-> "put", login |-> Login1, scope |-> s1, hash |-> h,
     why |-> "ordinary"]
GetOf(etag) == [op |-> "get", login |-> Login1, scope |-> s1, etag |-> etag]
AuthRequired(n) ==
    [op |-> "report", login |-> Login1, scope |-> s1, revision |-> n,
     kind |-> "authentication_required"]

\* A name that brokerctl makes a publisher or a reader, and deletes.  It
\* publishes and repeats itself, fetches, reports and watches; a request goes
\* on after its user has changed.
Traffic ==
    {PutOf(h1), PutOf(h2), GetOf(h1), AuthRequired(1),
     [op |-> "status", login |-> Login1, scope |-> s1],
     [op |-> "list", login |-> Login1]}
============================================================================
