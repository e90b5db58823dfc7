---------------------------- MODULE MCDataPlane -----------------------------
(* The instance of DataPlane that TLC checks. *)
EXTENDS DataPlane

CONSTANTS s1, s2, h, alice, bob, j1, j2, j3, j4

Request(host, method, cred, profile) == [host |-> host, method |-> method, cred |-> cred, profile |-> profile]
Get(cred) == Request(h, "GET", cred, "cache")
Literal(address) == Request(address, "GET", alice, "none")

MCCalls == {s1, s2}
MCHosts == {h}
MCCreds == {alice, bob}
MCJtis == {j1, j2, j3, j4}

Post == Request(h, "POST", bob, "cache")

\* Two tickets for the same resource, one for a resource at a private address, one for a POST.
MCSub == [j \in MCJtis |-> DedupeKey(CASE j = j3 -> Literal("private") [] j = j4 -> Post [] OTHER -> Get(alice))]

Both(r1, t1, r2, t2) == [s \in MCCalls |-> IF s = s1 THEN [req |-> r1, jti |-> t1] ELSE [req |-> r2, jti |-> t2]]

\* One ticket presented twice; two callers of one resource, the same or not; a ticket for another
\* resource and a profile that forbids the request; a private address and a method that is not cached;
\* a request whose method is no string, and one with the ticket that it brought.
MCWishes ==
  {Both(Get(alice), j1, Get(bob), j1), Both(Get(alice), j1, Get(bob), j2), Both(Get(alice), j1, Get(alice), j2),
   Both(Literal("public"), j1, Request(h, "GET", alice, "forbids"), j2),
   Both(Literal("private"), j3, Post, j4),
   Both(Request(h, "malformed", alice, "cache"), j1, Get(bob), j1)}
=============================================================================
