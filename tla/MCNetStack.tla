----------------------------- MODULE MCNetStack -----------------------------
EXTENDS NetStack

Arp(kind, tpa, spa, sha) == [kind |-> kind, tpa |-> tpa, spa |-> spa, sha |-> sha]
Frames == {Arp("request", "me", "a", "m1"), Arp("reply", "me", "a", "m1"),
           Arp("reply", "me", "a", "m2"), [kind |-> "large"]}
=============================================================================
