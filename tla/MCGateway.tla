----------------------------- MODULE MCGateway -----------------------------
(* Gateway with ports 2 to 4 and all lists of some entries.                *)
EXTENDS Gateway

CONSTANTS a1, a2

\* Every list of: no address, any, two spellings of one address, another one.
AllLists == SUBSET {[kind |-> "junk"], Any, Canonical(a1), Ip(a1, "other"), Canonical(a2)}

Asked == {-1, 1, 2, 3, 5}

PortRange(lo, hi) == [kind |-> "ports", lo |-> lo, hi |-> hi]
Env(ports, min, max) ==
  [ports |-> ports, min |-> min, max |-> max, keys |-> {"key"},
   given |-> {"BASE_DOMAIN", "UPSTREAM_URL"}]

\* Good and bad lists of ports, good and bad ranges, and what is required.
AllSettings ==
  LET blank == [kind |-> "blank"]  any == [kind |-> "any"]  junk == [kind |-> "junk"]
      lists == {{}, {blank}, {any}, {junk}, {PortRange(1, 1)}, {PortRange(1, 2), blank},
                {PortRange(2, 1)}, {PortRange(3, 5)}, {PortRange(3, 3), PortRange(1, 1)}, {PortRange(0, 1), any}}
  IN  {Env(l, {}, {}) : l \in lists}
        \cup {Env({}, {2}, {3}), Env({}, {4}, {4}), Env({}, {1}, {3}), Env({}, {}, {5})}
        \cup {[Env({}, {}, {}) EXCEPT !.keys = {}], [Env({}, {}, {}) EXCEPT !.given = {"BASE_DOMAIN"}]}
=============================================================================
