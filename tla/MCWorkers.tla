----------------------------- MODULE MCWorkers ------------------------------
EXTENDS Workers

Conf(k, workers, items, cap) ==
  [kind |-> k, workers |-> workers, items |-> items, cap |-> cap, malformed |-> {}]

MCConfigs ==
  {Conf(g, 2, n, 1) : g \in {"pool", "fanout", "fanin"}, n \in {3}}
  \cup {Conf(g, w, n, 1) : g \in {"senders", "sharded"}, w \in {2, 3}, n \in {3, 5}}
  \cup {[Conf("amqp", 2, 2, p) EXCEPT !.malformed = m] : p \in {1, 2}, m \in {{}, {2}}}
=============================================================================
