------------------------------ MODULE MCLimits ------------------------------
EXTENDS Limits, TLC

Base ==
  [guard |-> "bulkhead", rate |-> 1, burst |-> 1, window |-> 2, maxClients |-> 0,
   stale |-> 1, maxConcurrent |-> 1, maxRetries |-> 1, minRequests |-> 1,
   maxRequests |-> 1, interval |-> 0, timeout |-> 1]

MCConfigs ==
  {Base}
  \cup {[Base EXCEPT !.guard = g, !.rate = n, !.window = w] :
          g \in {"fixed_window", "sliding_window"}, n \in {1, 2}, w \in {1, 2}}
  \cup {[Base EXCEPT !.guard = "token_bucket", !.burst = b, !.maxClients = m] :
          b \in {1, 2}, m \in {0, 1}}
  \cup {[Base EXCEPT !.guard = "http_client", !.minRequests = n, !.maxRequests = m,
                     !.interval = i] : n \in {1, 3}, m \in {1, 2}, i \in {0, 1}}
MCSymmetry == Permutations(Callers) \cup Permutations(Keys)
=============================================================================
