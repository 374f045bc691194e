----------------------------- MODULE MCCaching -----------------------------
EXTENDS Sessions

MCClients == {"c", "d"}
MCPods    == {"a", "b"}

Together == [c \in MCClients |-> "a"]
Apart    == [c |-> "a", d |-> "b"]

\* Queries: both middlewares over both caches; no L1; the noop driver.
Queries ==
  [use : {"query"}, checker : {FALSE}, redis : {TRUE}, local : {TRUE}, json : BOOLEAN,
   podOf : {Together, Apart}]
    \cup [use : {"query"}, checker : {FALSE}, redis : {TRUE}, local : {FALSE}, json : {TRUE},
          podOf : {Together}]
    \cup [use : {"query"}, checker : {FALSE}, redis : {FALSE}, local : {TRUE}, json : {TRUE},
          podOf : {Apart}]

\* Sessions: with the database behind the blacklist, with either driver, and
\* without it.
Validations ==
  [use : {"session"}, checker : {TRUE}, redis : BOOLEAN, local : {TRUE}, json : {FALSE},
   podOf : {Together, Apart}]
    \cup [use : {"session"}, checker : {FALSE}, redis : {TRUE}, local : {TRUE}, json : {FALSE},
          podOf : {Together}]

MCConfigs == Queries \cup Validations
=============================================================================
