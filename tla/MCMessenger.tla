---------------------------- MODULE MCMessenger ----------------------------
(* Small instances of Messenger for TLC. *)
EXTENDS Messenger, TLC

MCCmds == {1, 2}

Config(t, b, f) ==
  [transport |-> t, bus |-> b, faults |-> f,
   forced |-> {}, local |-> {}, garbled |-> {}, spare |-> {}]

\* Three faults on one entry are a claim that expires and two loops that both
\* fail; with two commands in a batch two faults are enough to interfere.
MCConfigs ==
  { Config("memory", "plain", 3), Config("memory", "same", 3), Config("outbox", "plain", 2),
    [Config("outbox", "plain", 3) EXCEPT !.spare = {2}],
    [Config("memory", "plain", 3) EXCEPT !.forced = {1}, !.local = {2}],
    [Config("outbox", "plain", 2) EXCEPT !.garbled = {1}],
    [Config("outbox", "same", 3) EXCEPT !.spare = {2}] }

ForcedConfig == {[Config("memory", "plain", 0) EXCEPT !.forced = {1}]}

=============================================================================
