-------------------------- MODULE MCInboxConsumer --------------------------
(* Instances of InboxConsumer. *)
EXTENDS InboxConsumer

\* m2 is a second copy of the event of m1, sent again by the outbox relay after
\* the broker's own deduplication window; m3 cannot be decoded.
MCMsgs      == {"m1", "m2", "m3"}
MCEventOf   == [m \in MCMsgs |-> IF m = "m3" THEN "e2" ELSE "e1"]
MCMalformed == {"m3"}

\* Two commands: CommandStream.Send publishes without an id.
TwoCommands == {"m1", "m2"}
OwnEvent    == [m \in TwoCommands |-> m]
BlankId     == [m \in TwoCommands |-> ""]

\* Two consumers of one subscription.
OneSub == [c \in {"c1", "c2"} |-> "s1"]

AllConfigs == {
  [kind |-> "wrap",    maxDeliver |-> 0, cleanup |-> TRUE],
  [kind |-> "wrap",    maxDeliver |-> 2, cleanup |-> FALSE],
  [kind |-> "process", maxDeliver |-> 0, cleanup |-> FALSE],
  [kind |-> "typed",   maxDeliver |-> 0, cleanup |-> FALSE]}

WrapConfig == {[kind |-> "wrap", maxDeliver |-> 0, cleanup |-> FALSE]}

=============================================================================
