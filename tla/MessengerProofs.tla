-------------------------- MODULE MessengerProofs --------------------------
(***************************************************************************)
(* For any commands, consume loops, buffer, batch and retry limits and     *)
(* number of faults: neither transport of the messenger loses a command or *)
(* hands it to two loops, an entry is published only after its handler     *)
(* succeeded, and retry_count stands for attempts that were made.          *)
(***************************************************************************)
EXTENDS Messenger, FiniteSetTheorems, TLAPS

\* No element occurs twice in s.
Distinct(s) == \A i, j \in DOMAIN s : i # j => s[i] # s[j]

Stages == {"get", "dispatch", "handle", "send", "ack", "reject", "requeue", "stopped", "dead"}
Idle   == {"get", "stopped", "dead"}
Calls  == {"new", "send", "async", "done", "failed"}

MsgType ==
  /\ conf \in Configs
  /\ call \in [Cmds -> Calls]
  /\ ch \in Seq(Cmds)
  /\ row \in [Cmds -> {"none", "unpublished", "published"}]
  /\ claim \in [Cmds -> {"none", "held", "expired"}]
  /\ retry \in [Cmds -> Nat]
  /\ loop \in [Loops -> Stages]
  /\ batch \in [Loops -> Seq(Cmds)]
  /\ tries \in [Loops -> 0..Retries]
  /\ attempts \in [Cmds -> Nat]
  /\ handled \in [Cmds -> Nat]
  /\ dropped \subseteq Cmds

\* A loop holds envelopes, without repetition, exactly while it processes
\* them, one at a time on the memory transport; the stage tells which bus it
\* is on, or which transport, and whether Retry has begun.
LoopInv ==
  \A l \in Loops :
    /\ batch[l] = <<>> <=> loop[l] \in Idle
    /\ Distinct(batch[l])
    /\ Memory => Len(batch[l]) <= 1
    /\ loop[l] = "send" => conf.bus = "same"
    /\ loop[l] = "handle" => conf.bus = "plain"
    /\ loop[l] = "requeue" => Memory
    /\ loop[l] \notin {"handle", "send"} => tries[l] = 0

MsgInv == MsgType /\ LoopInv

-----------------------------------------------------------------------------
\* Sequences

\* What Tail leaves of a sequence without repetition.
LEMMA TailFact ==
  ASSUME NEW S, NEW s \in Seq(S), s # <<>>, Distinct(s)
  PROVE  /\ Tail(s) \in Seq(S) /\ Distinct(Tail(s))
         /\ Head(s) \in S /\ Head(s) \in Range(s)
         /\ Range(Tail(s)) = Range(s) \ {Head(s)}
         /\ Len(Tail(s)) = Len(s) - 1
<1>1. /\ Tail(s) \in Seq(S) /\ Len(Tail(s)) = Len(s) - 1
      /\ \A i \in DOMAIN Tail(s) : Tail(s)[i] = s[i + 1] /\ i + 1 \in DOMAIN s
      /\ 1 \in DOMAIN s /\ Head(s) = s[1] /\ s[1] \in S
      /\ \A i \in DOMAIN s : i = 1 \/ (i - 1 \in DOMAIN Tail(s) /\ i - 1 + 1 = i)
  OBVIOUS
<1>2. Distinct(Tail(s))
  BY <1>1 DEF Distinct
<1>3. Range(Tail(s)) = Range(s) \ {Head(s)}
  BY <1>1 DEF Distinct, Range
<1> QED BY Zenon, <1>1, <1>2, <1>3 DEF Range

\* What Append adds.
LEMMA AppendFact ==
  ASSUME NEW S, NEW s \in Seq(S), NEW x \in S
  PROVE  /\ Append(s, x) \in Seq(S)
         /\ Range(Append(s, x)) = Range(s) \cup {x}
         /\ Distinct(s) /\ x \notin Range(s) => Distinct(Append(s, x))
  BY DEF Range, Distinct

\* A batch of one envelope, and none.
LEMMA ShortFact ==
  ASSUME NEW S, NEW x \in S
  PROVE  /\ <<x>> \in Seq(S) /\ Distinct(<<x>>) /\ Range(<<x>>) = {x} /\ Len(<<x>>) = 1
         /\ <<x>> # <<>> /\ Head(<<x>>) = x
         /\ <<>> \in Seq(S) /\ Distinct(<<>>) /\ Range(<<>>) = {} /\ Len(<<>>) = 0
  BY DEF Range, Distinct

\* The rows UPDATE ... RETURNING gives, in some order.
LEMMA RowsFact ==
  ASSUME NEW S, IsFiniteSet(S), NEW s \in Bijection(1..Cardinality(S), S)
  PROVE  /\ s \in Seq(S) /\ Distinct(s) /\ Range(s) \subseteq S
         /\ s = <<>> <=> S = {}
<1>1. Cardinality(S) \in Nat /\ (Cardinality(S) = 0 <=> S = {})
  BY Zenon, FS_CardinalityType, FS_EmptySet
<1>2. s \in Seq(S) /\ Distinct(s) /\ Range(s) \subseteq S /\ Len(s) = Cardinality(S)
  BY <1>1 DEF Bijection, Injection, IsInjective, Range, Distinct
<1> QED BY <1>1, <1>2

-----------------------------------------------------------------------------
\* Types

\* What a claiming query can touch.
LEMMA EligibleFact ==
  /\ Oldest(Eligible) \subseteq Eligible
  /\ Oldest(Eligible) \subseteq Cmds
  /\ \A c \in Eligible : claim[c] # "held"
  BY Zenon DEF Oldest, Eligible

LEMMA TypeInit == Init => MsgInv
  BY MessengerAssumption DEF Init, MsgInv, MsgType, LoopInv, Calls, Stages, Distinct, Idle

\* Attempts, and successful ones, are counted.
LEMMA CountFact ==
  ASSUME MsgInv, NEW c \in Cmds, NEW n \in Nat
  PROVE  /\ Attempted(c, n) => /\ attempts' \in [Cmds -> Nat]
                               /\ \A d \in Cmds : attempts'[d] = IF d = c THEN attempts[c] + n
                                                                         ELSE attempts[d]
         /\ Succeeded(c) => /\ handled' \in [Cmds -> Nat]
                            /\ \A d \in Cmds : handled'[d] = IF d = c THEN handled[c] + 1
                                                                      ELSE handled[d]
<1>1. attempts[c] + n \in Nat /\ handled[c] + 1 \in Nat
  BY DEF MsgInv, MsgType
<1> QED BY ZenonT(60), <1>1 DEF Attempted, Succeeded, MsgInv, MsgType

\* An attempt counts for one, or, when the handler panics, for a round.
LEMMA AttemptFact == 1 \in Nat /\ Retries + 1 \in Nat
  BY MessengerAssumption

\* A step that leaves the loops alone.
LEMMA LoopFrame ==
  ASSUME MsgInv, UNCHANGED <<conf, loop, batch, tries>>
  PROVE  LoopInv'
  BY DEF MsgInv, LoopInv, Memory, Distinct

\* Dispatch and the transports' Send.
LEMMA AppTypes ==
  ASSUME MsgInv, NEW c \in Cmds, Dispatch(c) \/ Send(c) \/ Insert(c) \/ Expire(c)
  PROVE  MsgInv'
<1>1. CASE Dispatch(c)
  <2>1. /\ UNCHANGED <<conf, ch, row, claim, retry, loop, batch, tries, dropped>>
        /\ call' \in [Cmds -> Calls]
    BY Zenon, <1>1 DEF Dispatch, Returned, memVars, rowVars, loopVars, MsgInv, MsgType, Calls
  <2>2. attempts' \in [Cmds -> Nat] /\ handled' \in [Cmds -> Nat]
    BY Zenon, <1>1, AttemptFact, CountFact DEF Dispatch, histVars, MsgInv, MsgType
  <2> QED BY Zenon, <2>1, <2>2, LoopFrame DEF MsgInv, MsgType
<1>2. CASE Send(c)
  <2>1. UNCHANGED <<conf, row, claim, retry, loop, batch, tries, dropped, attempts, handled>>
    BY Zenon, <1>2 DEF Send, rowVars, loopVars, histVars
  <2>2. call' \in [Cmds -> Calls]
    BY ZenonT(60), <1>2 DEF Send, Returned, MsgInv, MsgType, Calls
  <2>3. ch' \in Seq(Cmds)
    <3>1. Append(ch, c) \in Seq(Cmds)
      BY Zenon, AppendFact DEF MsgInv, MsgType
    <3> QED BY Zenon, <1>2, <3>1 DEF Send, MsgInv, MsgType
  <2> QED BY Zenon, <2>1, <2>2, <2>3, LoopFrame DEF MsgInv, MsgType
<1>3. CASE Insert(c)
  <2>1. UNCHANGED <<conf, ch, claim, retry, loop, batch, tries, dropped, attempts, handled>>
    BY Zenon, <1>3 DEF Insert, memVars, loopVars, histVars
  <2>2. /\ call' \in [Cmds -> Calls]
        /\ row' \in [Cmds -> {"none", "unpublished", "published"}]
    BY Zenon, <1>3 DEF Insert, Returned, MsgInv, MsgType, Calls
  <2> QED BY Zenon, <2>1, <2>2, LoopFrame DEF MsgInv, MsgType
<1>4. CASE Expire(c)
  <2>1. UNCHANGED <<conf, call, ch, row, retry, loop, batch, tries, dropped, attempts, handled>>
    BY Zenon, <1>4 DEF Expire, appVars, memVars, loopVars, histVars
  <2>2. claim' \in [Cmds -> {"none", "held", "expired"}]
    BY Zenon, <1>4 DEF Expire, MsgInv, MsgType
  <2> QED BY Zenon, <2>1, <2>2, LoopFrame DEF MsgInv, MsgType
<1> QED BY Zenon, <1>1, <1>2, <1>3, <1>4

\* The end of processMessage: one envelope less.
LEMMA ContinueTypes ==
  ASSUME MsgInv, NEW l \in Loops, Continue(l), loop[l] \in {"ack", "reject", "requeue"}, conf' = conf
  PROVE  /\ batch' \in [Loops -> Seq(Cmds)] /\ loop' \in [Loops -> Stages]
         /\ tries' = tries
         /\ LoopInv'
         /\ Range(batch'[l]) = Range(batch[l]) \ {Current(l)}
         /\ \A m \in Loops \ {l} : batch'[m] = batch[m] /\ loop'[m] = loop[m]
         /\ loop'[l] \in {"dispatch", "stopped", "get"}
<1>1. batch[l] \in Seq(Cmds) /\ batch[l] # <<>> /\ Distinct(batch[l]) /\ l \in DOMAIN batch /\ l \in DOMAIN loop
  BY Zenon DEF MsgInv, MsgType, LoopInv, Idle
<1>2. /\ Tail(batch[l]) \in Seq(Cmds) /\ Distinct(Tail(batch[l]))
      /\ Range(Tail(batch[l])) = Range(batch[l]) \ {Head(batch[l])}
      /\ Len(Tail(batch[l])) = Len(batch[l]) - 1
  BY Zenon, <1>1, TailFact
<1>3. batch' = [batch EXCEPT ![l] = Tail(batch[l])] /\ tries' = tries
  BY Zenon DEF Continue
<1>4. PICK s \in Stages : /\ loop' = [loop EXCEPT ![l] = s]
                          /\ s \in {"dispatch", "stopped", "get"}
                          /\ Tail(batch[l]) = <<>> <=> s # "dispatch"
  BY Zenon DEF Continue, Goto, Stages
<1>5. batch' \in [Loops -> Seq(Cmds)] /\ loop' \in [Loops -> Stages]
  BY Zenon, <1>2, <1>3, <1>4 DEF MsgInv, MsgType
<1>6. LoopInv'
  <2> SUFFICES ASSUME NEW m \in Loops
               PROVE  /\ batch'[m] = <<>> <=> loop'[m] \in Idle
                      /\ Distinct(batch'[m])
                      /\ Memory => Len(batch'[m]) <= 1
                      /\ loop'[m] = "send" => conf.bus = "same"
                      /\ loop'[m] = "handle" => conf.bus = "plain"
                      /\ loop'[m] = "requeue" => Memory
                      /\ loop'[m] \notin {"handle", "send"} => tries[m] = 0
    BY Zenon, <1>3 DEF LoopInv, Memory
  <2>1. CASE m = l
    <3>1. batch'[m] = Tail(batch[l]) /\ loop'[m] \in {"dispatch", "stopped", "get"} /\ tries[m] = 0
      BY Zenon, <2>1, <1>3, <1>4 DEF MsgInv, MsgType, LoopInv
    <3>2. batch'[m] = <<>> <=> loop'[m] \in Idle
      BY Zenon, <2>1, <3>1, <1>4 DEF MsgInv, MsgType, Idle
    <3>3. Memory => Len(batch'[m]) <= 1
      BY <2>1, <3>1, <1>1, <1>2 DEF MsgInv, LoopInv
    <3> QED BY Zenon, <3>1, <3>2, <3>3, <1>2
  <2>2. CASE m # l
    BY Zenon, <2>2, <1>3, <1>4 DEF MsgInv, MsgType, LoopInv
  <2> QED BY Zenon, <2>1, <2>2
<1> QED BY Zenon, <1>1, <1>2, <1>3, <1>4, <1>5, <1>6 DEF MsgInv, MsgType, Current

\* The transports' Get.
LEMMA GetTypes ==
  ASSUME MsgInv, NEW l \in Loops, GetMemory(l) \/ GetUnpublished(l) \/ Stop(l)
  PROVE  MsgInv'
<1>1. CASE GetMemory(l)
  <2>1. /\ UNCHANGED <<conf, call, row, claim, retry, tries, dropped, attempts, handled>>
        /\ loop[l] = "get" /\ ch # <<>> /\ ch' = Tail(ch)
        /\ batch' = [batch EXCEPT ![l] = <<Head(ch)>>] /\ loop' = [loop EXCEPT ![l] = "dispatch"]
    BY Zenon, <1>1 DEF GetMemory, Goto, appVars, rowVars, histVars
  <2>2. Tail(ch) \in Seq(Cmds) /\ Head(ch) \in Cmds
    BY <2>1 DEF MsgInv, MsgType
  <2>3. batch' \in [Loops -> Seq(Cmds)] /\ loop' \in [Loops -> Stages]
    BY Zenon, <2>1, <2>2, ShortFact DEF MsgInv, MsgType, Stages
  <2>4. LoopInv'
    <3>1. /\ batch'[l] = <<Head(ch)>> /\ loop'[l] = "dispatch"
          /\ \A m \in Loops : m # l => batch'[m] = batch[m] /\ loop'[m] = loop[m]
      BY Zenon, <2>1 DEF MsgInv, MsgType
    <3>2. <<Head(ch)>> # <<>> /\ Distinct(<<Head(ch)>>) /\ Len(<<Head(ch)>>) <= 1
      <4>1. <<Head(ch)>> # <<>> /\ Distinct(<<Head(ch)>>) /\ Len(<<Head(ch)>>) = 1
        BY Zenon, <2>2, ShortFact
      <4> QED BY <4>1
    <3>3. tries[l] = 0
      BY Zenon, <2>1 DEF MsgInv, LoopInv
    <3> SUFFICES ASSUME NEW m \in Loops
                 PROVE  /\ batch'[m] = <<>> <=> loop'[m] \in Idle
                        /\ Distinct(batch'[m])
                        /\ Memory' => Len(batch'[m]) <= 1
                        /\ loop'[m] = "send" => conf'.bus = "same"
                        /\ loop'[m] = "handle" => conf'.bus = "plain"
                        /\ loop'[m] = "requeue" => Memory'
                        /\ loop'[m] \notin {"handle", "send"} => tries'[m] = 0
      BY Zenon DEF LoopInv
    <3>4. CASE m = l
      BY Zenon, <2>1, <3>1, <3>2, <3>3, <3>4 DEF Idle
    <3>5. CASE m # l
      BY Zenon, <2>1, <3>1, <3>5 DEF MsgInv, LoopInv, Memory
    <3> QED BY Zenon, <3>4, <3>5
  <2> QED BY Zenon, <2>1, <2>2, <2>3, <2>4 DEF MsgInv, MsgType
<1>2. CASE GetUnpublished(l)
  <2> DEFINE B    == Oldest(Eligible)
             good == B \ conf.garbled
  <2>1. /\ UNCHANGED <<conf, call, ch, row, tries, dropped, attempts, handled>>
        /\ Outbox /\ loop[l] = "get"
    BY Zenon, <1>2 DEF GetUnpublished, appVars, memVars, histVars
  <2>2. PICK s \in Bijection(1..Cardinality(good), good) : batch' = [batch EXCEPT ![l] = s]
    BY Zenon, <1>2 DEF GetUnpublished
  <2>3. good \subseteq Cmds /\ IsFiniteSet(good)
    BY Zenon, EligibleFact, FS_Subset, MessengerAssumption
  <2>4. s \in Seq(Cmds) /\ Distinct(s) /\ (s = <<>> <=> good = {})
    <3>1. s \in Seq(good) /\ Distinct(s) /\ (s = <<>> <=> good = {})
      BY Zenon, <2>2, <2>3, RowsFact
    <3> QED BY <2>3, <3>1
  <2>5. IF good = {} THEN loop' = loop ELSE loop' = [loop EXCEPT ![l] = "dispatch"]
    BY Zenon, <1>2 DEF GetUnpublished, Goto
  <2>6. claim' \in [Cmds -> {"none", "held", "expired"}]
    BY ZenonT(60), <1>2 DEF GetUnpublished, Claimed, MsgInv, MsgType
  <2>7. retry' \in [Cmds -> Nat]
    <3>1. \A c \in Cmds : retry[c] + 1 \in Nat
      BY DEF MsgInv, MsgType
    <3>2. retry' = [c \in Cmds |-> IF c \in Oldest(Eligible) \cap conf.garbled THEN retry[c] + 1 ELSE retry[c]]
          \/ retry' = retry
      BY Zenon, <1>2 DEF GetUnpublished
    <3> QED BY Zenon, <3>1, <3>2 DEF MsgInv, MsgType
  <2>8. batch' \in [Loops -> Seq(Cmds)] /\ loop' \in [Loops -> Stages]
    BY Zenon, <2>2, <2>4, <2>5 DEF MsgInv, MsgType, Stages
  <2>9. LoopInv'
    <3>1. /\ batch'[l] = s /\ (IF good = {} THEN loop'[l] = "get" ELSE loop'[l] = "dispatch")
          /\ \A m \in Loops : m # l => batch'[m] = batch[m] /\ loop'[m] = loop[m]
      BY Zenon, <2>1, <2>2, <2>5 DEF MsgInv, MsgType
    <3>2. ~Memory
      BY Zenon, <2>1 DEF Memory, Outbox
    <3>3. tries[l] = 0
      BY Zenon, <2>1 DEF MsgInv, LoopInv
    <3> QED BY Zenon, <2>1, <2>4, <3>1, <3>2, <3>3 DEF MsgInv, LoopInv, Memory, Idle
  <2> QED BY Zenon, <2>1, <2>6, <2>7, <2>8, <2>9 DEF MsgInv, MsgType
<1>3. CASE Stop(l)
  <2>1. /\ UNCHANGED <<conf, call, ch, row, claim, retry, batch, tries, dropped, attempts, handled>>
        /\ loop[l] = "get" /\ loop' = [loop EXCEPT ![l] = "stopped"]
    BY Zenon, <1>3 DEF Stop, Goto, appVars, memVars, rowVars, histVars
  <2>2. LoopInv' /\ loop' \in [Loops -> Stages]
    BY Zenon, <2>1 DEF MsgInv, MsgType, LoopInv, Memory, Stages, Idle
  <2> QED BY Zenon, <2>1, <2>2 DEF MsgInv, MsgType
<1> QED BY Zenon, <1>1, <1>2, <1>3

\* The effects of the statements on a row.
LEMMA StatementTypes ==
  ASSUME MsgInv, NEW c \in Cmds, UNCHANGED conf
  PROVE  /\ MarkPublished(c) =>
              /\ row' \in [Cmds -> {"none", "unpublished", "published"}]
              /\ claim' \in [Cmds -> {"none", "held", "expired"}]
              /\ retry' = retry
         /\ IncrementRetry({c}) =>
              /\ claim' \in [Cmds -> {"none", "held", "expired"}]
              /\ retry' \in [Cmds -> Nat]
<1>1. MarkPublished(c) => /\ row' \in [Cmds -> {"none", "unpublished", "published"}]
                          /\ claim' \in [Cmds -> {"none", "held", "expired"}]
                          /\ retry' = retry
  BY Zenon DEF MarkPublished, MsgInv, MsgType
<1>2. IncrementRetry({c}) => claim' \in [Cmds -> {"none", "held", "expired"}]
  BY Zenon DEF IncrementRetry, MsgInv, MsgType
<1>3. IncrementRetry({c}) => retry' \in [Cmds -> Nat]
  BY DEF IncrementRetry, MsgInv, MsgType
<1> QED BY Zenon, <1>1, <1>2, <1>3

\* A loop that processes has an envelope in hand.
LEMMA CurrentFact ==
  ASSUME MsgInv, NEW l \in Loops, loop[l] \notin Idle
  PROVE  /\ Current(l) \in Cmds /\ Current(l) \in Range(batch[l])
         /\ batch[l] \in Seq(Cmds) /\ batch[l] # <<>> /\ Distinct(batch[l])
<1>1. batch[l] \in Seq(Cmds) /\ batch[l] # <<>> /\ Distinct(batch[l])
  BY Zenon DEF MsgInv, MsgType, LoopInv
<1> QED BY Zenon, <1>1, TailFact DEF Current

\* An attempt, of the handler or of a Send, ends or is retried.
LEMMA AttemptTypes ==
  ASSUME MsgInv, NEW l \in Loops, loop[l] \in {"handle", "send"}, UNCHANGED <<conf, batch>>,
         \/ /\ tries' = [tries EXCEPT ![l] = 0]
            /\ \E s \in {"ack", "reject"} : loop' = [loop EXCEPT ![l] = s]
         \/ /\ tries[l] < Retries /\ tries' = [tries EXCEPT ![l] = tries[l] + 1]
            /\ loop' = loop
  PROVE  /\ tries' \in [Loops -> 0..Retries] /\ loop' \in [Loops -> Stages]
         /\ LoopInv'
<1>1. 0 \in 0..Retries /\ (tries[l] < Retries => tries[l] + 1 \in 0..Retries)
  BY MessengerAssumption DEF MsgInv, MsgType
<1>2. tries' \in [Loops -> 0..Retries]
  BY Zenon, <1>1 DEF MsgInv, MsgType
<1>3. loop' \in [Loops -> Stages]
  BY Zenon DEF MsgInv, MsgType, Stages
<1>4. LoopInv'
  <2> SUFFICES ASSUME NEW m \in Loops
               PROVE  /\ batch[m] = <<>> <=> loop'[m] \in Idle
                      /\ loop'[m] = "send" => conf.bus = "same"
                      /\ loop'[m] = "handle" => conf.bus = "plain"
                      /\ loop'[m] = "requeue" => Memory
                      /\ loop'[m] \notin {"handle", "send"} => tries'[m] = 0
    BY Zenon DEF MsgInv, LoopInv, Memory
  <2>1. CASE m = l /\ loop' # loop
    BY ZenonT(60), <2>1 DEF MsgInv, MsgType, LoopInv, Idle
  <2>2. CASE m # l \/ loop' = loop
    <3>1. loop'[m] = loop[m] /\ (tries'[m] = tries[m] \/ loop[m] \in {"handle", "send"})
      BY ZenonT(60), <2>2 DEF MsgInv, MsgType
    <3> QED BY ZenonT(60), <3>1 DEF MsgInv, LoopInv
  <2> QED BY Zenon, <2>1, <2>2
<1> QED BY Zenon, <1>2, <1>3, <1>4

\* processMessage.
LEMMA ProcessTypes ==
  ASSUME MsgInv, NEW l \in Loops, processMessage(l)
  PROVE  MsgInv'
<1>c. loop[l] \notin Idle /\ Current(l) \in Cmds
  <2>1. loop[l] \notin Idle
    BY Zenon DEF processMessage, DispatchReceived, HandleAny, SendAgain, Ack, Reject, Requeue, Idle
  <2> QED BY Zenon, <2>1, CurrentFact
<1>1. CASE DispatchReceived(l)
  <2>1. /\ UNCHANGED <<conf, call, ch, row, claim, retry, batch, tries, dropped, attempts, handled>>
        /\ loop[l] = "dispatch"
    BY Zenon, <1>1 DEF DispatchReceived, appVars, memVars, rowVars, histVars
  <2>2. PICK s \in {"reject", "handle", "send"} :
          /\ loop' = [loop EXCEPT ![l] = s]
          /\ s = "handle" => WorkerRoute(Current(l)) = "sync"
          /\ s = "send" => WorkerRoute(Current(l)) = "transport"
    BY Zenon, <1>1 DEF DispatchReceived, Goto
  <2>3. /\ s = "handle" => conf.bus = "plain"
        /\ s = "send" => conf.bus = "same"
    BY Zenon, <2>2, MessengerAssumption DEF WorkerRoute, MsgInv, MsgType
  <2>4. LoopInv' /\ loop' \in [Loops -> Stages]
    BY ZenonT(60), <2>1, <2>2, <2>3 DEF MsgInv, MsgType, LoopInv, Memory, Stages, Idle
  <2> QED BY Zenon, <2>1, <2>4 DEF MsgInv, MsgType
<1>2. CASE HandleAny(l)
  <2>1. /\ UNCHANGED <<conf, call, ch, row, claim, retry, batch, dropped>>
        /\ loop[l] = "handle"
        /\ Attempted(Current(l), 1) \/ Attempted(Current(l), Retries + 1)
        /\ Succeeded(Current(l)) \/ handled' = handled
    BY Zenon, <1>2 DEF HandleAny, appVars, memVars, rowVars
  <2>2. attempts' \in [Cmds -> Nat] /\ handled' \in [Cmds -> Nat]
    BY Zenon, <1>c, <2>1, AttemptFact, CountFact DEF MsgInv, MsgType
  <2>3. \/ /\ tries' = [tries EXCEPT ![l] = 0]
           /\ \E s \in {"ack", "reject"} : loop' = [loop EXCEPT ![l] = s]
        \/ /\ tries[l] < Retries /\ tries' = [tries EXCEPT ![l] = tries[l] + 1]
           /\ loop' = loop
    BY Zenon, <1>2 DEF HandleAny, Failed, Goto
  <2> QED BY Zenon, <2>1, <2>2, <2>3, AttemptTypes DEF MsgInv, MsgType
<1>3. CASE SendAgain(l)
  <2>1. /\ UNCHANGED <<conf, call, claim, retry, batch, dropped, attempts, handled>>
        /\ loop[l] = "send"
        /\ ch' = ch \/ ch' = Append(ch, Current(l))
        /\ row' = row \/ \E d \in conf.spare : row' = [row EXCEPT ![d] = "unpublished"]
    BY Zenon, <1>3 DEF SendAgain, InsertCopy, appVars, histVars
  <2>2. Append(ch, Current(l)) \in Seq(Cmds)
    BY Zenon, <1>c, AppendFact DEF MsgInv, MsgType
  <2>3. row' \in [Cmds -> {"none", "unpublished", "published"}]
    BY Zenon, <2>1 DEF MsgInv, MsgType
  <2>4. \/ /\ tries' = [tries EXCEPT ![l] = 0]
           /\ \E s \in {"ack", "reject"} : loop' = [loop EXCEPT ![l] = s]
        \/ /\ tries[l] < Retries /\ tries' = [tries EXCEPT ![l] = tries[l] + 1]
           /\ loop' = loop
    BY Zenon, <1>3 DEF SendAgain, Failed, Goto
  <2> QED BY Zenon, <2>1, <2>2, <2>3, <2>4, AttemptTypes DEF MsgInv, MsgType
<1>4. CASE Ack(l)
  <2>1. /\ UNCHANGED <<conf, call, ch, dropped, attempts, handled>>
        /\ loop[l] = "ack" /\ Continue(l)
        /\ UNCHANGED <<row, claim, retry>> \/ MarkPublished(Current(l))
    BY Zenon, <1>4 DEF Ack, Statement, appVars, memVars, histVars
  <2>2. /\ row' \in [Cmds -> {"none", "unpublished", "published"}]
        /\ claim' \in [Cmds -> {"none", "held", "expired"}]
        /\ retry' \in [Cmds -> Nat]
    BY Zenon, <1>c, <2>1, StatementTypes DEF MsgInv, MsgType
  <2> QED BY Zenon, <2>1, <2>2, ContinueTypes DEF MsgInv, MsgType
<1>5. CASE Reject(l)
  <2>1. /\ UNCHANGED <<conf, call, ch, row, attempts, handled>>
        /\ loop[l] = "reject"
        /\ UNCHANGED <<claim, retry>> \/ IncrementRetry({Current(l)})
        /\ dropped' = dropped \/ dropped' = dropped \cup {Current(l)}
        /\ \/ Continue(l)
           \/ Memory /\ loop' = [loop EXCEPT ![l] = "requeue"] /\ UNCHANGED <<batch, tries>>
    BY Zenon, <1>5 DEF Reject, Statement, Goto, appVars, histVars
  <2>2. /\ claim' \in [Cmds -> {"none", "held", "expired"}]
        /\ retry' \in [Cmds -> Nat]
    BY Zenon, <1>c, <2>1, StatementTypes DEF MsgInv, MsgType
  <2>3. dropped' \subseteq Cmds
    BY Zenon, <1>c, <2>1 DEF MsgInv, MsgType
  <2>4. /\ batch' \in [Loops -> Seq(Cmds)] /\ loop' \in [Loops -> Stages]
        /\ tries' = tries /\ LoopInv'
    <3>1. CASE Continue(l)
      BY Zenon, <2>1, <3>1, ContinueTypes
    <3>2. CASE Memory /\ loop' = [loop EXCEPT ![l] = "requeue"] /\ UNCHANGED <<batch, tries>>
      BY ZenonT(60), <2>1, <3>2 DEF MsgInv, MsgType, LoopInv, Memory, Stages, Idle
    <3> QED BY Zenon, <2>1, <3>1, <3>2
  <2> QED BY Zenon, <2>1, <2>2, <2>3, <2>4 DEF MsgInv, MsgType
<1>6. CASE Requeue(l)
  <2>1. /\ UNCHANGED <<conf, call, row, claim, retry, attempts, handled>>
        /\ loop[l] = "requeue"
        /\ ch' \in {ch, Append(ch, Current(l)), <<>>}
        /\ dropped' = dropped \/ dropped' = dropped \cup {Current(l)}
        /\ Continue(l) \/ Panic
    BY Zenon, <1>6 DEF Requeue, Panic, appVars, rowVars, histVars
  <2>2. Append(ch, Current(l)) \in Seq(Cmds) /\ <<>> \in Seq(Cmds)
    BY Zenon, <1>c, AppendFact, ShortFact DEF MsgInv, MsgType
  <2>3. ch' \in Seq(Cmds) /\ dropped' \subseteq Cmds
    BY Zenon, <1>c, <2>1, <2>2 DEF MsgInv, MsgType
  <2>4. /\ batch' \in [Loops -> Seq(Cmds)] /\ loop' \in [Loops -> Stages]
        /\ tries' \in [Loops -> 0..Retries] /\ LoopInv'
    <3>1. CASE Continue(l)
      BY Zenon, <2>1, <3>1, ContinueTypes DEF MsgInv, MsgType
    <3>2. CASE Panic
      <4>1. 0 \in 0..Retries
        BY MessengerAssumption
      <4>2. Distinct(<<>>) /\ Len(<<>>) <= 1
        BY DEF Distinct
      <4>3. \A m \in Loops : batch'[m] = <<>> /\ loop'[m] = "dead" /\ tries'[m] = 0
        BY Zenon, <3>2 DEF Panic
      <4>4. LoopInv'
        BY Zenon, <4>2, <4>3 DEF LoopInv, Idle
      <4> QED BY Zenon, <1>c, <2>2, <3>2, <4>1, <4>4 DEF Panic, Stages
    <3> QED BY Zenon, <2>1, <3>1, <3>2
  <2> QED BY Zenon, <2>1, <2>3, <2>4 DEF MsgInv, MsgType
<1> QED BY Zenon, <1>1, <1>2, <1>3, <1>4, <1>5, <1>6 DEF processMessage

\* Crashes, failing queries, and what other goroutines close and cancel.
LEMMA OtherTypes ==
  ASSUME MsgInv,
         \/ GetUnpublishedFails \/ CloseBus \/ CloseTransport \/ Cancel \/ RunReturn
         \/ \E l \in Loops : Crash(l)
         \/ UNCHANGED vars
  PROVE  MsgInv'
<1>1. CASE \E l \in Loops : Crash(l)
  <2>1. PICK l \in Loops : Crash(l)
    BY Zenon, <1>1
  <2>2. /\ UNCHANGED <<conf, call, ch, row, claim, retry, dropped, attempts, handled>>
        /\ Outbox
        /\ batch' = [batch EXCEPT ![l] = <<>>] /\ loop' = [loop EXCEPT ![l] = "get"]
        /\ tries' = [tries EXCEPT ![l] = 0]
    BY Zenon, <2>1 DEF Crash, Goto, appVars, memVars, rowVars, histVars
  <2>3. /\ batch' \in [Loops -> Seq(Cmds)] /\ loop' \in [Loops -> Stages]
        /\ tries' \in [Loops -> 0..Retries]
    BY <2>2, MessengerAssumption DEF MsgInv, MsgType, Stages
  <2>4. LoopInv'
    BY <2>2, MessengerAssumption DEF MsgInv, MsgType, LoopInv, Memory, Outbox, Distinct, Idle
  <2> QED BY Zenon, <2>2, <2>3, <2>4 DEF MsgInv, MsgType
<1>2. CASE GetUnpublishedFails
  <2>1. UNCHANGED <<conf, call, ch, row, retry, loop, batch, tries, dropped, attempts, handled>>
    BY Zenon, <1>2 DEF GetUnpublishedFails, appVars, memVars, loopVars, histVars
  <2>2. claim' \in [Cmds -> {"none", "held", "expired"}]
    BY Zenon, <1>2 DEF GetUnpublishedFails, Claimed, MsgInv, MsgType
  <2> QED BY Zenon, <2>1, <2>2, LoopFrame DEF MsgInv, MsgType
<1>3. CASE CloseBus \/ CloseTransport \/ Cancel \/ RunReturn \/ UNCHANGED vars
  <2>1. UNCHANGED <<conf, call, ch, row, claim, retry, loop, batch, tries, dropped, attempts, handled>>
    BY Zenon, <1>3 DEF CloseBus, CloseTransport, Cancel, RunReturn, vars, appVars, memVars, rowVars,
                loopVars, histVars
  <2> QED BY Zenon, <2>1, LoopFrame DEF MsgInv, MsgType
<1> QED BY Zenon, <1>1, <1>2, <1>3

\* Every step keeps the types.
LEMMA TypeStep ==
  ASSUME MsgInv, [Next]_vars
  PROVE  MsgInv'
  BY AppTypes, GetTypes, ProcessTypes, OtherTypes DEF Next, consumeLoop

LEMMA Typing == Spec => []MsgInv
  BY TypeInit, TypeStep, PTL DEF Spec

-----------------------------------------------------------------------------
\* Published entries

\* A worker without routes acks a command of the outbox only after its handler
\* succeeded.
PublishInv ==
  /\ PublishedIsHandled
  /\ Outbox /\ conf.bus = "plain" => \A l \in Loops : loop[l] = "ack" => handled[Current(l)] > 0

\* What a step has to leave alone.
LEMMA PublishFrame ==
  ASSUME MsgInv, PublishInv, UNCHANGED conf,
         \A c \in Cmds : handled'[c] >= handled[c] /\ handled'[c] \in Nat,
         conf.bus = "plain" =>
           \A c \in Cmds : row'[c] = "published" => row[c] = "published" \/ handled[c] > 0,
         \A l \in Loops : loop'[l] = "ack" => \/ loop[l] = "ack" /\ batch'[l] = batch[l]
                                              \/ handled'[Head(batch'[l])] > 0
                                              \/ ~Outbox \/ conf.bus # "plain"
  PROVE  PublishInv'
<1>0. handled \in [Cmds -> Nat]
  BY Zenon DEF MsgInv, MsgType
<1>1. \A c \in Cmds : handled[c] > 0 => handled'[c] > 0
  BY <1>0
<1>2. PublishedIsHandled'
  BY Zenon, <1>1 DEF PublishInv, PublishedIsHandled
<1>3. ASSUME Outbox, conf.bus = "plain", NEW l \in Loops, loop'[l] = "ack"
      PROVE  handled'[Head(batch'[l])] > 0
  <2>1. CASE loop[l] = "ack" /\ batch'[l] = batch[l]
    BY Zenon, <1>1, <1>3, <2>1, CurrentFact DEF PublishInv, Current, Idle
  <2> QED BY Zenon, <1>3, <2>1
<1> QED BY Zenon, <1>2, <1>3 DEF PublishInv, Outbox, Current

LEMMA PublishStep ==
  ASSUME MsgInv, PublishInv, [Next]_vars
  PROVE  PublishInv'
<1>t. handled \in [Cmds -> Nat] /\ loop \in [Loops -> Stages] /\ batch \in [Loops -> Seq(Cmds)]
      /\ row \in [Cmds -> {"none", "unpublished", "published"}] /\ conf \in Configs
  BY Zenon DEF MsgInv, MsgType
<1>n. \A c \in Cmds : handled[c] >= handled[c] /\ handled[c] \in Nat
  <2>1. \A n \in Nat : n >= n
    OBVIOUS
  <2> QED BY Zenon, <1>t, <2>1
<1>1. ASSUME NEW c \in Cmds, Dispatch(c)
      PROVE  PublishInv'
  <2>1. UNCHANGED <<conf, row, loop, batch>>
    BY Zenon, <1>1 DEF Dispatch, rowVars, loopVars
  <2>2. handled' = handled \/ Succeeded(c)
    BY Zenon, <1>1 DEF Dispatch, histVars
  <2>3. \A d \in Cmds : handled'[d] >= handled[d] /\ handled'[d] \in Nat
    BY <1>t, <2>2, CountFact
  <2> QED BY Zenon, <2>1, <2>3, PublishFrame
<1>2. ASSUME NEW c \in Cmds, Send(c) \/ Insert(c) \/ Expire(c)
      PROVE  PublishInv'
  <2>1. UNCHANGED <<conf, handled, loop, batch>>
    BY Zenon, <1>2 DEF Send, Insert, Expire, loopVars, histVars
  <2>2. \A d \in Cmds : row'[d] = "published" => row[d] = "published"
    BY Zenon, <1>t, <1>2 DEF Send, Insert, Expire, rowVars
  <2> QED BY Zenon, <1>n, <2>1, <2>2, PublishFrame
<1>3. ASSUME NEW l \in Loops, GetMemory(l) \/ GetUnpublished(l) \/ Stop(l) \/ DispatchReceived(l)
      PROVE  PublishInv'
  <2>1. UNCHANGED <<conf, handled, row>> /\ loop[l] # "ack"
    BY ZenonT(60), <1>3 DEF GetMemory, GetUnpublished, Stop, DispatchReceived, rowVars, histVars
  <2>2. \A m \in Loops : loop'[m] = "ack" => m # l /\ loop[m] = "ack"
    BY <1>t, <1>3, <2>1 DEF GetMemory, GetUnpublished, Stop, DispatchReceived, Goto
  <2>3. \A m \in Loops : m # l => batch'[m] = batch[m]
    BY ZenonT(60), <1>t, <1>3 DEF GetMemory, GetUnpublished, Stop, DispatchReceived
  <2> QED BY ZenonT(60), <1>n, <2>1, <2>2, <2>3, PublishFrame
<1>4. ASSUME NEW l \in Loops, HandleAny(l)
      PROVE  PublishInv'
  <2>1. UNCHANGED <<conf, row, batch>> /\ loop[l] = "handle"
    BY Zenon, <1>4 DEF HandleAny, rowVars
  <2>2. Current(l) \in Cmds
    BY Zenon, <2>1, CurrentFact DEF Idle
  <2>3. \/ Succeeded(Current(l)) /\ loop' = [loop EXCEPT ![l] = "ack"]
        \/ handled' = handled /\ (loop' = loop \/ loop' = [loop EXCEPT ![l] = "reject"])
    BY Zenon, <1>4 DEF HandleAny, Failed, Goto
  <2>4. CASE Succeeded(Current(l)) /\ loop' = [loop EXCEPT ![l] = "ack"]
    <3>0. \A d \in Cmds : handled'[d] = IF d = Current(l) THEN handled[d] + 1 ELSE handled[d]
      BY Zenon, <2>2, <2>4, AttemptFact, CountFact
    <3>1. /\ \A d \in Cmds : handled'[d] >= handled[d] /\ handled'[d] \in Nat
          /\ handled'[Current(l)] > 0
      BY <1>t, <2>2, <3>0
    <3>2. \A m \in Loops : loop'[m] = "ack" => m = l \/ loop[m] = "ack"
      BY Zenon, <1>t, <2>4
    <3> QED BY Zenon, <2>1, <3>1, <3>2, PublishFrame DEF Current
  <2>5. CASE handled' = handled /\ (loop' = loop \/ loop' = [loop EXCEPT ![l] = "reject"])
    <3>1. \A m \in Loops : loop'[m] = "ack" => loop[m] = "ack"
      BY Zenon, <1>t, <2>5
    <3> QED BY Zenon, <1>n, <2>1, <2>5, <3>1, PublishFrame
  <2> QED BY Zenon, <2>3, <2>4, <2>5
<1>5. ASSUME NEW l \in Loops, SendAgain(l)
      PROVE  PublishInv'
  <2>1. UNCHANGED <<conf, batch, handled>> /\ loop[l] = "send"
    BY Zenon, <1>5 DEF SendAgain, histVars
  <2>2. conf.bus # "plain"
    BY Zenon, <2>1 DEF MsgInv, LoopInv
  <2> QED BY Zenon, <1>n, <2>1, <2>2, PublishFrame
<1>6. ASSUME NEW l \in Loops, Ack(l) \/ Reject(l) \/ Requeue(l)
      PROVE  PublishInv'
  <2>1. UNCHANGED <<conf, handled>> /\ loop[l] \in {"ack", "reject", "requeue"}
    BY Zenon, <1>6 DEF Ack, Reject, Requeue, histVars
  <2>2. \A m \in Loops : loop'[m] = "ack" => loop[m] = "ack" /\ batch'[m] = batch[m]
    <3>1. CASE Continue(l)
      BY Zenon, <2>1, <3>1, ContinueTypes
    <3>2. CASE loop' = [loop EXCEPT ![l] = "requeue"] /\ batch' = batch
      BY Zenon, <1>t, <3>2
    <3>3. CASE Panic
      BY Zenon, <3>3 DEF Panic
    <3> QED BY Zenon, <1>6, <3>1, <3>2, <3>3 DEF Ack, Reject, Requeue, Goto
  <2>3. conf.bus = "plain" =>
          \A c \in Cmds : row'[c] = "published" => row[c] = "published" \/ handled[c] > 0
    <3>1. CASE Ack(l) /\ row' # row
      <4>1. Outbox /\ row' = [row EXCEPT ![Current(l)] = "published"] /\ loop[l] = "ack"
        BY Zenon, <3>1 DEF Ack, Statement, MarkPublished
      <4>2. conf.bus = "plain" => handled[Current(l)] > 0
        BY Zenon, <4>1 DEF PublishInv
      <4> QED BY Zenon, <1>t, <4>1, <4>2
    <3>2. CASE row' = row
      BY Zenon, <3>2
    <3> QED BY Zenon, <1>6, <3>1, <3>2 DEF Reject, Requeue, Statement, rowVars
  <2> QED BY Zenon, <1>n, <2>1, <2>2, <2>3, PublishFrame
<1>7. ASSUME NEW l \in Loops, Crash(l)
      PROVE  PublishInv'
  <2>1. UNCHANGED <<conf, handled, row>>
    BY Zenon, <1>7 DEF Crash, rowVars, histVars
  <2>2. \A m \in Loops : loop'[m] = "ack" => loop[m] = "ack" /\ batch'[m] = batch[m]
    BY Zenon, <1>t, <1>7 DEF Crash, Goto
  <2> QED BY Zenon, <1>n, <2>1, <2>2, PublishFrame
<1>8. CASE \/ GetUnpublishedFails \/ CloseBus \/ CloseTransport \/ Cancel \/ RunReturn
           \/ UNCHANGED vars
  <2>1. UNCHANGED <<conf, handled, row, loop, batch>>
    BY Zenon, <1>8 DEF GetUnpublishedFails, CloseBus, CloseTransport, Cancel, RunReturn, vars,
                rowVars, loopVars, histVars
  <2> QED BY Zenon, <1>n, <2>1, PublishFrame
<1> QED BY ZenonT(60), <1>1, <1>2, <1>3, <1>4, <1>5, <1>6, <1>7, <1>8 DEF Next, consumeLoop, processMessage

\* On a worker without routes an outbox entry is marked published only after its
\* handler succeeded, however the loops interleave, claims expire, statements fail
\* and workers crash.
THEOREM PublishedIsHandledAlways == Spec => []PublishedIsHandled
<1>1. Init => PublishInv
  BY Zenon DEF Init, PublishInv, PublishedIsHandled
<1>2. PublishInv => PublishedIsHandled
  BY Zenon DEF PublishInv
<1> QED BY <1>1, <1>2, Typing, PublishStep, PTL DEF Spec

-----------------------------------------------------------------------------
\* Claims

\* An entry in a loop's hands is claimed, and in no other loop's hands, unless
\* its claim expired there.
ClaimInv ==
  Outbox => \A c \in Cmds \ slow, l \in Loops : c \in Range(batch[l]) =>
    claim[c] = "held" /\ \A m \in Loops : c \in Range(batch[m]) => m = l

\* A step that takes no entry, and releases none that is still in a loop's hands.
LEMMA ClaimFrame ==
  ASSUME ClaimInv, UNCHANGED conf, slow \subseteq slow',
         \A l \in Loops : Range(batch'[l]) \subseteq Range(batch[l]),
         Outbox => \A c \in Cmds \ slow' :
           \/ claim[c] = "held" => claim'[c] = "held"
           \/ \A l \in Loops : c \notin Range(batch'[l])
  PROVE  ClaimInv'
  BY DEF ClaimInv, Outbox

LEMMA ClaimStep ==
  ASSUME MsgInv, ClaimInv, [Next]_vars
  PROVE  ClaimInv'
<1>t. /\ loop \in [Loops -> Stages] /\ batch \in [Loops -> Seq(Cmds)]
      /\ claim \in [Cmds -> {"none", "held", "expired"}] /\ conf \in Configs
  BY Zenon DEF MsgInv, MsgType
<1>1. ASSUME NEW c \in Cmds, Dispatch(c) \/ Send(c) \/ Insert(c)
      PROVE  ClaimInv'
  <2>1. UNCHANGED <<conf, slow, claim, batch>>
    BY Zenon, <1>1 DEF Dispatch, Send, Insert, rowVars, loopVars
  <2> QED BY Zenon, <2>1, ClaimFrame
<1>2. ASSUME NEW c \in Cmds, Expire(c)
      PROVE  ClaimInv'
  <2>1. /\ UNCHANGED <<conf, batch>> /\ slow \subseteq slow'
        /\ claim' = [claim EXCEPT ![c] = "expired"]
        /\ InHand(c) # {} => c \in slow'
    BY Zenon, <1>2 DEF Expire, loopVars
  <2>2. c \notin slow' => \A l \in Loops : c \notin Range(batch'[l])
    BY Zenon, <2>1 DEF InHand
  <2>3. \A d \in Cmds : d # c => claim'[d] = claim[d]
    BY Zenon, <1>t, <2>1
  <2> QED BY Zenon, <2>1, <2>2, <2>3, ClaimFrame
<1>3. ASSUME NEW l \in Loops,
             \/ GetMemory(l) \/ Stop(l) \/ DispatchReceived(l) \/ HandleAny(l) \/ SendAgain(l)
      PROVE  ClaimInv'
  <2>1. CASE GetMemory(l)
    <3>1. ~Outbox /\ UNCHANGED conf
      BY Zenon, <2>1 DEF GetMemory, Memory, Outbox
    <3> QED BY Zenon, <3>1 DEF ClaimInv, Outbox
  <2>2. CASE ~GetMemory(l)
    <3>1. UNCHANGED <<conf, slow, claim, batch>>
      BY Zenon, <1>3, <2>2 DEF Stop, DispatchReceived, HandleAny, SendAgain, rowVars
    <3> QED BY Zenon, <3>1, ClaimFrame
  <2> QED BY Zenon, <2>1, <2>2
<1>4. ASSUME NEW l \in Loops, GetUnpublished(l)
      PROVE  ClaimInv'
  <2> DEFINE B    == Oldest(Eligible)
             good == B \ conf.garbled
             bad  == B \cap conf.garbled
  <2>1. UNCHANGED <<conf, slow>> /\ loop[l] = "get" /\ Outbox
    BY Zenon, <1>4 DEF GetUnpublished
  <2>2. PICK s \in Bijection(1..Cardinality(good), good) : batch' = [batch EXCEPT ![l] = s]
    BY Zenon, <1>4 DEF GetUnpublished
  <2>3. good \subseteq Cmds /\ IsFiniteSet(good) /\ \A c \in B : claim[c] # "held"
    BY Zenon, EligibleFact, FS_Subset, MessengerAssumption
  <2>4. Range(s) \subseteq good
    BY Zenon, <2>3, RowsFact
  <2>5. \A c \in Cmds : /\ c \in good => claim'[c] = "held"
                        /\ c \notin B => claim'[c] = claim[c]
    BY Zenon, <1>4 DEF GetUnpublished, Claimed
  <2>6. \A c \in B : c \in slow \/ \A m \in Loops : c \notin Range(batch[m])
    BY Zenon, <2>1, <2>3, EligibleFact DEF ClaimInv
  <2>7. \A m \in Loops : IF m = l THEN Range(batch'[m]) \subseteq good
                                   ELSE batch'[m] = batch[m]
    BY Zenon, <1>t, <2>2, <2>4
  <2>8. ASSUME NEW c \in Cmds \ slow', NEW m \in Loops, c \in Range(batch'[m])
        PROVE  claim'[c] = "held" /\ \A n \in Loops : c \in Range(batch'[n]) => n = m
    <3>1. CASE m = l
      BY Zenon, <2>1, <2>5, <2>6, <2>7, <2>8, <3>1
    <3>2. CASE m # l
      <4>1. c \in Range(batch[m]) /\ c \in Cmds \ slow
        BY Zenon, <2>1, <2>7, <2>8, <3>2
      <4>2. c \notin B
        BY Zenon, <2>6, <4>1
      <4> QED BY Zenon, <2>1, <2>5, <2>7, <3>2, <4>1, <4>2 DEF ClaimInv
    <3> QED BY Zenon, <3>1, <3>2
  <2> QED BY Zenon, <2>8 DEF ClaimInv
<1>5. ASSUME NEW l \in Loops, Ack(l) \/ (Reject(l) /\ Outbox)
      PROVE  ClaimInv'
  <2>1. /\ UNCHANGED <<conf, slow>> /\ loop[l] \in {"ack", "reject"} /\ Continue(l)
        /\ \/ claim' = claim
           \/ Outbox /\ claim' = [c \in Cmds |-> IF c \in {Current(l)} THEN "none" ELSE claim[c]]
           \/ Outbox /\ claim' = [claim EXCEPT ![Current(l)] = "none"]
    BY Zenon, <1>5 DEF Ack, Reject, Statement, MarkPublished, IncrementRetry, Memory, Outbox
  <2>2. /\ \A m \in Loops \ {l} : batch'[m] = batch[m]
        /\ Range(batch'[l]) = Range(batch[l]) \ {Current(l)}
    BY Zenon, <2>1, ContinueTypes
  <2>3. Current(l) \in Cmds /\ Current(l) \in Range(batch[l])
    BY Zenon, <2>1, CurrentFact DEF Idle
  <2>4. \A c \in Cmds : c # Current(l) => claim'[c] = claim[c]
    BY Zenon, <1>t, <2>1
  <2>5. Outbox /\ Current(l) \notin slow => \A m \in Loops : Current(l) \notin Range(batch'[m])
    BY Zenon, <2>2, <2>3 DEF ClaimInv
  <2> QED BY Zenon, <2>1, <2>2, <2>4, <2>5, ClaimFrame
<1>9. ASSUME NEW l \in Loops, (Reject(l) /\ ~Outbox) \/ Requeue(l)
      PROVE  ClaimInv'
  <2>1. UNCHANGED conf
    BY Zenon, <1>9 DEF Reject, Requeue
  <2>2. ~Outbox
    BY Zenon, <1>9 DEF Requeue, MsgInv, LoopInv, Memory, Outbox
  <2> QED BY Zenon, <2>1, <2>2 DEF ClaimInv, Outbox
<1>6. ASSUME NEW l \in Loops, Crash(l)
      PROVE  ClaimInv'
  <2>1. UNCHANGED <<conf, slow, claim>> /\ batch' = [batch EXCEPT ![l] = <<>>]
    BY Zenon, <1>6 DEF Crash, rowVars
  <2>2. \A m \in Loops : Range(batch'[m]) \subseteq Range(batch[m])
    BY <1>t, <2>1 DEF Range
  <2> QED BY Zenon, <2>1, <2>2, ClaimFrame
<1>7. CASE GetUnpublishedFails
  <2>1. UNCHANGED <<conf, slow, batch>> /\ claim' \in {claim, Claimed(Oldest(Eligible))}
    BY Zenon, <1>7 DEF GetUnpublishedFails, loopVars
  <2>2. \A c \in Cmds : claim[c] = "held" => claim'[c] = "held"
    BY Zenon, <2>1 DEF Claimed
  <2> QED BY Zenon, <2>1, <2>2, ClaimFrame
<1>8. CASE CloseBus \/ CloseTransport \/ Cancel \/ RunReturn \/ UNCHANGED vars
  <2>1. UNCHANGED <<conf, slow, claim, batch>>
    BY Zenon, <1>8 DEF CloseBus, CloseTransport, Cancel, RunReturn, vars, rowVars, loopVars
  <2> QED BY Zenon, <2>1, ClaimFrame
<1> QED BY ZenonT(60), <1>1, <1>2, <1>3, <1>4, <1>5, <1>6, <1>7, <1>8, <1>9 DEF Next, consumeLoop, processMessage

\* Two loops never hold the same outbox entry, as long as no handler outlasts its
\* claim, however claims, crashes and failing queries interleave.
THEOREM NoSharedEntryAlways == Spec => []NoSharedEntry
<1>1. Init => ClaimInv
  BY DEF Init, ClaimInv, Range
<1>2. ClaimInv => NoSharedEntry
  <2> SUFFICES ASSUME ClaimInv, Outbox, NEW c \in Cmds \ slow
               PROVE  Cardinality(InHand(c)) <= 1
    BY Zenon DEF NoSharedEntry
  <2>1. CASE InHand(c) = {}
    BY <2>1, FS_EmptySet
  <2>2. CASE InHand(c) # {}
    <3>1. PICK l \in Loops : InHand(c) = {l}
      BY <2>2 DEF ClaimInv, InHand
    <3>2. Cardinality({l}) = 1
      BY Zenon, FS_Singleton
    <3> QED BY <3>1, <3>2
  <2> QED BY Zenon, <2>1, <2>2
<1> QED BY <1>1, <1>2, Typing, ClaimStep, PTL DEF Spec

-----------------------------------------------------------------------------
\* The memory transport

\* In the channel, and in the hands of a loop that still has to process it.
Queued(c)   == c \in Range(ch)
Holds(l, c) == c \in Range(batch[l]) /\ loop[l] # "ack"

\* A command Dispatch reported as Async is at exactly one place; any other is
\* at none, except that a synchronous one may have been handled.
Settled(c) ==
  /\ \A l, m \in Loops : Holds(l, c) /\ Holds(m, c) => l = m
  /\ call[c] \in {"send", "async"} => c \notin conf.local
  /\ call[c] # "async" =>
       /\ ~Queued(c) /\ c \notin dropped
       /\ \A l \in Loops : c \notin Range(batch[l])
       /\ c \notin conf.local => handled[c] = 0
  /\ call[c] = "async" =>
       \/ Queued(c) /\ (\A l \in Loops : ~Holds(l, c)) /\ handled[c] = 0 /\ c \notin dropped
       \/ ~Queued(c) /\ (\E l \in Loops : Holds(l, c)) /\ handled[c] = 0 /\ c \notin dropped
       \/ ~Queued(c) /\ (\A l \in Loops : ~Holds(l, c)) /\ handled[c] = 1 /\ c \notin dropped
       \/ ~Queued(c) /\ (\A l \in Loops : ~Holds(l, c)) /\ handled[c] = 0 /\ c \in dropped

MemState == Memory => Distinct(ch) /\ \A c \in Cmds : Settled(c)

MemInv == run # "crashed" => MemState

\* A step that leaves a command where it is.
Same(c) ==
  /\ call'[c] = call[c] /\ handled'[c] = handled[c]
  /\ c \in dropped' <=> c \in dropped
  /\ c \in Range(ch') <=> c \in Range(ch)
  /\ \A l \in Loops : c \in Range(batch'[l]) => c \in Range(batch[l])
  /\ \A l \in Loops : c \in Range(batch'[l]) /\ loop'[l] # "ack" <=> Holds(l, c)

LEMMA SettledFrame ==
  ASSUME NEW c \in Cmds, Settled(c), Same(c), UNCHANGED conf
  PROVE  Settled(c)'
<1>1. \A l \in Loops : Holds(l, c)' <=> Holds(l, c)
  BY Zenon DEF Same, Holds
<1>2. \A l \in Loops : c \in Range(batch'[l]) => c \in Range(batch[l])
  BY Zenon DEF Same
<1>3. \A l, m \in Loops : Holds(l, c)' /\ Holds(m, c)' => l = m
  BY Zenon, <1>1 DEF Settled
<1>4. /\ call'[c] = call[c] /\ handled'[c] = handled[c]
      /\ c \in dropped' <=> c \in dropped
      /\ Queued(c)' <=> Queued(c)
  BY ZenonT(60) DEF Same, Queued
<1>5. call'[c] \in {"send", "async"} => c \notin conf'.local
  BY Zenon, <1>4 DEF Settled
<1>6. call'[c] # "async" =>
        /\ ~Queued(c)' /\ c \notin dropped'
        /\ \A l \in Loops : c \notin Range(batch'[l])
        /\ c \notin conf'.local => handled'[c] = 0
  BY Zenon, <1>2, <1>4 DEF Settled
<1>7. CASE call[c] = "async"
  <2>1. CASE Queued(c) /\ (\A l \in Loops : ~Holds(l, c)) /\ handled[c] = 0 /\ c \notin dropped
    BY ZenonT(60), <1>1, <1>3, <1>4, <1>5, <1>7, <2>1 DEF Settled
  <2>2. CASE ~Queued(c) /\ (\E l \in Loops : Holds(l, c)) /\ handled[c] = 0 /\ c \notin dropped
    BY ZenonT(60), <1>1, <1>3, <1>4, <1>5, <1>7, <2>2 DEF Settled
  <2>3. CASE ~Queued(c) /\ (\A l \in Loops : ~Holds(l, c)) /\ handled[c] = 1 /\ c \notin dropped
    BY ZenonT(60), <1>1, <1>3, <1>4, <1>5, <1>7, <2>3 DEF Settled
  <2>4. CASE ~Queued(c) /\ (\A l \in Loops : ~Holds(l, c)) /\ handled[c] = 0 /\ c \in dropped
    BY ZenonT(60), <1>1, <1>3, <1>4, <1>5, <1>7, <2>4 DEF Settled
  <2> QED BY ZenonT(60), <1>7, <2>1, <2>2, <2>3, <2>4 DEF Settled
<1>8. CASE call[c] # "async"
  BY ZenonT(60), <1>3, <1>4, <1>5, <1>6, <1>8 DEF Settled
<1> QED BY Zenon, <1>7, <1>8

\* A step that moves at most one command.
LEMMA MemFrame ==
  ASSUME MemState, UNCHANGED conf, NEW c \in Cmds,
         Memory => Distinct(ch') /\ \A d \in Cmds \ {c} : Same(d),
         Memory => Settled(c)'
  PROVE  MemState'
  BY Zenon, SettledFrame DEF MemState, Memory

LEMMA MemSame ==
  ASSUME MemState, UNCHANGED conf,
         Memory => ch' = ch /\ \A d \in Cmds : Same(d)
  PROVE  MemState'
  BY Zenon, SettledFrame DEF MemState, Memory, Distinct

\* A loop on the memory transport has at most one envelope.
LEMMA OneEnvelope ==
  ASSUME MsgInv, Memory, NEW l \in Loops
  PROVE  /\ loop[l] \in Idle => Range(batch[l]) = {}
         /\ loop[l] \notin Idle => Range(batch[l]) = {Current(l)}
<1>1. batch[l] \in Seq(Cmds) /\ Len(batch[l]) <= 1
      /\ (batch[l] = <<>> <=> loop[l] \in Idle)
  BY Zenon DEF MsgInv, MsgType, LoopInv
<1>2. CASE batch[l] = <<>>
  BY <1>1, <1>2 DEF Range
<1>3. CASE batch[l] # <<>>
  <2>1. DOMAIN batch[l] = {1} /\ Head(batch[l]) = batch[l][1]
    BY <1>1, <1>3
  <2> QED BY Zenon, <1>1, <1>3, <2>1 DEF Range, Current
<1> QED BY Zenon, <1>2, <1>3

\* The application's side.
LEMMA MemApp ==
  ASSUME MsgInv, MemState, NEW c \in Cmds, Dispatch(c) \/ Send(c) \/ Insert(c) \/ Expire(c)
  PROVE  MemState'
<1>t. call \in [Cmds -> Calls] /\ handled \in [Cmds -> Nat] /\ ch \in Seq(Cmds)
  BY Zenon DEF MsgInv, MsgType
<1>1. CASE Dispatch(c)
  <2>1. UNCHANGED <<conf, ch, loop, batch, dropped>>
    BY Zenon, <1>1 DEF Dispatch, memVars, loopVars
  <2>2. PICK r \in {"failed", "done", "send"} : call' = [call EXCEPT ![c] = r]
    BY Zenon, <1>1 DEF Dispatch, Returned
  <2>3. call[c] = "new" /\ (r = "send" => c \notin conf.local)
    BY Zenon, <1>t, <1>1, <2>2 DEF Dispatch, Returned, Route, Calls
  <2>4. \A d \in Cmds : d # c => call'[d] = call[d] /\ handled'[d] = handled[d]
    BY Zenon, <1>t, <1>1, <2>2 DEF Dispatch, Succeeded, histVars
  <2>5. c \notin conf.local => handled'[c] = handled[c]
    BY Zenon, <1>1 DEF Dispatch, Route, histVars
  <2>6. \A d \in Cmds : d # c => Same(d)
    BY Zenon, <2>1, <2>4 DEF Same, Queued, Holds
  <2>7. Memory => Distinct(ch')
    BY Zenon, <2>1 DEF MemState, Distinct
  <2>8. Memory => Settled(c)'
    BY ZenonT(60), <1>t, <2>1, <2>2, <2>3, <2>5 DEF MemState, Settled, Queued, Holds
  <2> QED BY Zenon, <2>1, <2>6, <2>7, <2>8, MemFrame
<1>2. CASE Send(c)
  <2>1. UNCHANGED <<conf, loop, batch, dropped, handled>> /\ Memory /\ call[c] = "send"
    BY Zenon, <1>2 DEF Send, loopVars, histVars
  <2>2. \A d \in Cmds : d # c => call'[d] = call[d]
    BY Zenon, <1>t, <1>2 DEF Send, Returned
  <2>3. /\ Range(Append(ch, c)) = Range(ch) \cup {c}
        /\ Distinct(ch) /\ c \notin Range(ch) => Distinct(Append(ch, c))
    BY <1>t, AppendFact
  <2>4. Settled(c) /\ Distinct(ch)
    BY Zenon, <2>1 DEF MemState
  <2>5. c \notin Range(ch)
    BY ZenonT(60), <2>1, <2>4 DEF Settled, Queued
  <2>6. \/ ch' = Append(ch, c) /\ call'[c] = "async"
        \/ ch' = ch /\ call'[c] = "failed"
    BY Zenon, <1>t, <1>2 DEF Send, Returned
  <2>7. Distinct(ch') /\ \A d \in Cmds \ {c} : Same(d)
    BY Zenon, <2>1, <2>2, <2>3, <2>4, <2>5, <2>6 DEF Same, Queued, Holds
  <2>8. Settled(c)'
    BY Zenon, <2>1, <2>3, <2>4, <2>6 DEF Settled, Queued, Holds
  <2> QED BY Zenon, <2>1, <2>7, <2>8, MemFrame
<1>3. CASE Insert(c)
  <2>1. ~Memory /\ UNCHANGED conf
    BY Zenon, <1>3 DEF Insert, Memory, Outbox
  <2> QED BY Zenon, <2>1, MemSame
<1>4. CASE Expire(c)
  <2>1. UNCHANGED <<conf, call, ch, loop, batch, dropped, handled>>
    BY Zenon, <1>4 DEF Expire, appVars, memVars, loopVars, histVars
  <2> QED BY Zenon, <2>1, MemSame DEF Same, Queued, Holds
<1> QED BY Zenon, <1>1, <1>2, <1>3, <1>4

\* The worker's side: Get.
LEMMA MemGet ==
  ASSUME MsgInv, MemState, NEW l \in Loops, GetMemory(l) \/ GetUnpublished(l) \/ Stop(l)
  PROVE  MemState'
<1>t. loop \in [Loops -> Stages] /\ batch \in [Loops -> Seq(Cmds)] /\ ch \in Seq(Cmds)
  BY Zenon DEF MsgInv, MsgType
<1>1. CASE GetMemory(l)
  <2>1. /\ UNCHANGED <<conf, call, dropped, handled>> /\ Memory
        /\ loop[l] = "get" /\ ch # <<>> /\ ch' = Tail(ch)
        /\ batch' = [batch EXCEPT ![l] = <<Head(ch)>>] /\ loop' = [loop EXCEPT ![l] = "dispatch"]
    BY Zenon, <1>1 DEF GetMemory, Goto, appVars, histVars
  <2>c. PICK c \in Cmds : c = Head(ch)
    BY <1>t, <2>1
  <2>2. /\ Distinct(Tail(ch)) /\ c \in Cmds /\ c \in Range(ch)
        /\ Range(Tail(ch)) = Range(ch) \ {c}
    BY Zenon, <1>t, <2>1, <2>c, TailFact DEF MemState
  <2>3. Range(batch[l]) = {} /\ Range(<<c>>) = {c}
    BY Zenon, <2>1, <2>2, OneEnvelope, ShortFact DEF Idle
  <2>4. \A m \in Loops : IF m = l THEN Range(batch'[m]) = {c} /\ loop'[m] = "dispatch"
                                   ELSE batch'[m] = batch[m] /\ loop'[m] = loop[m]
    BY Zenon, <1>t, <2>1, <2>c, <2>3
  <2>5. Settled(c) /\ call[c] = "async"
    BY ZenonT(60), <2>1, <2>2 DEF MemState, Settled, Queued
  <2>6. (\A m \in Loops : ~Holds(m, c)) /\ handled[c] = 0 /\ c \notin dropped
    BY Zenon, <2>2, <2>5 DEF Settled, Queued
  <2>7. \A d \in Cmds \ {c} : Same(d)
    BY Zenon, <2>1, <2>2, <2>3, <2>4 DEF Same, Queued, Holds
  <2>8. \A m \in Loops : Holds(m, c)' <=> m = l
    BY Zenon, <2>4, <2>6 DEF Holds
  <2>9. Settled(c)'
    BY ZenonT(60), <2>1, <2>2, <2>5, <2>6, <2>8 DEF Settled, Queued
  <2> QED BY Zenon, <2>1, <2>2, <2>7, <2>9, MemFrame
<1>2. CASE GetUnpublished(l)
  <2>1. ~Memory /\ UNCHANGED conf
    BY Zenon, <1>2 DEF GetUnpublished, Memory, Outbox
  <2> QED BY Zenon, <2>1, MemSame
<1>3. CASE Stop(l)
  <2>1. /\ UNCHANGED <<conf, call, ch, batch, dropped, handled>>
        /\ loop[l] = "get" /\ loop' = [loop EXCEPT ![l] = "stopped"]
    BY Zenon, <1>3 DEF Stop, Goto, appVars, memVars, histVars
  <2>2. ASSUME Memory, NEW d \in Cmds PROVE Same(d)
    BY Zenon, <1>t, <2>1 DEF Same, Holds
  <2> QED BY Zenon, <2>1, <2>2, MemSame
<1> QED BY Zenon, <1>1, <1>2, <1>3

\* The worker's side: processMessage.
LEMMA MemProcess ==
  ASSUME MsgInv, MemState, NEW l \in Loops, processMessage(l), run' # "crashed"
  PROVE  MemState'
<1>u. UNCHANGED conf
  BY Zenon DEF processMessage, DispatchReceived, HandleAny, SendAgain, Ack, Reject, Requeue
<1> SUFFICES ASSUME Memory PROVE MemState'
  BY Zenon, <1>u DEF MemState, Memory
<1>t. /\ loop \in [Loops -> Stages] /\ batch \in [Loops -> Seq(Cmds)] /\ ch \in Seq(Cmds)
      /\ handled \in [Cmds -> Nat] /\ call \in [Cmds -> Calls]
  BY Zenon DEF MsgInv, MsgType
<1>p. loop[l] \notin Idle
  BY Zenon DEF processMessage, DispatchReceived, HandleAny, SendAgain, Ack, Reject, Requeue, Idle
<1>c. PICK c \in Cmds : c = Current(l)
  BY Zenon, <1>p, CurrentFact
<1>b. Range(batch[l]) = {c} /\ Distinct(ch) /\ Settled(c) /\ call[c] = "async"
  BY ZenonT(60), <1>p, <1>c, OneEnvelope DEF MemState, Settled
<1>h. loop[l] # "ack" =>
        /\ Holds(l, c) /\ ~Queued(c) /\ handled[c] = 0 /\ c \notin dropped /\ c \notin conf.local
        /\ \A m \in Loops : Holds(m, c) => m = l
  BY ZenonT(60), <1>b DEF Settled, Holds
<1>a. /\ Range(Append(ch, c)) = Range(ch) \cup {c}
      /\ ~Queued(c) => Distinct(Append(ch, c))
  BY <1>t, <1>b, AppendFact DEF Queued
<1>1. CASE DispatchReceived(l)
  <2>1. /\ UNCHANGED <<call, ch, batch, dropped, handled>> /\ loop[l] = "dispatch"
        /\ \E s \in {"reject", "handle", "send"} : loop' = [loop EXCEPT ![l] = s]
    BY Zenon, <1>1 DEF DispatchReceived, Goto, appVars, memVars, histVars
  <2>2. ASSUME NEW d \in Cmds PROVE Same(d)
    BY Zenon, <1>t, <2>1 DEF Same, Holds
  <2> QED BY Zenon, <1>u, <2>1, <2>2, MemSame
<1>2. CASE HandleAny(l)
  <2>1. UNCHANGED <<call, ch, batch, dropped>> /\ loop[l] = "handle"
    BY Zenon, <1>2 DEF HandleAny, appVars, memVars
  <2>2. \/ Succeeded(c) /\ loop' = [loop EXCEPT ![l] = "ack"]
        \/ handled' = handled /\ (loop' = loop \/ loop' = [loop EXCEPT ![l] = "reject"])
    BY Zenon, <1>2, <1>c DEF HandleAny, Failed, Goto
  <2>3. CASE Succeeded(c) /\ loop' = [loop EXCEPT ![l] = "ack"]
    <3>1. \A d \in Cmds : handled'[d] = IF d = c THEN 1 ELSE handled[d]
      BY <1>t, <1>h, <2>1, <2>3 DEF Succeeded
    <3>2. \A m \in Loops : loop'[m] = IF m = l THEN "ack" ELSE loop[m]
      BY Zenon, <1>t, <2>3
    <3>3. \A d \in Cmds \ {c} : Same(d)
      BY ZenonT(60), <1>b, <2>1, <3>1, <3>2 DEF Same, Holds
    <3>4. \A m \in Loops : ~(Holds(m, c)')
      BY Zenon, <1>h, <2>1, <3>2 DEF Holds
    <3>5. Settled(c)'
      BY ZenonT(60), <1>u, <1>b, <1>h, <2>1, <3>1, <3>4 DEF Settled, Queued
    <3> QED BY ZenonT(60), <1>u, <1>b, <2>1, <3>3, <3>5, MemFrame
  <2>4. CASE handled' = handled /\ (loop' = loop \/ loop' = [loop EXCEPT ![l] = "reject"])
    <3>1. ASSUME NEW d \in Cmds PROVE Same(d)
      BY Zenon, <1>t, <2>1, <2>4 DEF Same, Holds
    <3> QED BY Zenon, <1>u, <2>1, <3>1, MemSame
  <2> QED BY Zenon, <2>2, <2>3, <2>4
<1>3. CASE SendAgain(l)
  <2>1. UNCHANGED <<call, batch, dropped, handled>> /\ loop[l] = "send"
    BY Zenon, <1>3 DEF SendAgain, appVars, histVars
  <2>2. \/ ch' = Append(ch, c) /\ loop' = [loop EXCEPT ![l] = "ack"]
        \/ ch' = ch /\ loop' = [loop EXCEPT ![l] = "reject"]
    BY Zenon, <1>3, <1>c DEF SendAgain, Goto, Memory, Outbox
  <2>3. CASE ch' = Append(ch, c) /\ loop' = [loop EXCEPT ![l] = "ack"]
    <3>2. \A m \in Loops : loop'[m] = IF m = l THEN "ack" ELSE loop[m]
      BY Zenon, <1>t, <2>3
    <3>3. \A d \in Cmds \ {c} : Same(d)
      BY ZenonT(60), <1>a, <1>b, <2>1, <2>3, <3>2 DEF Same, Holds
    <3>4. \A m \in Loops : ~(Holds(m, c)')
      BY Zenon, <1>h, <2>1, <3>2 DEF Holds
    <3>5. Queued(c)'
      BY Zenon, <1>a, <2>3 DEF Queued
    <3>6. Settled(c)'
      BY ZenonT(60), <1>u, <1>b, <1>h, <2>1, <3>4, <3>5 DEF Settled
    <3> QED BY ZenonT(60), <1>u, <1>a, <1>h, <2>1, <2>3, <3>3, <3>6, MemFrame
  <2>4. CASE ch' = ch /\ loop' = [loop EXCEPT ![l] = "reject"]
    <3>1. ASSUME NEW d \in Cmds PROVE Same(d)
      BY Zenon, <1>t, <2>1, <2>4 DEF Same, Holds
    <3> QED BY Zenon, <1>u, <2>1, <2>4, <3>1, MemSame
  <2> QED BY Zenon, <2>2, <2>3, <2>4
<1>4. CASE Ack(l)
  <2>1. UNCHANGED <<call, ch, dropped, handled>> /\ loop[l] = "ack" /\ Continue(l)
    BY Zenon, <1>4 DEF Ack, appVars, memVars, histVars
  <2>2. /\ \A m \in Loops \ {l} : batch'[m] = batch[m] /\ loop'[m] = loop[m]
        /\ Range(batch'[l]) = Range(batch[l]) \ {Current(l)}
    BY Zenon, <1>u, <2>1, ContinueTypes
  <2>3. Range(batch'[l]) = {}
    BY Zenon, <1>b, <1>c, <2>2
  <2>4. ASSUME NEW d \in Cmds PROVE Same(d)
    BY ZenonT(60), <2>1, <2>2, <2>3 DEF Same, Holds
  <2> QED BY Zenon, <1>u, <2>1, <2>4, MemSame
<1>5. CASE Reject(l) /\ ~closed
  <2>1. /\ UNCHANGED <<call, ch, batch, dropped, handled>> /\ loop[l] = "reject"
        /\ loop' = [loop EXCEPT ![l] = "requeue"]
    BY Zenon, <1>5 DEF Reject, Goto, appVars, histVars, Memory, Outbox
  <2>2. ASSUME NEW d \in Cmds PROVE Same(d)
    BY Zenon, <1>t, <2>1 DEF Same, Holds
  <2> QED BY Zenon, <1>u, <2>1, <2>2, MemSame
<1>6. CASE (Reject(l) /\ closed) \/ Requeue(l)
  <2>1. /\ UNCHANGED <<call, handled>> /\ loop[l] \in {"reject", "requeue"} /\ Continue(l)
        /\ \/ ch' = Append(ch, c) /\ dropped' = dropped
           \/ ch' = ch /\ dropped' = dropped \cup {c}
    BY Zenon, <1>6, <1>c DEF Reject, Requeue, Panic, appVars, histVars, Memory, Outbox
  <2>2. /\ \A m \in Loops \ {l} : batch'[m] = batch[m] /\ loop'[m] = loop[m]
        /\ Range(batch'[l]) = Range(batch[l]) \ {Current(l)}
    BY ZenonT(60), <1>u, <2>1, ContinueTypes
  <2>3. Range(batch'[l]) = {}
    BY Zenon, <1>b, <1>c, <2>2
  <2>5. ASSUME NEW d \in Cmds \ {c} PROVE Same(d)
    BY Zenon, <1>a, <1>b, <2>1, <2>2, <2>3 DEF Same, Holds
  <2>6. \A m \in Loops : ~(Holds(m, c)')
    BY Zenon, <1>h, <2>1, <2>2, <2>3 DEF Holds
  <2>7. \/ Queued(c)' /\ c \notin dropped'
        \/ ~(Queued(c)') /\ c \in dropped'
    BY ZenonT(60), <1>a, <1>h, <2>1 DEF Queued
  <2>8. Settled(c)'
    BY ZenonT(60), <1>u, <1>b, <1>h, <2>1, <2>6, <2>7 DEF Settled
  <2>9. Distinct(ch')
    BY Zenon, <1>a, <1>b, <1>h, <2>1
  <2> QED BY Zenon, <1>u, <2>5, <2>8, <2>9, MemFrame
<1> QED BY Zenon, <1>1, <1>2, <1>3, <1>4, <1>5, <1>6 DEF processMessage

\* A process that has panicked stays down.
LEMMA CrashStays ==
  ASSUME [Next]_vars, run' # "crashed"
  PROVE  run # "crashed"
<1>1. ASSUME NEW c \in Cmds, Dispatch(c) \/ Send(c) \/ Insert(c) \/ Expire(c)
      PROVE  run' = run
  BY Zenon, <1>1 DEF Dispatch, Send, Insert, Expire, runVars
<1>2. ASSUME NEW l \in Loops, GetMemory(l) \/ GetUnpublished(l) \/ Stop(l) \/ Crash(l)
      PROVE  run' = run
  BY Zenon, <1>2 DEF GetMemory, GetUnpublished, Stop, Crash, runVars
<1>3. ASSUME NEW l \in Loops, processMessage(l)
      PROVE  run' = run
  BY ZenonT(60), <1>3 DEF processMessage, DispatchReceived, HandleAny, SendAgain, Ack, Reject, Requeue,
                          Panic, runVars
<1>4. CASE GetUnpublishedFails \/ CloseBus \/ CloseTransport \/ Cancel \/ UNCHANGED vars
  BY Zenon, <1>4 DEF GetUnpublishedFails, CloseBus, CloseTransport, Cancel, vars, runVars
<1>5. CASE RunReturn
  BY Zenon, <1>5 DEF RunReturn
<1> QED BY Zenon, <1>1, <1>2, <1>3, <1>4, <1>5 DEF Next, consumeLoop

LEMMA MemStep ==
  ASSUME MsgInv, MemInv, [Next]_vars
  PROVE  MemInv'
<1> SUFFICES ASSUME run' # "crashed" PROVE MemState'
  BY Zenon DEF MemInv
<1>0. MemState
  BY Zenon, CrashStays DEF MemInv
<1>1. CASE GetUnpublishedFails \/ \E l \in Loops : Crash(l)
  <2>1. ~Memory /\ UNCHANGED conf
    BY Zenon, <1>1 DEF GetUnpublishedFails, Crash, Memory, Outbox
  <2> QED BY Zenon, <1>0, <2>1, MemSame
<1>2. CASE CloseBus \/ CloseTransport \/ Cancel \/ RunReturn \/ UNCHANGED vars
  <2>1. UNCHANGED <<conf, call, ch, loop, batch, dropped, handled>>
    BY Zenon, <1>2 DEF CloseBus, CloseTransport, Cancel, RunReturn, vars, appVars, memVars, loopVars, histVars
  <2> QED BY ZenonT(60), <1>0, <2>1, MemSame DEF Same, Holds
<1> QED BY Zenon, <1>0, <1>1, <1>2, MemApp, MemGet, MemProcess DEF Next, consumeLoop

\* A sequence without repetition has each element at one index.
LEMMA IndexFact ==
  ASSUME NEW s \in Seq(Cmds), Distinct(s), NEW c
  PROVE  Cardinality({i \in 1..Len(s) : s[i] = c}) = IF c \in Range(s) THEN 1 ELSE 0
<1> DEFINE I == {i \in 1..Len(s) : s[i] = c}
<1>1. CASE c \in Range(s)
  <2>1. PICK i \in 1..Len(s) : s[i] = c
    BY <1>1 DEF Range
  <2>2. I = {i}
    BY <2>1 DEF Distinct
  <2>3. Cardinality({i}) = 1
    BY Zenon, FS_Singleton
  <2> QED BY Zenon, <1>1, <2>2, <2>3
<1>2. CASE c \notin Range(s)
  <2>1. I = {}
    BY <1>2 DEF Range
  <2> QED BY Zenon, <1>2, <2>1, FS_EmptySet
<1> QED BY Zenon, <1>1, <1>2

\* As long as the process lives the memory transport neither loses nor duplicates
\* a command, whatever the loops do and whenever it is closed: one reported as
\* Async is in the channel, in the hands of one loop, handled once, or dropped,
\* and never two of these.
THEOREM MemoryConservesAlways == Spec => []MemoryConserves
<1>1. Init => MemInv
  BY DEF Init, MemInv, MemState, Settled, Queued, Holds, Distinct, Range
<1>2. MsgInv /\ MemInv => MemoryConserves
  <2> SUFFICES ASSUME MsgInv, MemState, Memory, NEW c \in Cmds \ conf.local
               PROVE  Places(c) = IF call[c] = "async" THEN 1 ELSE 0
    BY Zenon DEF MemoryConserves, MemInv
  <2> DEFINE H == {l \in InHand(c) : loop[l] # "ack"}
  <2>1. Settled(c) /\ Distinct(ch) /\ ch \in Seq(Cmds)
    BY ZenonT(60) DEF MemState, MsgInv, MsgType
  <2>2. Cardinality({i \in 1..Len(ch) : ch[i] = c}) = IF Queued(c) THEN 1 ELSE 0
    BY Zenon, <2>1, IndexFact DEF Queued
  <2>3. Cardinality(H) = IF \E l \in Loops : Holds(l, c) THEN 1 ELSE 0
    <3>1. CASE \E l \in Loops : Holds(l, c)
      <4>1. PICK l \in Loops : Holds(l, c)
        BY Zenon, <3>1
      <4>2. H = {l}
        BY Zenon, <2>1, <4>1 DEF Settled, Holds, InHand
      <4>3. Cardinality({l}) = 1
        BY Zenon, FS_Singleton
      <4> QED BY Zenon, <3>1, <4>2, <4>3
    <3>2. CASE ~\E l \in Loops : Holds(l, c)
      <4>1. H = {}
        BY Zenon, <3>2 DEF Holds, InHand
      <4> QED BY Zenon, <3>2, <4>1, FS_EmptySet
    <3> QED BY Zenon, <3>1, <3>2
  <2>4. CASE call[c] = "async"
    <3> HIDE DEF H
    <3>1. Places(c) = (IF Queued(c) THEN 1 ELSE 0) + (IF \E l \in Loops : Holds(l, c) THEN 1 ELSE 0)
                       + handled[c] + (IF c \in dropped THEN 1 ELSE 0)
      BY Zenon, <2>2, <2>3 DEF Places, H
    <3> QED BY <2>1, <2>4, <3>1 DEF Settled
  <2>5. CASE call[c] # "async"
    <3>1. ~Queued(c) /\ (\A l \in Loops : ~Holds(l, c)) /\ handled[c] = 0 /\ c \notin dropped
      BY Zenon, <2>1, <2>5 DEF Settled, Holds
    <3> QED BY <2>2, <2>3, <2>5, <3>1 DEF Places
  <2> QED BY Zenon, <2>4, <2>5
<1> QED BY <1>1, <1>2, Typing, MemStep, PTL DEF Spec

-----------------------------------------------------------------------------
\* retry_count

\* The failed attempts loop l has made of command c since it got it.
Share(l, c) ==
  IF batch[l] = <<>> \/ c # Current(l) THEN 0
  ELSE IF loop[l] = "handle" THEN tries[l]
  ELSE IF loop[l] = "reject" THEN Retries + 1 ELSE 0

\* They are those no increment of retry_count stands for yet: with the claim
\* expired, several loops can be at the same command.
Round(c) == {p \in Loops \X (1..(Retries + 1)) : p[2] <= Share(p[1], c)}

Earned(c) == attempts[c] >= retry[c] * (Retries + 1) + Cardinality(Round(c))

RetryInv ==
  Outbox /\ conf.bus = "plain" /\ ~busClosed /\ ~cancelled =>
    \A c \in Cmds \ (conf.forced \cup conf.garbled) : Earned(c)

LEMMA ProductFact ==
  /\ \A m, n, k \in Nat : m <= n => m * k <= n * k
  /\ \A m, k \in Nat : (m + 1) * k = m * k + k
  /\ \A m, k \in Nat : m * k \in Nat
<1>1. ASSUME NEW m \in Nat, NEW n \in Nat, NEW k \in Nat, m <= n
      PROVE  m * k <= n * k
  <2>1. PICK d \in Nat : n = m + d
    <3>1. n - m \in Nat /\ n = m + (n - m)
      BY <1>1
    <3> QED BY Zenon, <3>1
  <2>2. (m + d) * k = m * k + d * k /\ d * k \in Nat /\ m * k \in Nat
    BY <1>1
  <2> QED BY <2>1, <2>2
<1> QED BY <1>1

\* Attempts of a round are finitely many.
LEMMA RoundFinite ==
  ASSUME NEW S \in SUBSET (Loops \X (1..(Retries + 1)))
  PROVE  IsFiniteSet(S) /\ Cardinality(S) \in Nat
<1>1. IsFiniteSet(1..(Retries + 1)) /\ IsFiniteSet(Loops)
  BY FS_Interval, MessengerAssumption
<1>2. IsFiniteSet(Loops \X (1..(Retries + 1)))
  BY Zenon, <1>1, FS_Product
<1> QED BY Zenon, <1>2, FS_Subset, FS_CardinalityType

LEMMA RoundType ==
  ASSUME NEW c \in Cmds
  PROVE  /\ IsFiniteSet(Round(c)) /\ Cardinality(Round(c)) \in Nat
         /\ IsFiniteSet(Round(c)') /\ Cardinality(Round(c)') \in Nat
<1>1. Round(c) \in SUBSET (Loops \X (1..(Retries + 1)))
  BY Zenon DEF Round
<1>2. Round(c)' \in SUBSET (Loops \X (1..(Retries + 1)))
  BY Zenon DEF Round
<1> QED BY Zenon, <1>1, <1>2, RoundFinite

LEMMA ShareType ==
  ASSUME MsgInv, NEW l \in Loops, NEW c \in Cmds
  PROVE  Share(l, c) \in 0..(Retries + 1)
<1>1. tries[l] \in 0..Retries
  BY Zenon DEF MsgInv, MsgType
<1> QED BY <1>1, MessengerAssumption DEF Share

\* A step that forgets attempts, and does not count them.
LEMMA EarnedFrame ==
  ASSUME MsgInv, MsgInv', NEW c \in Cmds, Earned(c),
         attempts'[c] >= attempts[c], retry'[c] = retry[c],
         \A l \in Loops : Share(l, c)' <= Share(l, c)
  PROVE  Earned(c)'
<1>1. \A l \in Loops : Share(l, c) \in 0..(Retries + 1) /\ Share(l, c)' \in 0..(Retries + 1)
  <2>1. \A l \in Loops : Share(l, c) \in 0..(Retries + 1)
    BY Zenon, ShareType
  <2>2. \A l \in Loops : Share(l, c)' \in 0..(Retries + 1)
    <3>1. \A l \in Loops : tries'[l] \in 0..Retries
      BY Zenon DEF MsgInv, MsgType
    <3> QED BY <3>1, MessengerAssumption DEF Share
  <2> QED BY ZenonT(60), <2>1, <2>2
<1>2. Round(c)' \subseteq Round(c)
  <2> SUFFICES ASSUME NEW p \in Loops \X (1..(Retries + 1)), p[2] <= Share(p[1], c)'
               PROVE  p[2] <= Share(p[1], c)
    BY Zenon DEF Round
  <2>1. p[1] \in Loops /\ p[2] \in Nat
    BY MessengerAssumption
  <2> QED BY <1>1, <2>1, MessengerAssumption
<1>3. Cardinality(Round(c)') <= Cardinality(Round(c))
  BY Zenon, <1>2, RoundType, FS_Subset
<1>4. /\ Cardinality(Round(c)) \in Nat /\ Cardinality(Round(c)') \in Nat
      /\ attempts[c] \in Nat /\ attempts'[c] \in Nat
      /\ retry[c] * (Retries + 1) \in Nat
  <2>1. retry[c] \in Nat /\ Retries + 1 \in Nat
    BY MessengerAssumption DEF MsgInv, MsgType
  <2>2. attempts[c] \in Nat /\ attempts'[c] \in Nat
    BY Zenon DEF MsgInv, MsgType
  <2> QED BY ZenonT(60), <2>1, <2>2, RoundType, ProductFact
<1>5. attempts[c] >= retry[c] * (Retries + 1) + Cardinality(Round(c))
  BY Zenon DEF Earned
<1>6. attempts'[c] >= retry[c] * (Retries + 1) + Cardinality(Round(c)')
  BY <1>3, <1>4, <1>5
<1> QED BY Zenon, <1>6 DEF Earned

\* What every step but a failed attempt and a Reject respects.
LEMMA RetryFrame ==
  ASSUME MsgInv, MsgInv', RetryInv, UNCHANGED conf,
         busClosed => busClosed', cancelled => cancelled',
         \A c \in Cmds \ (conf.forced \cup conf.garbled) :
            Outbox /\ conf.bus = "plain" /\ ~busClosed /\ ~cancelled =>
              /\ attempts'[c] >= attempts[c] /\ retry'[c] = retry[c]
              /\ \A l \in Loops : Share(l, c)' <= Share(l, c)
  PROVE  RetryInv'
<1> SUFFICES ASSUME Outbox, conf.bus = "plain", ~busClosed, ~cancelled,
                    NEW c \in Cmds \ (conf.forced \cup conf.garbled)
             PROVE  Earned(c)'
  BY Zenon DEF RetryInv, Outbox
<1>1. Earned(c)
  BY Zenon DEF RetryInv
<1> QED BY ZenonT(60), <1>1, EarnedFrame

\* The application, and the worker's Get.
LEMMA RetryApp ==
  ASSUME MsgInv, MsgInv', RetryInv, NEW d \in Cmds, Dispatch(d) \/ Send(d) \/ Insert(d) \/ Expire(d)
  PROVE  RetryInv'
<1>1. UNCHANGED <<conf, busClosed, cancelled, retry, loop, batch, tries>>
  BY Zenon DEF Dispatch, Send, Insert, Expire, appVars, runVars, rowVars, loopVars
<1>2. \A c \in Cmds : attempts[c] \in Nat /\ attempts'[c] >= attempts[c]
  <2>1. attempts \in [Cmds -> Nat]
    BY Zenon DEF MsgInv, MsgType
  <2>2. attempts' = attempts \/ Attempted(d, 1)
    BY Zenon DEF Dispatch, Send, Insert, Expire, histVars
  <2> QED BY <2>1, <2>2, CountFact
<1>3. \A c \in Cmds, l \in Loops : Share(l, c)' = Share(l, c) /\ Share(l, c) \in Nat
  BY <1>1, ShareType, MessengerAssumption DEF Share, Current
<1>4. \A c \in Cmds, l \in Loops : Share(l, c)' <= Share(l, c)
  BY <1>3
<1> QED BY Zenon, <1>1, <1>2, <1>4, RetryFrame

LEMMA RetryGet ==
  ASSUME MsgInv, MsgInv', RetryInv, NEW l \in Loops,
         GetMemory(l) \/ GetUnpublished(l) \/ Stop(l) \/ DispatchReceived(l)
  PROVE  RetryInv'
<1>t. loop \in [Loops -> Stages] /\ batch \in [Loops -> Seq(Cmds)] /\ attempts \in [Cmds -> Nat]
      /\ retry \in [Cmds -> Nat] /\ tries \in [Loops -> 0..Retries] /\ conf \in Configs
  BY Zenon DEF MsgInv, MsgType
<1>1. UNCHANGED <<conf, busClosed, cancelled, attempts, tries>> /\ loop[l] \in {"get", "dispatch"}
  BY Zenon DEF GetMemory, GetUnpublished, Stop, DispatchReceived, appVars, runVars, histVars
<1>2. \A m \in Loops \ {l} : loop'[m] = loop[m] /\ batch'[m] = batch[m]
  BY ZenonT(60), <1>t DEF GetMemory, GetUnpublished, Stop, DispatchReceived, Goto
<1>3. \A c \in Cmds \ (conf.forced \cup conf.garbled) : retry'[c] = retry[c]
  BY Zenon DEF GetMemory, GetUnpublished, Stop, DispatchReceived, rowVars
<1>4. ASSUME NEW c \in Cmds \ (conf.forced \cup conf.garbled), Outbox, ~busClosed
      PROVE  Share(l, c)' = 0
  <2>1. CASE DispatchReceived(l)
    <3>1. /\ batch' = batch
          /\ \/ WorkerRoute(Current(l)) = "unknown" /\ loop' = [loop EXCEPT ![l] = "reject"]
             \/ loop' = [loop EXCEPT ![l] = "handle"]
             \/ loop' = [loop EXCEPT ![l] = "send"]
      BY ZenonT(60), <1>4, <2>1 DEF DispatchReceived, Goto
    <3>2. tries'[l] = 0
      BY ZenonT(60), <1>1, <2>1 DEF DispatchReceived, MsgInv, LoopInv
    <3>3. WorkerRoute(Current(l)) = "unknown" => c # Current(l)
      BY Zenon, <1>4 DEF WorkerRoute
    <3> QED BY ZenonT(60), <1>t, <3>1, <3>2, <3>3 DEF Share, Current
  <2>2. CASE ~DispatchReceived(l)
    <3>1. loop'[l] \in {"dispatch", "stopped", "get"}
      BY ZenonT(60), <1>t, <2>2 DEF GetMemory, GetUnpublished, Stop, Goto
    <3> QED BY ZenonT(60), <3>1 DEF Share
  <2> QED BY Zenon, <2>1, <2>2
<1>5. ASSUME NEW c \in Cmds, NEW m \in Loops \ {l}
      PROVE  Share(m, c)' = Share(m, c)
  BY ZenonT(60), <1>1, <1>2 DEF Share, Current
<1>6. \A c \in Cmds \ (conf.forced \cup conf.garbled) : Outbox /\ ~busClosed =>
        \A m \in Loops : Share(m, c)' <= Share(m, c)
  <2>1. \A c \in Cmds, m \in Loops : Share(m, c) \in Nat
    BY ShareType, MessengerAssumption
  <2> QED BY <1>4, <1>5, <2>1
<1>7. \A c \in Cmds : attempts'[c] >= attempts[c]
  BY <1>t, <1>1
<1> QED BY ZenonT(60), <1>1, <1>3, <1>6, <1>7, RetryFrame

\* A full round of one loop.
LEMMA FullFact ==
  ASSUME NEW l
  PROVE  /\ IsFiniteSet({l} \X (1..(Retries + 1)))
         /\ Cardinality({l} \X (1..(Retries + 1))) = Retries + 1
<1> DEFINE full == {l} \X (1..(Retries + 1))
<1>1. /\ IsFiniteSet(1..(Retries + 1)) /\ Cardinality(1..(Retries + 1)) = Retries + 1
      /\ IsFiniteSet({l}) /\ Cardinality({l}) = 1
  <2>1. Retries + 1 \in Int /\ ~(1 > Retries + 1) /\ Retries + 1 - 1 + 1 = Retries + 1
    BY MessengerAssumption
  <2>2. 1 \in Int /\ IsFiniteSet({l}) /\ Cardinality({l}) = 1
    BY FS_Singleton
  <2> QED BY <2>1, <2>2, FS_Interval
<1>2. IsFiniteSet(full) /\ Cardinality(full) = Cardinality({l}) * Cardinality(1..(Retries + 1))
  BY Zenon, <1>1, FS_Product
<1> HIDE DEF full
<1>3. IsFiniteSet(full) /\ Cardinality(full) = Retries + 1
  BY <1>1, <1>2, MessengerAssumption
<1> QED BY Zenon, <1>3 DEF full

\* The handler runs.
LEMMA RetryHandle ==
  ASSUME MsgInv, MsgInv', RetryInv, NEW l \in Loops, HandleAny(l)
  PROVE  RetryInv'
<1>t. loop \in [Loops -> Stages] /\ batch \in [Loops -> Seq(Cmds)] /\ attempts \in [Cmds -> Nat]
      /\ retry \in [Cmds -> Nat] /\ tries \in [Loops -> 0..Retries]
  BY Zenon DEF MsgInv, MsgType
<1>1. UNCHANGED <<conf, busClosed, cancelled, retry, batch>> /\ loop[l] = "handle"
  BY Zenon DEF HandleAny, appVars, runVars, rowVars
<1>c. PICK c \in Cmds : c = Current(l)
  BY Zenon, <1>1, CurrentFact DEF Idle
<1>n. PICK n \in Nat : /\ n = 1 \/ (n = Retries + 1 /\ loop' = [loop EXCEPT ![l] = "reject"])
                       /\ Attempted(c, n)
  BY Zenon, <1>c, AttemptFact DEF HandleAny, Goto
<1>2. \A d \in Cmds : attempts'[d] = IF d = c THEN attempts[c] + n ELSE attempts[d]
  BY Zenon, <1>c, <1>n, CountFact
<1>3. \A d \in Cmds : attempts[d] \in Nat /\ attempts'[d] \in Nat /\ attempts'[d] >= attempts[d]
  <2> SUFFICES ASSUME NEW d \in Cmds
               PROVE  attempts[d] \in Nat /\ attempts'[d] \in Nat /\ attempts'[d] >= attempts[d]
    BY Zenon
  <2>1. attempts[c] \in Nat /\ attempts[d] \in Nat
    BY Zenon, <1>t
  <2>2. attempts'[d] = IF d = c THEN attempts[c] + n ELSE attempts[d]
    BY Zenon, <1>2
  <2> QED BY <2>1, <2>2
<1>4. \A m \in Loops \ {l} : loop'[m] = loop[m] /\ tries'[m] = tries[m]
  BY Zenon, <1>t DEF HandleAny, Failed, Goto
<1>5. ASSUME NEW d \in Cmds, NEW m \in Loops \ {l}
      PROVE  Share(m, d)' = Share(m, d)
  BY ZenonT(60), <1>1, <1>4 DEF Share, Current
<1>6. \A d \in Cmds, m \in Loops : Share(m, d) \in 0..(Retries + 1)
  BY Zenon, ShareType
<1>7. ASSUME NEW d \in Cmds \ {c}
      PROVE  Share(l, d)' = Share(l, d)
  BY Zenon, <1>1, <1>c DEF Share, Current
<1>8. batch[l] # <<>> /\ Share(l, c) = tries[l] /\ tries[l] \in 0..Retries
  BY ZenonT(60), <1>t, <1>1, <1>c, CurrentFact DEF Share, Idle
<1> SUFFICES ASSUME Outbox, conf.bus = "plain", ~busClosed, ~cancelled,
                    NEW d \in Cmds \ (conf.forced \cup conf.garbled)
             PROVE  Earned(d)'
  BY ZenonT(60), <1>1 DEF RetryInv, Outbox
<1>9. Earned(d)
  BY Zenon DEF RetryInv
<1>10. CASE d # c \/ Share(l, c)' = 0
  <2>1. \A m \in Loops : Share(m, d)' <= Share(m, d)
    BY <1>5, <1>6, <1>7, <1>10, MessengerAssumption
  <2> QED BY ZenonT(60), <1>1, <1>3, <1>9, <2>1, EarnedFrame
<1>11. CASE d = c /\ Share(l, c)' # 0
  <2>1. PICK X : /\ Round(c)' \subseteq Round(c) \cup X
                 /\ IsFiniteSet(X) /\ Cardinality(X) = n
    <3>1. CASE n = Retries + 1 /\ loop' = [loop EXCEPT ![l] = "reject"]
      <4> DEFINE full == {l} \X (1..(Retries + 1))
      <4>1. Round(c)' \subseteq Round(c) \cup full
        <5> SUFFICES ASSUME NEW m \in Loops, NEW i \in 1..(Retries + 1), i <= Share(m, c)'
                     PROVE  i <= Share(m, c) \/ m = l
          BY Zenon DEF Round
        <5> QED BY Zenon, <1>5
      <4> QED BY Zenon, <3>1, <4>1, FullFact
    <3>2. CASE n = 1 /\ ~(n = Retries + 1 /\ loop' = [loop EXCEPT ![l] = "reject"])
      <4> DEFINE q == <<l, tries[l] + 1>>
      <4>1. Share(l, c)' = tries[l] + 1
        <5>1. \/ tries[l] < Retries /\ tries' = [tries EXCEPT ![l] = tries[l] + 1] /\ loop' = loop
              \/ ~(tries[l] < Retries) /\ loop' = [loop EXCEPT ![l] = "reject"]
              \/ loop' = [loop EXCEPT ![l] = "ack"]
          <6>1. Attempted(c, Retries + 1) /\ loop' = [loop EXCEPT ![l] = "reject"] => n = Retries + 1
            <7>1. Attempted(c, Retries + 1) => attempts'[c] = attempts[c] + (Retries + 1)
              BY Zenon, AttemptFact, CountFact
            <7>2. Attempted(c, Retries + 1) => n = Retries + 1
              BY <1>2, <1>3, <7>1, MessengerAssumption
            <7> QED BY Zenon, <7>2
          <6> QED BY ZenonT(60), <1>c, <3>2, <6>1 DEF HandleAny, Failed, Goto
        <5>2. CASE tries[l] < Retries /\ tries' = [tries EXCEPT ![l] = tries[l] + 1] /\ loop' = loop
          BY ZenonT(60), <1>t, <1>1, <1>c, <1>8, <5>2 DEF Share, Current
        <5>3. CASE ~(tries[l] < Retries) /\ loop' = [loop EXCEPT ![l] = "reject"]
          <6>1. tries[l] = Retries
            BY <1>8, <5>3, MessengerAssumption
          <6> QED BY ZenonT(60), <1>t, <1>1, <1>c, <1>8, <5>3, <6>1 DEF Share, Current
        <5>4. CASE loop' = [loop EXCEPT ![l] = "ack"]
          BY ZenonT(60), <1>t, <1>11, <5>4 DEF Share
        <5> QED BY Zenon, <5>1, <5>2, <5>3, <5>4
      <4>2. Round(c)' \subseteq Round(c) \cup {q}
        <5> SUFFICES ASSUME NEW m \in Loops, NEW i \in 1..(Retries + 1), i <= Share(m, c)'
                     PROVE  i <= Share(m, c) \/ <<m, i>> = q
          BY DEF Round
        <5>1. CASE m = l
          BY <1>8, <4>1, <5>1, MessengerAssumption
        <5>2. CASE m # l
          BY Zenon, <1>5, <5>2
        <5> QED BY Zenon, <5>1, <5>2
      <4>3. IsFiniteSet({q}) /\ Cardinality({q}) = 1
        BY Zenon, FS_Singleton
      <4> QED BY Zenon, <3>2, <4>2, <4>3
    <3> QED BY Zenon, <1>n, <3>1, <3>2
  <2>2. Cardinality(Round(c)') <= Cardinality(Round(c)) + n
    <3>1. IsFiniteSet(Round(c)) /\ Cardinality(Round(c)) \in Nat /\ Cardinality(Round(c)') \in Nat
      BY Zenon, RoundType
    <3>2. /\ IsFiniteSet(Round(c) \cup X)
          /\ Cardinality(Round(c) \cup X) = Cardinality(Round(c)) + Cardinality(X)
                                            - Cardinality(Round(c) \cap X)
      BY Zenon, <2>1, <3>1, FS_Union
    <3>3. Cardinality(Round(c) \cap X) \in Nat
      BY Zenon, <2>1, <3>1, FS_Intersection, FS_CardinalityType
    <3>4. Cardinality(Round(c)') <= Cardinality(Round(c) \cup X)
      BY ZenonT(60), <2>1, <3>2, FS_Subset
    <3> QED BY <2>1, <3>1, <3>2, <3>3, <3>4
  <2>3. Cardinality(Round(c)) \in Nat /\ Cardinality(Round(c)') \in Nat
        /\ retry[c] * (Retries + 1) \in Nat
    BY <1>t, RoundType, ProductFact, MessengerAssumption
  <2>4. attempts'[c] = attempts[c] + n
    BY Zenon, <1>2
  <2>5. attempts[c] >= retry[c] * (Retries + 1) + Cardinality(Round(c))
    BY Zenon, <1>9, <1>11 DEF Earned
  <2>6. attempts'[c] >= retry[c] * (Retries + 1) + Cardinality(Round(c)')
    BY <1>3, <2>2, <2>3, <2>4, <2>5
  <2> QED BY Zenon, <1>1, <1>11, <2>6 DEF Earned
<1> QED BY Zenon, <1>10, <1>11

\* Ack and Reject.
LEMMA RetryAck ==
  ASSUME MsgInv, MsgInv', RetryInv, NEW l \in Loops, Ack(l) \/ (Reject(l) /\ Outbox)
  PROVE  RetryInv'
<1>t. attempts \in [Cmds -> Nat] /\ retry \in [Cmds -> Nat]
  BY Zenon DEF MsgInv, MsgType
<1>1. UNCHANGED <<conf, busClosed, cancelled, attempts>> /\ loop[l] \in {"ack", "reject"} /\ Continue(l)
  BY ZenonT(60) DEF Ack, Reject, appVars, runVars, histVars, Memory, Outbox
<1>2. /\ \A m \in Loops \ {l} : batch'[m] = batch[m] /\ loop'[m] = loop[m]
      /\ loop'[l] \in {"dispatch", "stopped", "get"}
      /\ tries' = tries
  BY ZenonT(60), <1>1, ContinueTypes
<1>c. PICK c \in Cmds : c = Current(l)
  BY Zenon, <1>1, CurrentFact DEF Idle
<1>3. ASSUME NEW d \in Cmds
      PROVE  Share(l, d)' = 0 /\ \A m \in Loops \ {l} : Share(m, d)' = Share(m, d)
  BY ZenonT(60), <1>2 DEF Share, Current
<1>4. \A d \in Cmds, m \in Loops : Share(m, d) \in 0..(Retries + 1)
  BY Zenon, ShareType
<1>5. ASSUME NEW d \in Cmds, NEW m \in Loops
      PROVE  Share(m, d)' <= Share(m, d)
  BY <1>3, <1>4, MessengerAssumption
<1>6. \A d \in Cmds \ {c} : retry'[d] = retry[d]
  BY Zenon, <1>c DEF Ack, Reject, Statement, MarkPublished, IncrementRetry
<1>7. \A d \in Cmds : attempts'[d] >= attempts[d]
  BY <1>t, <1>1
<1> SUFFICES ASSUME Outbox, conf.bus = "plain", ~busClosed, ~cancelled,
                    NEW d \in Cmds \ (conf.forced \cup conf.garbled)
             PROVE  Earned(d)'
  BY ZenonT(60), <1>1 DEF RetryInv, Outbox
<1>8. Earned(d)
  BY ZenonT(60) DEF RetryInv
<1>9. CASE retry'[d] = retry[d]
  BY ZenonT(60), <1>5, <1>7, <1>8, <1>9, EarnedFrame
<1>10. CASE retry'[d] # retry[d]
  <2>1. d = c
    BY Zenon, <1>6, <1>10
  <2>2. loop[l] = "reject" /\ retry'[c] = retry[c] + 1
    BY ZenonT(60), <1>c, <1>10, <2>1 DEF Ack, Reject, Statement, MarkPublished, IncrementRetry
  <2>3. Share(l, c) = Retries + 1
    BY ZenonT(60), <1>c, <2>2, CurrentFact DEF Share, Idle
  <2> DEFINE full == {l} \X (1..(Retries + 1))
  <2>4. Round(c)' \cup full \subseteq Round(c) /\ Round(c)' \cap full = {}
    <3>1. ASSUME NEW m \in Loops, NEW i \in 1..(Retries + 1)
          PROVE  /\ i <= Share(m, c)' => i <= Share(m, c) /\ m # l
                 /\ m = l => i <= Share(m, c)
      <4>1. CASE m = l
        BY <1>3, <2>3, <4>1, MessengerAssumption
      <4>2. CASE m # l
        BY Zenon, <1>3, <4>2
      <4> QED BY Zenon, <4>1, <4>2
    <3> QED BY ZenonT(60), <3>1 DEF Round
  <2>5. IsFiniteSet(full) /\ Cardinality(full) = Retries + 1
    BY Zenon, FullFact
  <2> HIDE DEF full
  <2>6. Cardinality(Round(c)') + (Retries + 1) <= Cardinality(Round(c))
    <3>1. /\ IsFiniteSet(Round(c)') /\ Cardinality(Round(c)') \in Nat
          /\ IsFiniteSet(Round(c)) /\ Cardinality(Round(c)) \in Nat
      BY Zenon, RoundType
    <3>2. Cardinality(Round(c)' \cap full) = 0
      BY Zenon, <2>4, FS_EmptySet
    <3>3. Cardinality(Round(c)' \cup full) = Cardinality(Round(c)') + Cardinality(full)
                                             - Cardinality(Round(c)' \cap full)
      BY Zenon, <2>5, <3>1, FS_Union
    <3>4. Cardinality(Round(c)' \cup full) <= Cardinality(Round(c))
      BY Zenon, <2>4, <3>1, FS_Subset
    <3> QED BY <2>5, <3>1, <3>2, <3>3, <3>4, MessengerAssumption
  <2>7. /\ Cardinality(Round(c)) \in Nat /\ Cardinality(Round(c)') \in Nat /\ attempts[c] \in Nat
        /\ retry[c] * (Retries + 1) \in Nat
        /\ (retry[c] + 1) * (Retries + 1) = retry[c] * (Retries + 1) + (Retries + 1)
    <3>1. retry[c] \in Nat /\ Retries + 1 \in Nat /\ attempts[c] \in Nat
      BY <1>t, MessengerAssumption
    <3> QED BY ZenonT(60), <3>1, RoundType, ProductFact
  <2>8. attempts'[c] = attempts[c]
    BY Zenon, <1>1
  <2>9. attempts[c] >= retry[c] * (Retries + 1) + Cardinality(Round(c))
    BY Zenon, <1>8, <2>1 DEF Earned
  <2>10. attempts[c] >= (retry[c] + 1) * (Retries + 1) + Cardinality(Round(c)')
    BY <2>6, <2>7, <2>9, MessengerAssumption
  <2> QED BY ZenonT(60), <2>1, <2>2, <2>8, <2>10 DEF Earned
<1> QED BY Zenon, <1>9, <1>10

LEMMA RetryStep ==
  ASSUME MsgInv, MsgInv', RetryInv, [Next]_vars
  PROVE  RetryInv'
<1>t. attempts \in [Cmds -> Nat] /\ loop \in [Loops -> Stages] /\ batch \in [Loops -> Seq(Cmds)]
      /\ tries \in [Loops -> 0..Retries] /\ conf \in Configs
  BY Zenon DEF MsgInv, MsgType
<1>s. \A c \in Cmds, l \in Loops : Share(l, c) \in Nat
  <2>1. \A n \in 0..(Retries + 1) : n \in Nat
    BY MessengerAssumption
  <2> QED BY Zenon, <2>1, ShareType
<1>1. ASSUME NEW l \in Loops, SendAgain(l) \/ Requeue(l) \/ (Reject(l) /\ ~Outbox)
      PROVE  RetryInv'
  <2>1. UNCHANGED conf
    BY Zenon, <1>1 DEF SendAgain, Requeue, Reject
  <2>2. ~Outbox \/ conf.bus # "plain"
    BY Zenon, <1>1 DEF SendAgain, Requeue, MsgInv, LoopInv, Memory, Outbox
  <2> QED BY Zenon, <2>1, <2>2 DEF RetryInv, Outbox
<1>2. ASSUME NEW l \in Loops, Crash(l)
      PROVE  RetryInv'
  <2>1. /\ UNCHANGED <<conf, busClosed, cancelled, retry, attempts>>
        /\ loop' = [loop EXCEPT ![l] = "get"] /\ batch' = [batch EXCEPT ![l] = <<>>]
        /\ tries' = [tries EXCEPT ![l] = 0]
    BY Zenon, <1>2 DEF Crash, Goto, appVars, runVars, rowVars, histVars
  <2>2. ASSUME NEW c \in Cmds, NEW m \in Loops
        PROVE  Share(m, c)' \in {0, Share(m, c)}
    BY Zenon, <1>t, <2>1 DEF Share, Current
  <2>3. \A c \in Cmds, m \in Loops : Share(m, c)' <= Share(m, c)
    BY <1>s, <2>2
  <2>4. \A c \in Cmds : attempts'[c] >= attempts[c]
    BY <1>t, <2>1
  <2> QED BY ZenonT(60), <2>1, <2>3, <2>4, RetryFrame
<1>3. CASE GetUnpublishedFails \/ CloseBus \/ CloseTransport \/ Cancel \/ RunReturn \/ UNCHANGED vars
  <2>0. /\ UNCHANGED <<conf, retry, attempts, loop, batch, tries>>
        /\ busClosed' = busClosed \/ busClosed' = TRUE
        /\ cancelled' = cancelled \/ cancelled' = TRUE
    BY Zenon, <1>3 DEF GetUnpublishedFails, CloseBus, CloseTransport, Cancel, RunReturn, vars,
                appVars, runVars, rowVars, loopVars, histVars
  <2>1. /\ UNCHANGED <<conf, retry, attempts, loop, batch, tries>>
        /\ busClosed => busClosed'
        /\ cancelled => cancelled'
    <3>1. busClosed => busClosed'
      BY Zenon, <2>0
    <3>2. cancelled => cancelled'
      BY Zenon, <2>0
    <3> QED BY ZenonT(60), <2>0, <3>1, <3>2
  <2>2. ASSUME NEW c \in Cmds, NEW m \in Loops
        PROVE  Share(m, c)' = Share(m, c)
    BY Zenon, <2>1 DEF Share, Current
  <2>3. \A c \in Cmds, m \in Loops : Share(m, c)' <= Share(m, c)
    BY <1>s, <2>2
  <2>4. \A c \in Cmds : attempts'[c] >= attempts[c]
    BY <1>t, <2>1
  <2> QED BY ZenonT(60), <2>1, <2>3, <2>4, RetryFrame
<1> QED BY ZenonT(60), <1>1, <1>2, <1>3, RetryApp, RetryGet, RetryHandle, RetryAck
        DEF Next, consumeLoop, processMessage

\* While the bus, one without routes, is open and the worker runs, each increment
\* of retry_count stands for a full round of attempts of the handler or for one
\* that panicked, even where expired claims put a command in the hands of several
\* loops: no entry is given up untried.
THEOREM RetryIsEarnedAlways == Spec => []RetryIsEarned
<1>1. Init => RetryInv
  <2> SUFFICES ASSUME Init, NEW c \in Cmds PROVE Earned(c)
    BY Zenon DEF RetryInv
  <2>1. \A l \in Loops : Share(l, c) = 0
    BY Zenon DEF Init, Share
  <2>2. Round(c) = {}
    BY <2>1, MessengerAssumption DEF Round
  <2>3. Cardinality(Round(c)) = 0
    BY Zenon, <2>2, FS_EmptySet
  <2>4. attempts[c] = 0 /\ retry[c] = 0
    BY Zenon DEF Init
  <2> QED BY <2>3, <2>4, MessengerAssumption DEF Earned
<1>2. MsgInv /\ RetryInv => RetryIsEarned
  <2> SUFFICES ASSUME MsgInv, NEW c \in Cmds, Earned(c)
               PROVE  attempts[c] >= retry[c] * (Retries + 1)
    BY ZenonT(60) DEF RetryInv, RetryIsEarned
  <2>1. attempts[c] \in Nat /\ retry[c] \in Nat /\ Retries + 1 \in Nat
    BY MessengerAssumption DEF MsgInv, MsgType
  <2>2. retry[c] * (Retries + 1) \in Nat
    BY Zenon, <2>1, ProductFact
  <2>3. Cardinality(Round(c)) \in Nat
    BY Zenon, RoundType
  <2> QED BY <2>1, <2>2, <2>3 DEF Earned
<1> QED BY <1>1, <1>2, Typing, RetryStep, PTL DEF Spec
=============================================================================
