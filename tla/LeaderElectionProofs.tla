------------------------- MODULE LeaderElectionProofs -------------------------
(***************************************************************************)
(* Proofs about LeaderElection for any number of hosts, any time to live,  *)
(* interval and timeout, and any number of exits: until a command fails,   *)
(* or one takes so long that the key may expire before its renewal,        *)
(* whoever leads owns the key (LeaseHolds); and whatever fails, a host     *)
(* leads only for a bounded time without owning it (StaleLeaderSteps).     *)
(*                                                                         *)
(* Both invariants are budgets of time.  The first is what is left of the  *)
(* key: between two checks a leader has the wait for the next one and a    *)
(* Margin to spare; while it waits for Redis to renew, that margin less    *)
(* the age of the call; and once Redis has answered, the whole time to     *)
(* live less the age of the call.  The margin is longer than any wait so   *)
(* far.  The second is how long the key may have been another's (Budget).  *)
(***************************************************************************)
EXTENDS LeaderElection, TLAPS

Alive(h) == role[h] # "gone"

\* h made a call that Redis has not executed.
Pending(h) == call[h] # "none" /\ reply[h] = "none"

\* What each role may wait for while nothing fails; only a leader lasts in shutdown.
CallOfRole(h) ==
    /\ role[h] = "unset" => call[h] \in {"none", "init"}
    /\ role[h] = "follower" => call[h] \in {"none", "get", "claim"}
    /\ role[h] = "leader" => call[h] \in {"none", "renew"}
    /\ role[h] = "gone" => call[h] = "none"
    /\ call[h] = "none" => reply[h] = "none"
    /\ h \in closing => role[h] \in {"leader", "gone"}

\* The wire of a host holds the command it waits for and the del of its shutdown.
WireOfCall(h) ==
    Alive(h) =>
        /\ Len(wire[h]) = (IF Pending(h) THEN 1 ELSE 0) + (IF h \in closing THEN 1 ELSE 0)
        /\ Pending(h) => /\ wire[h][1].name = Command(call[h])
                         /\ wire[h][1].awaited
                         /\ wire[h][1].left = Timeout - age[h]
        /\ h \in closing => wire[h][Len(wire[h])].name = "del"

\* What is left of the key when a leader sends its renewal: the answer that it acted on
\* was at most as old as the slowest one, and an interval has passed.
Margin == TTL - Interval - slowest

\* Whoever leads, or was told that its claim succeeded, owns the key for long
\* enough; no other living host owns it.
Lease(h) ==
    /\ role[h] = "leader" => key = h
    /\ role[h] \in {"unset", "follower"} /\ key = h => reply[h] = "ok"
    /\ reply[h] = "ok" => key = h /\ ttl >= TTL - age[h]
    /\ reply[h] # "self"
    /\ role[h] = "leader" => /\ reply[h] \in {"none", "ok"}
                             /\ Pending(h) => ttl + age[h] >= Margin
                             /\ call[h] = "none" /\ h \notin closing => ttl - timer[h] >= Margin

\* A del under way, even of a host that has died since, finds the key that its
\* host owned: it can neither meet another owner nor come late.
DelOwned(h) ==
    \A i \in 1..Len(wire[h]) : wire[h][i].name = "del" =>
        /\ key = h
        /\ wire[h][1].awaited /\ wire[h][i].awaited
        /\ ttl + Timeout - wire[h][1].left >= Margin
        /\ i > 1 => i = 2 /\ wire[h][1].name = "renew"

Good(h) == CallOfRole(h) /\ WireOfCall(h) /\ Lease(h) /\ DelOwned(h)

Ordered == \A h \in Hosts : Good(h)

\* So far a reply, the wait for the next check and its renewal fit into the time to live.
Renewable == TTL > Interval + 2 * slowest

\* Nobody waits longer than the slowest command.
Waited(h) ==
    /\ call[h] # "none" => age[h] <= slowest
    /\ \A i \in 1..Len(wire[h]) : wire[h][i].awaited => Timeout - wire[h][i].left <= slowest

WaitedInv == \A h \in Hosts : Waited(h)

\* The inductive invariant, with TypeOK and WaitedInv.
IInv == failures = 0 /\ Renewable => Ordered

-----------------------------------------------------------------------------
(* Types.                                                                  *)

USE TimesAssumption

\* Commands are well-formed.
LEMMA CommandTypes ==
    /\ \A c \in Calls : Command(c) \in {"set", "renew", "get"}
    /\ \A name \in {"set", "renew", "get", "del"} : Sent(name) \in Commands
BY DEF Calls, Command, Sent, Commands

\* The count of stale ticks stays in its range.
LEMMA StaleTypes ==
    /\ 0 \in 0..(MaxStale + 1)
    /\ \A n \in 0..(MaxStale + 1) : n <= MaxStale => n + 1 \in 0..(MaxStale + 1)
    /\ \A n \in 0..(MaxStale + 1) : ~(n > MaxStale) => n + 1 \in 0..(MaxStale + 1)
BY DEF MaxStale

\* Call, Return and Leave keep the types of what they set.
LEMMA CallTypes ==
    ASSUME TypeOK, NEW h \in Hosts, NEW c \in Calls, Call(h, c)
    PROVE  /\ call' \in [Hosts -> Calls \cup {"none"}]
           /\ reply' \in [Hosts -> Answers]
           /\ age' \in [Hosts -> 0..Timeout]
           /\ wire' \in [Hosts -> Seq(Commands)]
<1>1. Append(wire[h], Sent(Command(c))) \in Seq(Commands)
    <2>1. Sent(Command(c)) \in Commands BY CommandTypes
    <2>2. wire[h] \in Seq(Commands) BY DEF TypeOK
    <2> QED BY <2>1, <2>2
<1>2. wire' \in [Hosts -> Seq(Commands)]
    BY <1>1 DEF TypeOK, Call, Set
<1>3. call' \in [Hosts -> Calls \cup {"none"}] /\ age' \in [Hosts -> 0..Timeout]
    <2>1. 0 \in 0..Timeout OBVIOUS
    <2> QED BY <2>1 DEF TypeOK, Call, Set
<1>4. reply' \in [Hosts -> Answers]
    BY DEF TypeOK, Call, Set, Answers
<1> QED BY <1>2, <1>3, <1>4

LEMMA ReturnTypes ==
    ASSUME TypeOK, NEW h \in Hosts, Return(h)
    PROVE  /\ call' \in [Hosts -> Calls \cup {"none"}]
           /\ reply' \in [Hosts -> Answers]
           /\ age' \in [Hosts -> 0..Timeout]
BY SMTT(30) DEF TypeOK, Return, Set, Answers

LEMMA LeaveTypes ==
    ASSUME TypeOK, NEW h \in Hosts, Leave(h)
    PROVE  /\ role' \in [Hosts -> {"unset", "leader", "follower", "gone"}]
           /\ call' \in [Hosts -> Calls \cup {"none"}]
           /\ reply' \in [Hosts -> Answers]
           /\ age' \in [Hosts -> 0..Timeout]
BY SMTT(30) DEF TypeOK, Leave, Set, Answers

\* Each action keeps TypeOK.
LEMMA BootTypes ==
    ASSUME TypeOK, NEW h \in Hosts, Boot(h)
    PROVE  TypeOK'
<1>1. Call(h, "init") BY DEF Boot
<1>2. "init" \in Calls BY DEF Calls
<1> QED BY <1>1, <1>2, CallTypes DEF TypeOK, Boot, redis, bounds, histories

LEMMA CheckLeaderTypes ==
    ASSUME TypeOK, NEW h \in Hosts, CheckLeader(h)
    PROVE  TypeOK'
<1>1. timer' \in [Hosts -> 0..Interval]
    BY DEF CheckLeader, TypeOK, Set
<1>2. CASE call[h] # "none"
    BY <1>1, <1>2 DEF TypeOK, CheckLeader, redis, bounds, histories
<1>3. CASE call[h] = "none"
    <2>1. PICK c \in {"renew", "get"} : Call(h, c)
        BY <1>3 DEF CheckLeader
    <2>2. c \in Calls BY <2>1 DEF Calls
    <2> QED BY <1>1, <2>1, <2>2, CallTypes DEF TypeOK, CheckLeader, redis, bounds, histories
<1> QED BY <1>2, <1>3

LEMMA AnsweredTypes ==
    ASSUME TypeOK, NEW h \in Hosts, Answered(h)
    PROVE  TypeOK'
<1>1. timer' \in [Hosts -> 0..Interval]
    BY DEF Answered, StartInterval, TypeOK, Set
<1>2. CASE \E r \in {"leader", "follower"} : Become(h, r)
    BY <1>1, <1>2, ReturnTypes DEF Become, TypeOK, Answered, redis, bounds, histories, Set
<1>3. CASE Remain(h)
    BY <1>1, <1>3, ReturnTypes DEF Remain, TypeOK, Answered, redis, bounds, histories
<1>4. CASE \E c \in {"reclaim", "claim"} : Proceed(h, c)
    <2>1. PICK c \in {"reclaim", "claim"} : Proceed(h, c) BY <1>4
    <2>2. c \in Calls BY <2>1 DEF Calls
    <2> QED BY <1>1, <2>1, <2>2, CallTypes DEF Proceed, TypeOK, Answered, redis, bounds, histories
<1> QED BY <1>2, <1>3, <1>4 DEF Answered

LEMMA AbandonedTypes ==
    ASSUME NEW w \in Seq(Commands)
    PROVE  Abandoned(w) \in Seq(Commands)
<1>1. \A i \in 1..Len(w) : w[i] \in Commands OBVIOUS
<1>2. \A i \in 1..Len(w) : [name |-> w[i].name, awaited |-> FALSE, left |-> 0] \in Commands
    BY <1>1 DEF Commands
<1>3. Len(w) \in Nat OBVIOUS
<1> QED BY <1>2, <1>3 DEF Abandoned

LEMMA FailedTypes ==
    ASSUME TypeOK, NEW h \in Hosts, Failed(h)
    PROVE  TypeOK'
<1>1. timer' \in [Hosts -> 0..Interval] /\ failures' \in 0..MaxFailures
    BY SMTT(30) DEF Failed, StartInterval, TypeOK, Set
<1>2. wire' \in [Hosts -> Seq(Commands)]
    <2>1. <<>> \in Seq(Commands) /\ Abandoned(wire[h]) \in Seq(Commands)
        BY AbandonedTypes DEF TypeOK
    <2> QED BY <2>1 DEF Failed, TypeOK, Set
<1>3. stale' \in [Hosts -> 0..(MaxStale + 1)]
    BY StaleTypes DEF Failed, TypeOK, Set
<1>4. UNCHANGED <<redis, closing, exits, slowest>> BY DEF Failed
<1>5. CASE h \in closing
    <2>1. Leave(h) BY <1>5 DEF Failed
    <2> QED BY <1>1, <1>2, <1>3, <1>4, <2>1, LeaveTypes DEF TypeOK, redis
<1>6. CASE h \notin closing
    <2>1. Return(h) /\ role' \in [Hosts -> {"unset", "leader", "follower", "gone"}]
        BY <1>6 DEF Failed, TypeOK, Set
    <2> QED BY <1>1, <1>2, <1>3, <1>4, <2>1, ReturnTypes DEF TypeOK, redis
<1> QED BY <1>5, <1>6

LEMMA ExecuteTypes ==
    ASSUME TypeOK, NEW h \in Hosts, Execute(h)
    PROVE  TypeOK'
<1>1. Tail(wire[h]) \in Seq(Commands) BY DEF Execute, TypeOK
<1>2. wire' \in [Hosts -> Seq(Commands)]
    BY <1>1 DEF Execute, TypeOK, Set
<1>3. stale' \in [Hosts -> 0..(MaxStale + 1)]
    BY StaleTypes DEF Execute, TypeOK, Set
<1>4. key' \in Hosts \cup {None} /\ ttl' \in 0..TTL
    BY DEF Execute, Apply, Hold, redis, TypeOK
<1>5. UNCHANGED <<timer, closing, failures, exits, slowest>> BY DEF Execute, bounds
<1>6. CASE Leave(h)
    BY <1>2, <1>3, <1>4, <1>5, <1>6, LeaveTypes DEF TypeOK
<1>7. CASE /\ UNCHANGED <<role, call, age>>
           /\ reply' = reply \/ reply' = Set(reply, h, Result(h, Head(wire[h]).name))
    <2>1. Result(h, Head(wire[h]).name) \in Answers
        BY DEF Result, Answers
    <2>2. reply' \in [Hosts -> Answers] BY <1>7, <2>1 DEF TypeOK, Set
    <2> QED BY <1>2, <1>3, <1>4, <1>5, <1>7, <2>2 DEF TypeOK
<1> QED BY <1>6, <1>7 DEF Execute

LEMMA TickTypes ==
    ASSUME TypeOK, Tick
    PROVE  TypeOK'
<1>1. ttl' \in 0..TTL /\ key' \in Hosts \cup {None}
    BY DEF Tick, TypeOK, Decrease
<1>2. timer' \in [Hosts -> 0..Interval]
    BY SMTT(30) DEF Tick, TypeOK, Decrease
<1>3. age' \in [Hosts -> 0..Timeout]
    <2> SUFFICES ASSUME NEW h \in Hosts
                 PROVE  (IF call[h] = "none" THEN 0 ELSE age[h] + 1) \in 0..Timeout
        BY DEF Tick
    <2>1. age[h] \in 0..Timeout BY DEF TypeOK
    <2>2. call[h] # "none" => age[h] < Timeout BY DEF Tick
    <2> QED BY <2>1, <2>2
<1>4. stale' \in [Hosts -> 0..(MaxStale + 1)]
    BY StaleTypes DEF Tick, TypeOK
<1>5. wire' \in [Hosts -> Seq(Commands)]
    <2>1. ASSUME NEW c \in Commands
          PROVE  Older(c) \in Commands
        BY DEF Commands, Decrease, Older
    <2>2. ASSUME NEW h \in Hosts
          PROVE  [i \in 1..Len(wire[h]) |-> Older(wire[h][i])] \in Seq(Commands)
        <3>1. Len(wire[h]) \in Nat /\ \A i \in 1..Len(wire[h]) : wire[h][i] \in Commands
            BY DEF TypeOK
        <3>2. \A i \in 1..Len(wire[h]) : Older(wire[h][i]) \in Commands
            BY <2>1, <3>1
        <3> QED BY <3>1, <3>2
    <2> QED BY <2>2 DEF Tick
<1>6. slowest' \in 0..Timeout
    <2>1. slowest \in 0..Timeout BY DEF TypeOK
    <2>2. ASSUME NEW h \in Hosts, AwaitedFor(h, slowest) PROVE slowest < Timeout
        <3>1. CASE call[h] # "none" /\ age[h] = slowest
            BY <2>1, <3>1 DEF Tick
        <3>2. CASE \E i \in 1..Len(wire[h]) : wire[h][i].awaited /\ wire[h][i].left = Timeout - slowest
            <4>1. PICK i \in 1..Len(wire[h]) : wire[h][i].awaited /\ wire[h][i].left = Timeout - slowest
                BY <3>2
            <4>2. wire[h][i].left > 0 BY <4>1 DEF Tick
            <4> QED BY <2>1, <4>1, <4>2
        <3> QED BY <2>2, <3>1, <3>2 DEF AwaitedFor
    <2> QED BY <2>1, <2>2 DEF Tick
<1> QED BY <1>1, <1>2, <1>3, <1>4, <1>5, <1>6 DEF Tick, TypeOK, bounds

LEMMA ShutdownTypes ==
    ASSUME TypeOK, NEW h \in Hosts, Shutdown(h)
    PROVE  TypeOK'
<1>1. exits' \in 0..MaxExits /\ closing' \in SUBSET Hosts
    BY DEF Shutdown, TypeOK
<1>2. CASE role[h] = "leader"
    <2>1. Append(wire[h], Sent("del")) \in Seq(Commands)
        BY CommandTypes DEF TypeOK
    <2>2. wire' \in [Hosts -> Seq(Commands)]
        BY <1>2, <2>1 DEF Shutdown, TypeOK, Set
    <2> QED BY <1>1, <1>2, <2>2 DEF Shutdown, TypeOK, redis, histories
<1>3. CASE role[h] # "leader"
    BY <1>1, <1>3, LeaveTypes DEF Shutdown, TypeOK, redis, histories
<1> QED BY <1>2, <1>3

LEMMA CrashTypes ==
    ASSUME TypeOK, NEW h \in Hosts, Crash(h)
    PROVE  TypeOK'
<1>1. exits' \in 0..MaxExits
    BY DEF Crash, TypeOK
<1>2. wire' \in [Hosts -> Seq(Commands)]
    <2>1. CASE wire' = wire BY <2>1 DEF TypeOK
    <2>2. CASE wire' = Set(wire, h, <<>>)
        <3>1. <<>> \in Seq(Commands) OBVIOUS
        <3> QED BY <2>2, <3>1 DEF TypeOK, Set
    <2> QED BY <2>1, <2>2 DEF Crash
<1> QED BY <1>1, <1>2, LeaveTypes DEF Crash, TypeOK, redis, histories

LEMMA StutterTypes ==
    ASSUME TypeOK, UNCHANGED vars
    PROVE  TypeOK'
BY DEF TypeOK, vars, redis, bounds, histories

\* Type correctness of hosts, Redis and what is between them.
THEOREM TypeCorrect == Spec => []TypeOK
<1>1. Init => TypeOK
    <2>1. 0 \in 0..Timeout OBVIOUS
    <2> QED BY <2>1, StaleTypes DEF Init, TypeOK, Answers
<1>2. TypeOK /\ [Next]_vars => TypeOK'
    BY BootTypes, CheckLeaderTypes, AnsweredTypes, FailedTypes, ExecuteTypes, TickTypes,
       ShutdownTypes, CrashTypes, StutterTypes DEF Next
<1> QED BY <1>1, <1>2, PTL DEF Spec

-----------------------------------------------------------------------------
(* One lemma per action that does not fail.  What a host does leaves the   *)
(* others as they are, except for the key.                                 *)

LEMMA HostTypes ==
    ASSUME TypeOK, NEW h \in Hosts
    PROVE  /\ ttl \in Nat /\ age[h] \in 0..Timeout /\ timer[h] \in 0..Interval
           /\ wire[h] \in Seq(Commands) /\ Len(wire[h]) \in Nat
           /\ \A i \in 1..Len(wire[h]) : wire[h][i] \in Commands /\ wire[h][i].left \in 0..Timeout
           /\ h # None /\ slowest \in 0..Timeout /\ Margin \in Int
<1>1. wire[h] \in Seq(Commands) BY DEF TypeOK
<1>2. \A i \in 1..Len(wire[h]) : wire[h][i] \in Commands BY <1>1
<1>3. \A c \in Commands : c.left \in 0..Timeout BY DEF Commands
<1>4. slowest \in 0..Timeout /\ Margin \in Int BY DEF TypeOK, Margin
<1> QED BY SMTT(30), <1>1, <1>2, <1>3, <1>4 DEF TypeOK

\* What a host sets of its own leaves another host's alone.
LEMMA SetOthers ==
    ASSUME TypeOK, NEW h \in Hosts, NEW g \in Hosts, g # h
    PROVE  /\ \A c \in Calls : Call(h, c) =>
                  /\ call'[g] = call[g] /\ reply'[g] = reply[g]
                  /\ age'[g] = age[g] /\ wire'[g] = wire[g]
           /\ Leave(h) => /\ role'[g] = role[g] /\ call'[g] = call[g]
                          /\ reply'[g] = reply[g] /\ age'[g] = age[g]
<1>1. /\ g \in DOMAIN role /\ g \in DOMAIN call /\ g \in DOMAIN reply /\ g \in DOMAIN age
      /\ g \in DOMAIN wire
    BY DEF TypeOK
<1> QED BY <1>1 DEF Call, Leave, Set

LEMMA TimeTypes == {TTL, Interval, Timeout} \subseteq Nat /\ TTL > 0 /\ Timeout > 0 /\ Interval > 0
OBVIOUS

\* A step of another host or of Redis that leaves the key to g, or away from g.
LEMMA Frame ==
    ASSUME TypeOK, TypeOK', NEW g \in Hosts, Good(g),
           role'[g] = role[g], call'[g] = call[g], reply'[g] = reply[g], age'[g] = age[g],
           wire'[g] = wire[g], timer'[g] = timer[g], g \in closing' <=> g \in closing,
           key' = g <=> key = g, key = g => ttl' >= ttl, slowest' = slowest
    PROVE  Good(g)'
<1>1. CallOfRole(g)' /\ WireOfCall(g)'
    BY DEF Good, CallOfRole, WireOfCall, Alive, Pending
<1>2. Margin' = Margin /\ Margin \in Int BY HostTypes DEF Margin
<1>3. Lease(g)'
    <2>1. /\ ttl \in Nat /\ ttl' \in Nat /\ age[g] \in Nat /\ timer[g] \in Nat
          /\ TTL \in Nat /\ Timeout \in Nat
        BY HostTypes, TimeTypes DEF TypeOK
    <2> QED BY <1>2, <2>1 DEF Good, Lease, Pending
<1>4. DelOwned(g)'
    <2>1. SUFFICES ASSUME NEW i \in 1..Len(wire[g]), wire[g][i].name = "del"
                   PROVE  /\ key' = g
                          /\ wire[g][1].awaited /\ wire[g][i].awaited
                          /\ ttl' + Timeout - wire[g][1].left >= Margin
                          /\ i > 1 => i = 2 /\ wire[g][1].name = "renew"
        BY <1>2 DEF DelOwned
    <2>2. PICK n \in Nat : n = ttl'
        BY DEF TypeOK
    <2>3. wire[g][1].left \in Nat
        <3>1. 1 \in 1..Len(wire[g]) BY <2>1, HostTypes
        <3> QED BY <3>1, HostTypes
    <2>4. /\ key = g /\ wire[g][1].awaited /\ wire[g][i].awaited
          /\ ttl + Timeout - wire[g][1].left >= Margin
          /\ i > 1 => i = 2 /\ wire[g][1].name = "renew"
        BY <2>1 DEF Good, DelOwned
    <2>5. n + Timeout - wire[g][1].left >= Margin
        <3>1. PICK l \in Nat : l = wire[g][1].left BY <2>3
        <3>2. PICK m \in Int : m = Margin BY <1>2
        <3>3. ttl \in Nat /\ Timeout \in Nat /\ n >= ttl BY <2>2, <2>4, HostTypes, TimeTypes
        <3>4. ttl + Timeout - l >= m BY <2>4, <3>1, <3>2
        <3>5. n + Timeout - l >= m BY <3>3, <3>4
        <3> QED BY <3>1, <3>2, <3>5
    <2> QED BY <2>2, <2>4, <2>5
<1> QED BY <1>1, <1>3, <1>4 DEF Good

\* A host that waits for nothing has nothing on the wire, unless it shuts down.
LEMMA NothingOnWire ==
    ASSUME TypeOK, NEW h \in Hosts, Good(h), Alive(h), ~Pending(h), h \notin closing
    PROVE  Len(wire[h]) = 0
BY HostTypes DEF Good, WireOfCall

\* A host that makes a call with nothing on the wire.
LEMMA CallGood ==
    ASSUME TypeOK, NEW h \in Hosts, Good(h), Alive(h), ~Pending(h), h \notin closing,
           NEW c \in Calls, Call(h, c), UNCHANGED <<role, closing, redis, slowest>>,
           timer'[h] \in Nat,
           role[h] = "unset" => c = "init",
           role[h] = "follower" => c \in {"get", "claim"},
           role[h] = "leader" => c = "renew" /\ ttl >= Margin,
           reply[h] # "ok" \/ role[h] = "leader"
    PROVE  Good(h)'
<1>1. Len(wire[h]) = 0 BY NothingOnWire
<1>2. /\ role'[h] = role[h] /\ call'[h] = c /\ reply'[h] = "none" /\ age'[h] = 0
      /\ wire'[h] = Append(wire[h], Sent(Command(c)))
    BY DEF Call, Set, TypeOK
<1>3. Len(wire'[h]) = 1 /\ wire'[h][1] = Sent(Command(c))
    BY <1>1, <1>2, HostTypes, CommandTypes
<1>4. c # "none" /\ Command(c) # "del" BY CommandTypes DEF Calls
<1>5. CallOfRole(h)'
    BY <1>2, <1>4 DEF CallOfRole, Alive, TypeOK
<1>6. WireOfCall(h)'
    BY <1>2, <1>3, <1>4, TimeTypes DEF WireOfCall, Pending, Sent
<1>7. Lease(h)'
    <2>1. Margin' = Margin /\ ttl' + 0 = ttl BY HostTypes DEF Margin, redis
    <2> QED BY <1>2, <1>4, <2>1, TimeTypes, HostTypes DEF Lease, Pending, redis, Good
<1>8. DelOwned(h)'
    BY <1>3, <1>4 DEF DelOwned, Sent
<1> QED BY <1>5, <1>6, <1>7, <1>8 DEF Good

LEMMA BootGood ==
    ASSUME TypeOK, TypeOK', Ordered, NEW h \in Hosts, Boot(h)
    PROVE  Ordered'
<1>1. Good(h) BY DEF Ordered
<1>2. Good(h)'
    <2>1. "init" \in Calls /\ timer'[h] \in Nat /\ ~Pending(h) /\ Alive(h)
        BY HostTypes, TimeTypes DEF Calls, Boot, Pending, Alive, TypeOK
    <2>2. h \notin closing /\ reply[h] # "ok"
        BY <1>1 DEF Good, CallOfRole, Boot
    <2> QED BY <1>1, <2>1, <2>2, CallGood DEF Boot, histories
<1>3. ASSUME NEW g \in Hosts, g # h PROVE Good(g)'
    <2>1. Good(g) BY DEF Ordered
    <2>2. /\ role'[g] = role[g] /\ call'[g] = call[g] /\ reply'[g] = reply[g]
          /\ age'[g] = age[g] /\ wire'[g] = wire[g] /\ timer'[g] = timer[g]
          /\ closing' = closing /\ key' = key /\ ttl' = ttl /\ slowest' = slowest
        BY <1>3 DEF Boot, Call, Set, TypeOK, redis, histories
    <2>3. ttl' >= ttl BY <2>2, HostTypes
    <2> QED BY <2>1, <2>2, <2>3, Frame
<1> QED BY <1>2, <1>3 DEF Ordered

LEMMA CheckLeaderGood ==
    ASSUME TypeOK, TypeOK', Ordered, NEW h \in Hosts, CheckLeader(h)
    PROVE  Ordered'
<1>1. Good(h) BY DEF Ordered
<1>2. ASSUME NEW g \in Hosts, g # h PROVE Good(g)'
    <2>1. Good(g) BY DEF Ordered
    <2>2. /\ role'[g] = role[g] /\ call'[g] = call[g] /\ reply'[g] = reply[g]
          /\ age'[g] = age[g] /\ wire'[g] = wire[g] /\ timer'[g] = timer[g]
          /\ closing' = closing /\ key' = key /\ ttl' = ttl /\ slowest' = slowest
        <3>1. timer'[g] = timer[g] BY <1>2 DEF CheckLeader, Set, TypeOK
        <3>2. {"renew", "get"} \subseteq Calls BY DEF Calls
        <3>3. \/ UNCHANGED <<call, reply, age, wire>>
              \/ Call(h, "renew") \/ Call(h, "get")
            BY DEF CheckLeader
        <3> QED BY <1>2, <3>1, <3>2, <3>3, SetOthers DEF CheckLeader, redis, histories
    <2>3. ttl' >= ttl BY <2>2, HostTypes
    <2> QED BY <2>1, <2>2, <2>3, Frame
<1>3. CASE call[h] # "none"
    <2>1. CallOfRole(h)' /\ WireOfCall(h)' /\ DelOwned(h)'
        BY <1>1, <1>3 DEF Good, CheckLeader, CallOfRole, WireOfCall, DelOwned, Alive, Pending, redis,
                          Margin, histories
    <2>2. Lease(h)'
        BY <1>1, <1>3 DEF Good, CheckLeader, Lease, Pending, redis, Margin, histories
    <2> QED BY <1>2, <2>1, <2>2 DEF Ordered, Good
<1>4. CASE call[h] = "none"
    <2>1. PICK c \in Calls : Call(h, c) /\ c = IF role[h] = "leader" THEN "renew" ELSE "get"
        BY <1>4 DEF CheckLeader, Calls
    <2>2. /\ UNCHANGED <<role, closing, redis, slowest>> /\ h \notin closing /\ Alive(h) /\ ~Pending(h)
          /\ role[h] \in {"leader", "follower"} /\ timer[h] = 0
        BY <1>4 DEF CheckLeader, Alive, Pending, histories
    <2>3. timer'[h] \in Nat BY HostTypes, TimeTypes DEF TypeOK
    <2>4. reply[h] # "ok" BY <1>1, <1>4 DEF Good, CallOfRole
    <2>5. role[h] = "leader" => ttl >= Margin
        BY <1>1, <1>4, <2>2, HostTypes DEF Good, Lease
    <2>6. Good(h)' BY <1>1, <2>1, <2>2, <2>3, <2>4, <2>5, CallGood
    <2> QED BY <1>2, <2>6 DEF Ordered
<1> QED BY <1>3, <1>4

\* A check or an init that ends with the role its answer stands for.
LEMMA ReturnGood ==
    ASSUME TypeOK, TypeOK', NEW h \in Hosts, Waited(h), Good(h), reply[h] # "none",
           Return(h), UNCHANGED <<wire, closing, redis, slowest>>,
           role'[h] \in {"leader", "follower"},
           role'[h] = "leader" <=> reply[h] = "ok",
           role[h] = "leader" => role'[h] = "leader"
    PROVE  Good(h)'
<1>1. call'[h] = "none" /\ reply'[h] = "none" /\ wire' = wire /\ closing' = closing
    BY DEF Return, Set, TypeOK
<1>2. call[h] # "none" /\ Alive(h) /\ ~Pending(h) BY DEF Good, CallOfRole, Alive, Pending
<1>3. CallOfRole(h)' /\ WireOfCall(h)'
    BY <1>1, <1>2 DEF Good, CallOfRole, WireOfCall, Alive, Pending
<1>4. DelOwned(h)' BY <1>1 DEF Good, DelOwned, redis, Margin
<1>5. Lease(h)'
    <2>1. /\ ttl \in Nat /\ age[h] \in 0..Timeout /\ timer'[h] \in 0..Interval
          /\ TTL \in Nat /\ Timeout \in Nat /\ Interval \in Nat
        BY HostTypes, TimeTypes DEF TypeOK
    <2>2. key' = key /\ ttl' = ttl BY DEF redis
    <2>3. reply[h] = "ok" => key = h /\ ttl >= TTL - age[h] /\ age[h] <= slowest
        BY <1>2 DEF Good, Lease, Waited
    <2>4. reply[h] = "ok" => ttl - timer'[h] >= Margin'
        BY <2>1, <2>3, HostTypes DEF Margin
    <2>5. reply[h] # "ok" => key # h
        <3>1. role[h] \in {"unset", "follower", "leader"} BY <1>2 DEF Alive, TypeOK
        <3> QED BY <3>1 DEF Good, Lease
    <2> QED BY <1>1, <2>2, <2>3, <2>4, <2>5 DEF Lease, Pending
<1> QED BY <1>3, <1>4, <1>5 DEF Good

LEMMA AnsweredGood ==
    ASSUME TypeOK, TypeOK', WaitedInv, Ordered, NEW h \in Hosts, Answered(h)
    PROVE  Ordered'
<1>1. Good(h) /\ Waited(h) /\ reply[h] # "none" /\ UNCHANGED <<closing, redis, slowest>>
    BY DEF Ordered, WaitedInv, Answered, histories
<1>2. ASSUME NEW g \in Hosts, g # h PROVE Good(g)'
    <2>1. Good(g) BY DEF Ordered
    <2>2. /\ role'[g] = role[g] /\ call'[g] = call[g] /\ reply'[g] = reply[g]
          /\ age'[g] = age[g] /\ wire'[g] = wire[g]
        <3>1. CASE \E r \in {"leader", "follower"} : Become(h, r)
            BY <1>2, <3>1 DEF Become, Return, Set, TypeOK
        <3>2. CASE Remain(h) BY <1>2, <3>2 DEF Remain, Return, Set, TypeOK
        <3>3. CASE \E c \in {"reclaim", "claim"} : Proceed(h, c)
            BY <1>2, <3>3 DEF Proceed, Call, Set, TypeOK
        <3> QED BY <3>1, <3>2, <3>3 DEF Answered
    <2>3. /\ timer'[g] = timer[g] /\ closing' = closing /\ key' = key /\ ttl' = ttl
          /\ slowest' = slowest
        BY <1>2 DEF Answered, StartInterval, Set, TypeOK, redis, histories
    <2>4. ttl' >= ttl BY <2>3, HostTypes
    <2> QED BY <2>1, <2>2, <2>3, <2>4, Frame
<1>3. Good(h)'
    <2>1. CASE call[h] \in {"init", "claim"} /\ reply[h] = "ok" /\ Become(h, "leader")
        BY <1>1, <2>1, ReturnGood DEF Become, Set, TypeOK
    <2>2. CASE call[h] = "init" /\ reply[h] = "other" /\ Become(h, "follower")
        <3>1. role[h] = "unset" \/ role[h] = "leader" BY <1>1, <2>2 DEF Good, CallOfRole, TypeOK
        <3>2. role[h] # "leader" BY <1>1, <2>2 DEF Good, CallOfRole
        <3> QED BY <1>1, <2>2, <3>2, ReturnGood DEF Become, Set, TypeOK
    <2>3. CASE call[h] \in {"renew", "reclaim"} /\ reply[h] = "ok" /\ Remain(h)
        <3>1. role[h] = "leader" BY <1>1, <2>3 DEF Good, CallOfRole, TypeOK
        <3> QED BY <1>1, <2>3, <3>1, ReturnGood DEF Remain
    <2>4. CASE call[h] \in {"renew", "reclaim"} /\ reply[h] \in {"other", "missing"}
        <3>1. role[h] = "leader" BY <1>1, <2>4 DEF Good, CallOfRole, TypeOK
        <3> QED BY <1>1, <2>4, <3>1 DEF Good, Lease
    <2>5. CASE reply[h] = "self"
        BY <1>1, <2>5 DEF Good, Lease
    <2>6. CASE call[h] \in {"get", "claim"} /\ reply[h] = "other" /\ Remain(h)
        <3>1. role[h] = "follower" BY <1>1, <2>6 DEF Good, CallOfRole, TypeOK
        <3> QED BY <1>1, <2>6, <3>1, ReturnGood DEF Remain
    <2>7. CASE call[h] = "get" /\ reply[h] = "missing" /\ Proceed(h, "claim")
        <3>1. role[h] = "follower" BY <1>1, <2>7 DEF Good, CallOfRole, TypeOK
        <3>2. h \notin closing BY <1>1, <3>1 DEF Good, CallOfRole
        <3>3. "claim" \in Calls /\ timer'[h] \in Nat /\ Alive(h) /\ ~Pending(h)
            BY <1>1, <3>1, HostTypes, TimeTypes DEF Calls, Alive, Pending, TypeOK
        <3> QED BY <1>1, <2>7, <3>1, <3>2, <3>3, CallGood DEF Proceed
    <2> QED BY <2>1, <2>2, <2>3, <2>4, <2>5, <2>6, <2>7 DEF Answered
<1> QED BY <1>2, <1>3 DEF Ordered

\* A host that is gone needs nothing but what its del may meet.
LEMMA LeaveGood ==
    ASSUME TypeOK, TypeOK', NEW h \in Hosts, Leave(h), UNCHANGED <<timer, redis, slowest>>,
           DelOwned(h), wire'[h] = wire[h] \/ wire'[h] = <<>>
    PROVE  Good(h)'
<1>1. role'[h] = "gone" /\ call'[h] = "none" /\ reply'[h] = "none"
    BY DEF Leave, Set, TypeOK
<1>2. DelOwned(h)'
    <2>1. Len(<<>>) = 0 OBVIOUS
    <2> QED BY <2>1 DEF DelOwned, redis, Margin
<1> QED BY <1>1, <1>2 DEF Good, CallOfRole, WireOfCall, Lease, Alive, Pending

LEMMA CrashGood ==
    ASSUME TypeOK, TypeOK', Ordered, NEW h \in Hosts, Crash(h)
    PROVE  Ordered'
<1>1. Good(h) BY DEF Ordered
<1>2. wire'[h] = wire[h] \/ wire'[h] = <<>> BY DEF Crash, Set, TypeOK
<1>3. Good(h)' BY <1>1, <1>2, LeaveGood DEF Crash, Good, histories
<1>4. ASSUME NEW g \in Hosts, g # h PROVE Good(g)'
    <2>1. Good(g) BY DEF Ordered
    <2>2. /\ role'[g] = role[g] /\ call'[g] = call[g] /\ reply'[g] = reply[g]
          /\ age'[g] = age[g] /\ wire'[g] = wire[g] /\ timer'[g] = timer[g]
          /\ closing' = closing /\ key' = key /\ ttl' = ttl /\ slowest' = slowest
        <3>1. wire'[g] = wire[g] BY <1>4 DEF Crash, Set, TypeOK
        <3> QED BY <1>4, <3>1, SetOthers DEF Crash, redis, histories
    <2>3. ttl' >= ttl BY <2>2, HostTypes
    <2> QED BY <2>1, <2>2, <2>3, Frame
<1> QED BY <1>3, <1>4 DEF Ordered

LEMMA ShutdownGood ==
    ASSUME TypeOK, TypeOK', WaitedInv, Ordered, NEW h \in Hosts, Shutdown(h)
    PROVE  Ordered'
<1>1. Good(h) /\ Waited(h) /\ slowest' = slowest BY DEF Ordered, WaitedInv, Shutdown, histories
<1>2. ASSUME NEW g \in Hosts, g # h PROVE Good(g)'
    <2>1. Good(g) BY DEF Ordered
    <2>2. /\ role'[g] = role[g] /\ call'[g] = call[g] /\ reply'[g] = reply[g]
          /\ age'[g] = age[g] /\ wire'[g] = wire[g] /\ timer'[g] = timer[g]
          /\ (g \in closing' <=> g \in closing) /\ key' = key /\ ttl' = ttl
          /\ slowest' = slowest
        <3>1. \/ Leave(h) /\ wire' = wire
              \/ /\ wire' = Set(wire, h, Append(wire[h], Sent("del")))
                 /\ UNCHANGED <<role, call, reply, age>>
            BY DEF Shutdown
        <3>2. wire'[g] = wire[g] BY <1>2, <3>1 DEF Set, TypeOK
        <3> QED BY <1>2, <3>1, <3>2, SetOthers DEF Shutdown, redis, histories
    <2>3. ttl' >= ttl BY <2>2, HostTypes
    <2> QED BY <2>1, <2>2, <2>3, Frame
<1>3. Good(h)'
    <2>1. CASE role[h] # "leader"
        <3>1. Leave(h) /\ UNCHANGED <<timer, redis, slowest>> /\ wire'[h] = wire[h]
            BY <2>1 DEF Shutdown, histories
        <3> QED BY <1>1, <3>1, LeaveGood DEF Good
    <2>2. CASE role[h] = "leader"
        <3>1. /\ h \notin closing /\ h \in closing'
              /\ wire'[h] = Append(wire[h], Sent("del"))
              /\ UNCHANGED <<role, call, reply, age, timer, redis>>
            BY <2>2 DEF Shutdown, Set, TypeOK
        <3>2. Alive(h) BY <2>2 DEF Alive
        <3>3. CallOfRole(h)' BY <1>1, <2>2, <3>1 DEF Good, CallOfRole
        <3>4. Lease(h)' BY <1>1, <3>1 DEF Good, Lease, Pending, redis, Margin
        <3>5. Len(wire[h]) = IF Pending(h) THEN 1 ELSE 0
            BY <1>1, <3>1, <3>2 DEF Good, WireOfCall
        <3>6. Sent("del").name = "del" /\ Sent("del").awaited /\ Sent("del").left = Timeout
            BY DEF Sent
        <3>7. CASE Pending(h)
            <4>1. Len(wire[h]) = 1 BY <3>5, <3>7
            <4>2. Len(wire'[h]) = 2 /\ wire'[h][1] = wire[h][1] /\ wire'[h][2] = Sent("del")
                <5>1. wire[h] \in Seq(Commands) /\ Sent("del") \in Commands
                    BY HostTypes, CommandTypes
                <5> QED BY SMTT(30), <3>1, <4>1, <5>1
            <4>3. WireOfCall(h)'
                BY <1>1, <3>1, <3>2, <3>6, <3>7, <4>2 DEF Good, WireOfCall, Pending, Alive
            <4>4. /\ call[h] = "renew" /\ wire[h][1].name = "renew" /\ wire[h][1].awaited
                  /\ wire[h][1].left = Timeout - age[h] /\ key = h /\ ttl + age[h] >= Margin
                BY <1>1, <2>2, <3>2, <3>7 DEF Good, CallOfRole, WireOfCall, Lease, Pending, Command
            <4>5. Margin' = Margin /\ ttl' + Timeout - wire[h][1].left >= Margin
                BY <1>1, <3>1, <4>4, HostTypes, TimeTypes DEF Margin, redis
            <4>6. DelOwned(h)'
                BY <3>1, <3>6, <4>2, <4>4, <4>5 DEF DelOwned, redis
            <4> QED BY <3>3, <3>4, <4>3, <4>6 DEF Good
        <3>8. CASE ~Pending(h)
            <4>1. Len(wire[h]) = 0 BY <3>5, <3>8
            <4>2. Len(wire'[h]) = 1 /\ wire'[h][1] = Sent("del")
                BY <3>1, <4>1, HostTypes, CommandTypes
            <4>3. WireOfCall(h)'
                BY <3>1, <3>6, <3>8, <4>2 DEF WireOfCall, Pending
            <4>4. key = h BY <1>1, <2>2 DEF Good, Lease
            <4>5. ttl >= Margin
                <5>1. /\ ttl \in Nat /\ age[h] \in 0..Timeout /\ timer[h] \in Nat
                      /\ TTL \in Nat /\ Timeout \in Nat /\ Interval \in Nat
                      /\ slowest \in Nat /\ Margin \in Int
                    BY HostTypes, TimeTypes
                <5>2. CASE call[h] = "none"
                    BY <1>1, <2>2, <3>1, <5>1, <5>2 DEF Good, Lease
                <5>3. CASE call[h] # "none"
                    <6>1. reply[h] = "ok"
                        BY <1>1, <2>2, <3>8, <5>3 DEF Good, Lease, Pending
                    <6>2. ttl >= TTL - age[h] /\ age[h] <= slowest
                        BY <1>1, <5>3, <6>1 DEF Good, Lease, Waited
                    <6> QED BY <5>1, <6>2 DEF Margin
                <5> QED BY <5>2, <5>3
            <4>6. Margin' = Margin /\ ttl' + Timeout - Timeout >= Margin
                BY <1>1, <3>1, <4>5, HostTypes, TimeTypes DEF Margin, redis
            <4>7. DelOwned(h)'
                BY <3>1, <3>6, <4>2, <4>4, <4>6 DEF DelOwned, redis
            <4> QED BY <3>3, <3>4, <4>3, <4>7 DEF Good
        <3> QED BY <3>7, <3>8
    <2> QED BY <2>1, <2>2
<1> QED BY <1>2, <1>3 DEF Ordered

LEMMA TickGood ==
    ASSUME TypeOK, TypeOK', Renewable', WaitedInv', Ordered, Tick
    PROVE  Ordered'
<1> SUFFICES ASSUME NEW h \in Hosts PROVE Good(h)'
    BY DEF Ordered
<1>1. Good(h) BY DEF Ordered
<1>2. /\ ttl \in Nat /\ age[h] \in 0..Timeout /\ timer[h] \in Nat
      /\ TTL \in Nat /\ Timeout \in Nat /\ Interval \in Nat
      /\ slowest \in Nat /\ slowest' \in Nat /\ Interval > 0
    BY HostTypes, TimeTypes DEF TypeOK
<1>3. /\ Margin \in Int /\ Margin' \in Int /\ Margin' <= Margin /\ Margin' > slowest'
      /\ Margin' < TTL - slowest'
    <2>1. PICK n \in Nat : n = slowest' BY <1>2
    <2>2. n >= slowest BY <1>2, <2>1 DEF Tick
    <2>3. TTL > Interval + 2 * n /\ Margin' = TTL - Interval - n BY <2>1 DEF Renewable, Margin
    <2>4. /\ TTL - Interval - n \in Int /\ TTL - Interval - n > n /\ TTL - Interval - n < TTL - n
          /\ TTL - Interval - n <= TTL - Interval - slowest
        BY <1>2, <2>2, <2>3
    <2>5. Margin \in Int /\ Margin = TTL - Interval - slowest BY HostTypes DEF Margin
    <2> QED BY <2>1, <2>3, <2>4, <2>5
<1>4. Waited(h)' BY DEF WaitedInv
<1>5. /\ UNCHANGED <<role, call, reply, closing>>
      /\ ttl' = Decrease(ttl) /\ key' = (IF ttl' = 0 THEN None ELSE key)
      /\ timer'[h] = Decrease(timer[h])
      /\ age'[h] = IF call[h] = "none" THEN 0 ELSE age[h] + 1
      /\ wire'[h] = [i \in 1..Len(wire[h]) |-> Older(wire[h][i])]
      /\ role[h] \in {"leader", "follower"} /\ h \notin closing => timer[h] > 0
      /\ call[h] # "none" => age[h] < Timeout
      /\ \A i \in 1..Len(wire[h]) : wire[h][i].awaited => wire[h][i].left > 0
    BY DEF Tick
<1>6. /\ Len(wire'[h]) = Len(wire[h])
      /\ \A i \in 1..Len(wire[h]) : /\ wire'[h][i].name = wire[h][i].name
                                    /\ wire'[h][i].awaited = wire[h][i].awaited
                                    /\ wire'[h][i].left = Decrease(wire[h][i].left)
    BY <1>5, HostTypes DEF Older
<1>7. ASSUME 1 \in 1..Len(wire[h]), wire[h][1].awaited
       PROVE  /\ wire[h][1].left \in Nat /\ wire'[h][1].left = wire[h][1].left - 1
              /\ ttl + Timeout - wire[h][1].left >= Margin => ttl > 1
    <2>1. wire[h][1].left \in Nat /\ wire[h][1].left > 0
        BY <1>5, <1>7, HostTypes
    <2>2. wire'[h][1].left = wire[h][1].left - 1
        BY <1>6, <1>7, <2>1 DEF Decrease
    <2>3. 1 \in 1..Len(wire'[h]) /\ wire'[h][1].awaited
        BY <1>6, <1>7
    <2>4. Timeout - wire'[h][1].left <= slowest'
        BY <1>4, <2>3 DEF Waited
    <2> QED BY <1>2, <1>3, <2>1, <2>2, <2>4
<1>8. CallOfRole(h)' BY <1>1, <1>5 DEF Good, CallOfRole
<1>9. WireOfCall(h)'
    <2>1. CASE Pending(h) /\ Alive(h)
        <3>1. 1 \in 1..Len(wire[h]) /\ Len(wire[h]) \in 1..Len(wire[h])
            BY <1>1, <2>1 DEF Good, WireOfCall
        <3>2. wire[h][1].left > 0 /\ wire[h][1].left = Timeout - age[h]
            BY <1>1, <1>5, <2>1, <3>1 DEF Good, WireOfCall
        <3>3. wire'[h][1].left = wire[h][1].left - 1
            <4>1. wire'[h][1].left = Decrease(wire[h][1].left)
                BY <1>6, <3>1
            <4>2. ASSUME NEW n \in Nat, n > 0 PROVE Decrease(n) = n - 1
                BY <4>2 DEF Decrease
            <4>3. wire[h][1].left \in Nat
                BY <1>2, <3>2
            <4> QED BY <3>2, <4>1, <4>2, <4>3
        <3>4. age'[h] = age[h] + 1 BY <1>5, <2>1 DEF Pending
        <3>5. wire'[h][1].left = Timeout - age'[h]
            BY <1>2, <3>2, <3>3, <3>4
        <3> QED BY <1>1, <1>5, <1>6, <2>1, <3>1, <3>5 DEF Good, WireOfCall, Pending, Alive
    <2>2. CASE ~Pending(h) /\ Alive(h)
        <3>1. h \in closing => Len(wire[h]) = 1
            BY <1>1, <2>2 DEF Good, WireOfCall
        <3>2. ~Pending(h)'
            BY <1>5, <2>2 DEF Pending, Alive
        <3>3. Len(wire[h]) = IF h \in closing THEN 1 ELSE 0
            BY <1>1, <2>2 DEF Good, WireOfCall
        <3>4. h \in closing => wire'[h][Len(wire'[h])].name = "del"
            <4> SUFFICES ASSUME h \in closing PROVE wire'[h][1].name = "del"
                BY <1>6, <3>1
            <4>1. wire[h][1].name = "del"
                BY <1>1, <2>2, <3>1 DEF Good, WireOfCall
            <4> QED BY <1>6, <3>1, <4>1
        <3> QED BY <1>5, <1>6, <3>2, <3>3, <3>4 DEF WireOfCall
    <2>3. CASE ~Alive(h) BY <1>5, <2>3 DEF WireOfCall, Alive
    <2> QED BY <2>1, <2>2, <2>3
<1>10. Lease(h)'
    <2>1. CASE reply[h] = "ok"
        <3>1. call[h] # "none" /\ key = h /\ ttl >= TTL - age[h] /\ age[h] < Timeout
            BY <1>1, <1>5, <2>1 DEF Good, CallOfRole, Lease
        <3>2. age'[h] = age[h] + 1 /\ age'[h] <= slowest'
            BY <1>5, <1>4, <3>1 DEF Waited
        <3>3. ttl > 1
            <4>1. PICK n \in Nat, m \in Int : n = slowest' /\ m = Margin' BY <1>2, <1>3
            <4>2. age[h] + 1 <= n /\ n < m /\ m < TTL - n BY <1>3, <3>2, <4>1
            <4>3. ttl \in Nat /\ TTL \in Nat /\ age[h] \in Nat /\ ttl >= TTL - age[h] BY <1>2, <3>1
            <4>4. PICK a \in Nat : a = age[h] BY <4>3
            <4>5. a + 1 <= n /\ n < m /\ m < TTL - n /\ ttl >= TTL - a BY <4>2, <4>3, <4>4
            <4> QED BY <4>3, <4>5
        <3>4. key' = h /\ ttl' >= TTL - age'[h]
            BY <1>2, <1>5, <3>1, <3>2, <3>3 DEF Decrease
        <3> QED BY <1>1, <1>5, <2>1, <3>1, <3>4 DEF Good, Lease, Pending
    <2>2. CASE reply[h] # "ok" /\ role[h] = "leader"
        <3>1. reply[h] = "none" /\ key = h BY <1>1, <2>2 DEF Good, Lease
        <3>2. CASE call[h] # "none"
            <4>1. ttl + age[h] >= Margin
                BY <1>1, <2>2, <3>1, <3>2 DEF Good, Lease, Pending
            <4>2. age'[h] = age[h] + 1 /\ age'[h] <= slowest'
                BY <1>5, <1>4, <3>2 DEF Waited
            <4>3. ttl' = ttl - 1 /\ ttl' > 0 /\ ttl' + age'[h] >= Margin'
                BY <1>2, <1>5, <1>3, <4>1, <4>2 DEF Decrease
            <4> QED BY <1>5, <2>2, <3>1, <3>2, <4>3 DEF Lease, Pending
        <3>3. CASE call[h] = "none" /\ h \notin closing
            <4>1. ttl - timer[h] >= Margin /\ timer[h] > 0
                BY <1>1, <1>5, <2>2, <3>3 DEF Good, Lease
            <4>2. ttl' > 0 /\ ttl' - timer'[h] >= Margin'
                BY <1>2, <1>5, <1>3, <4>1 DEF Decrease
            <4> QED BY <1>5, <2>2, <3>1, <3>3, <4>2 DEF Lease, Pending
        <3>4. CASE call[h] = "none" /\ h \in closing
            <4>1. Len(wire[h]) = 1 /\ wire[h][1].name = "del"
                BY <1>1, <2>2, <3>4 DEF Good, WireOfCall, Pending, Alive
            <4>2. 1 \in 1..Len(wire[h]) /\ wire[h][1].awaited BY <1>1, <4>1 DEF Good, DelOwned
            <4>3. ttl > 1 BY <1>1, <1>7, <4>1, <4>2 DEF Good, DelOwned
            <4>4. ttl' > 0 BY <1>2, <1>5, <4>3 DEF Decrease
            <4> QED BY <1>5, <2>2, <3>1, <3>4, <4>4 DEF Lease, Pending
        <3> QED BY <3>2, <3>3, <3>4
    <2>3. CASE reply[h] # "ok" /\ role[h] # "leader"
        <3>1. key' = h => key = h BY <1>5, HostTypes
        <3> QED BY <1>1, <1>5, <2>3, <3>1 DEF Good, Lease
    <2> QED BY <2>1, <2>2, <2>3
<1>11. DelOwned(h)'
    <2> SUFFICES ASSUME NEW i \in 1..Len(wire[h]), wire[h][i].name = "del"
                 PROVE  /\ key' = h
                        /\ wire'[h][1].awaited /\ wire'[h][i].awaited
                        /\ ttl' + Timeout - wire'[h][1].left >= Margin'
                        /\ i > 1 => i = 2 /\ wire'[h][1].name = "renew"
        BY <1>6 DEF DelOwned
    <2>1. 1 \in 1..Len(wire[h]) BY HostTypes
    <2>2. /\ key = h /\ wire[h][1].awaited /\ wire[h][i].awaited
          /\ ttl + Timeout - wire[h][1].left >= Margin
          /\ i > 1 => i = 2 /\ wire[h][1].name = "renew"
        BY <1>1 DEF Good, DelOwned
    <2>3. ttl > 1 /\ wire'[h][1].left = wire[h][1].left - 1 /\ wire[h][1].left \in Nat
        BY <1>7, <2>1, <2>2
    <2>4. ttl' = ttl - 1 /\ ttl' > 0 BY <1>2, <1>5, <2>3 DEF Decrease
    <2>5. ttl' + Timeout - wire'[h][1].left >= Margin'
        <3>1. PICK l \in Nat : l = wire[h][1].left BY <2>3
        <3>2. PICK m \in Int, n \in Int : m = Margin /\ n = Margin' /\ n <= m BY <1>3
        <3>3. ttl' = ttl - 1 /\ wire'[h][1].left = l - 1 BY <2>3, <2>4, <3>1
        <3>4. ttl + Timeout - l >= m
            <4>1. ttl + Timeout - wire[h][1].left >= Margin BY <2>2
            <4> QED BY <3>1, <3>2, <4>1
        <3>5. (ttl - 1) + Timeout - (l - 1) >= n
            <4>1. ttl \in Nat /\ Timeout \in Nat /\ n <= m BY <1>2, <3>2
            <4> QED BY <3>4, <4>1
        <3> QED BY <3>2, <3>3, <3>5
    <2>6. key' = h BY <1>5, <2>2, <2>4
    <2> QED BY <1>6, <2>1, <2>2, <2>5, <2>6
<1> QED BY <1>8, <1>9, <1>10, <1>11 DEF Good

LEMMA ExecuteGood ==
    ASSUME TypeOK, TypeOK', Ordered, NEW h \in Hosts, Execute(h)
    PROVE  Ordered'
<1> DEFINE c == wire[h][1]
<1>1. Good(h) BY DEF Ordered
<1>2. /\ Len(wire[h]) > 0 /\ Head(wire[h]) = c /\ 1 \in 1..Len(wire[h]) /\ c \in Commands
      /\ Len(Tail(wire[h])) = Len(wire[h]) - 1
      /\ \A i \in 1..(Len(wire[h]) - 1) : Tail(wire[h])[i] = wire[h][i + 1]
    BY HostTypes DEF Execute
<1>3. Apply(h, c.name) /\ wire'[h] = Tail(wire[h]) /\ UNCHANGED <<timer, closing, slowest>>
    BY <1>2 DEF Execute, Set, TypeOK
<1>4. /\ ttl \in Nat /\ age[h] \in 0..Timeout /\ timer[h] \in 0..Interval
      /\ TTL \in Nat /\ Timeout \in Nat /\ Interval \in Nat /\ h # None
    BY HostTypes, TimeTypes
<1>5. c.name = "del" => key = h BY <1>1, <1>2 DEF Good, DelOwned
<1>6. ASSUME NEW g \in Hosts, g # h PROVE Good(g)'
    <2>1. Good(g) BY DEF Ordered
    <2>2. /\ role'[g] = role[g] /\ call'[g] = call[g] /\ reply'[g] = reply[g]
          /\ age'[g] = age[g]
        <3>1. \/ Leave(h)
              \/ /\ UNCHANGED <<role, call, age>>
                 /\ reply' = reply \/ reply' = Set(reply, h, Result(h, c.name))
            BY <1>2 DEF Execute
        <3>2. g \in DOMAIN reply BY DEF TypeOK
        <3> QED BY <1>6, <3>1, <3>2, SetOthers DEF Set
    <2>3. wire'[g] = wire[g] /\ timer'[g] = timer[g] /\ closing' = closing
        BY <1>3, <1>6 DEF Execute, Set, TypeOK
    <2>4. (key' = g <=> key = g) /\ (key = g => ttl' >= ttl)
        BY <1>3, <1>4, <1>5, <1>6, HostTypes DEF Apply, Takes, Hold, redis
    <2> QED BY <1>3, <2>1, <2>2, <2>3, <2>4, Frame
<1>7. DelOwned(h)'
    <2> SUFFICES ASSUME NEW i \in 1..(Len(wire[h]) - 1), wire[h][i + 1].name = "del"
                 PROVE  /\ key' = h /\ i = 1 /\ wire[h][2].awaited
                        /\ ttl' + Timeout - wire[h][2].left >= Margin'
        BY <1>2, <1>3 DEF DelOwned
    <2>1. i + 1 \in 1..Len(wire[h]) /\ i + 1 > 1 BY HostTypes
    <2>2. key = h /\ i + 1 = 2 /\ c.name = "renew" /\ wire[h][2].awaited
        BY <1>1, <2>1 DEF Good, DelOwned
    <2>3. key' = h /\ ttl' = TTL BY <1>3, <2>2 DEF Apply, Takes, Hold
    <2>4. wire[h][2].left \in 0..Timeout BY <2>1, <2>2, HostTypes
    <2> QED BY SMTT(30), <1>3, <1>4, <2>2, <2>3, <2>4, HostTypes DEF Margin
<1>8. CASE Leave(h)
    <2>1. role'[h] = "gone" /\ call'[h] = "none" /\ reply'[h] = "none"
        BY <1>8 DEF Leave, Set, TypeOK
    <2>2. Good(h)'
        BY <1>7, <2>1 DEF Good, CallOfRole, WireOfCall, Lease, Alive, Pending
    <2> QED BY <1>6, <2>2 DEF Ordered
<1>9. CASE /\ ~(c.awaited /\ c.name = "del") /\ UNCHANGED <<role, call, age>>
           /\ reply' = IF c.awaited /\ call[h] # "none"
                       THEN Set(reply, h, Result(h, c.name)) ELSE reply
    <2>1. CASE ~Alive(h)
        <3>1. call[h] = "none" /\ reply[h] = "none" /\ reply' = reply
            BY <1>1, <1>9, <2>1 DEF Good, CallOfRole, Alive
        <3> QED BY <1>1, <1>3, <1>6, <1>7, <1>9, <2>1, <3>1
                DEF Ordered, Good, CallOfRole, WireOfCall, Lease, Alive, Pending
    <2>2. CASE Alive(h)
        <3>1. c.name # "del"
            BY <1>1, <1>2, <1>9 DEF Good, DelOwned
        <3>2. Pending(h)
            BY <1>1, <1>2, <2>2, <3>1, HostTypes DEF Good, WireOfCall
        <3>3. c.name = Command(call[h]) /\ c.awaited
            BY <1>1, <2>2, <3>2 DEF Good, WireOfCall
        <3>4. reply'[h] = Result(h, c.name) /\ Result(h, c.name) # "none"
            BY <1>9, <3>2, <3>3 DEF Pending, Set, TypeOK, Result
        <3>5. CallOfRole(h)'
            BY <1>1, <1>3, <1>9, <3>2 DEF Good, CallOfRole, Pending
        <3>6. WireOfCall(h)'
            <4>1. ~Pending(h)' BY <3>4 DEF Pending
            <4>2. Len(wire'[h]) = IF h \in closing THEN 1 ELSE 0
                BY <1>1, <1>2, <1>3, <2>2, <3>2, HostTypes DEF Good, WireOfCall
            <4>3. h \in closing => wire'[h][1] = wire[h][2] /\ wire[h][2].name = "del"
                <5> SUFFICES ASSUME h \in closing
                             PROVE  wire'[h][1] = wire[h][2] /\ wire[h][2].name = "del"
                    OBVIOUS
                <5>1. Len(wire[h]) = 2 /\ wire[h][Len(wire[h])].name = "del"
                    BY <1>1, <2>2, <3>2 DEF Good, WireOfCall
                <5>2. wire'[h][1] = wire[h][1 + 1]
                    BY <1>2, <1>3, <5>1
                <5> QED BY <5>1, <5>2
            <4> QED BY <1>3, <4>1, <4>2, <4>3 DEF WireOfCall
        <3>7. Lease(h)'
            <4>1. CASE role[h] = "leader"
                <5>1. c.name = "renew" /\ key = h
                    BY <1>1, <3>2, <3>3, <4>1 DEF Good, CallOfRole, Lease, Pending, Command
                <5>2. key' = h /\ ttl' = TTL /\ reply'[h] = "ok"
                    BY <1>3, <3>4, <5>1 DEF Apply, Takes, Hold, Result
                <5> QED BY <1>4, <1>9, <3>2, <4>1, <5>2 DEF Lease, Pending
            <4>2. CASE role[h] # "leader"
                <5>1. key # h /\ c.name \in {"set", "get"}
                    <6>1. role[h] \in {"unset", "follower"} BY <2>2, <4>2 DEF Alive, TypeOK
                    <6> QED BY <1>1, <3>2, <3>3, <6>1 DEF Good, CallOfRole, Lease, Pending, Command
                <5>2. CASE Takes(h, c.name)
                    <6>1. key' = h /\ ttl' = TTL /\ reply'[h] = "ok"
                        BY <1>3, <3>1, <3>4, <5>2 DEF Apply, Hold, Result
                    <6> QED BY <1>4, <1>9, <4>2, <6>1 DEF Lease
                <5>3. CASE ~Takes(h, c.name)
                    <6>1. key' = key /\ reply'[h] \notin {"ok", "self"}
                        BY <1>3, <3>1, <3>4, <5>1, <5>3 DEF Apply, Result, redis
                    <6> QED BY <1>9, <4>2, <5>1, <6>1 DEF Lease
                <5> QED BY <5>2, <5>3
            <4> QED BY <4>1, <4>2
        <3> QED BY <1>6, <1>7, <3>5, <3>6, <3>7 DEF Ordered, Good
    <2> QED BY <2>1, <2>2
<1> QED BY <1>2, <1>8, <1>9 DEF Execute

LEMMA StutterGood ==
    ASSUME Ordered, UNCHANGED vars
    PROVE  Ordered'
BY DEF Ordered, Good, CallOfRole, WireOfCall, Lease, DelOwned, Alive, Pending, Margin,
       vars, redis, bounds, histories

-----------------------------------------------------------------------------

\* What is in a sequence after an Append or a Tail.
LEMMA EntriesOf ==
    ASSUME NEW S, NEW s \in Seq(S), NEW x \in S
    PROVE  /\ \A i \in 1..Len(Append(s, x)) :
                  Append(s, x)[i] = x \/ \E j \in 1..Len(s) : Append(s, x)[i] = s[j]
           /\ Len(s) > 0 => \A i \in 1..Len(Tail(s)) : \E j \in 1..Len(s) : Tail(s)[i] = s[j]
<1>1. ASSUME NEW i \in 1..Len(Append(s, x))
      PROVE  Append(s, x)[i] = x \/ \E j \in 1..Len(s) : Append(s, x)[i] = s[j]
    <2>1. Append(s, x)[i] = IF i = Len(s) + 1 THEN x ELSE s[i]
        OBVIOUS
    <2>2. i = Len(s) + 1 \/ i \in 1..Len(s) OBVIOUS
    <2> QED BY <2>1, <2>2
<1>2. ASSUME Len(s) > 0, NEW i \in 1..Len(Tail(s))
      PROVE  \E j \in 1..Len(s) : Tail(s)[i] = s[j]
    <2>1. i + 1 \in 1..Len(s) /\ Tail(s)[i] = s[i + 1] BY <1>2
    <2> QED BY <2>1
<1> QED BY <1>1, <1>2

\* Nobody has waited longer than the history says: a call starts at no age, and a tick
\* that makes one older than the slowest so far counts.
LEMMA WaitedSteps ==
    ASSUME TypeOK, TypeOK', WaitedInv, [Next]_vars
    PROVE  WaitedInv'
<1> SUFFICES ASSUME NEW h \in Hosts PROVE Waited(h)'
    BY DEF WaitedInv
<1>1. Waited(h) /\ wire[h] \in Seq(Commands) /\ Timeout \in Nat /\ slowest \in Nat /\ age[h] \in Nat
    BY HostTypes, TimeTypes DEF WaitedInv
<1>2. ASSUME (call'[h] = call[h] /\ age'[h] = age[h]) \/ call'[h] = "none" \/ age'[h] = 0,
             slowest' = slowest,
             \A i \in 1..Len(wire'[h]) : wire'[h][i].awaited =>
                 \/ wire'[h][i].left = Timeout
                 \/ \E j \in 1..Len(wire[h]) : wire'[h][i] = wire[h][j]
      PROVE  Waited(h)'
    <2>1. call'[h] # "none" => age'[h] <= slowest'
        BY <1>1, <1>2 DEF Waited
    <2>2. ASSUME NEW i \in 1..Len(wire'[h]), wire'[h][i].awaited
          PROVE  Timeout - wire'[h][i].left <= slowest'
        <3>1. CASE wire'[h][i].left = Timeout
            BY <1>1, <1>2, <3>1
        <3>2. CASE \E j \in 1..Len(wire[h]) : wire'[h][i] = wire[h][j]
            <4>1. PICK j \in 1..Len(wire[h]) : wire'[h][i] = wire[h][j] BY <3>2
            <4>2. wire[h][j].awaited /\ wire'[h][i].left = wire[h][j].left BY <2>2, <4>1
            <4>3. Timeout - wire[h][j].left <= slowest BY <1>1, <4>2 DEF Waited
            <4> QED BY <1>2, <4>2, <4>3
        <3> QED BY <1>2, <2>2, <3>1, <3>2
    <2> QED BY <2>1, <2>2 DEF Waited
<1>3. ASSUME NEW g \in Hosts,
             \/ Boot(g) \/ CheckLeader(g) \/ Answered(g) \/ Failed(g) \/ Execute(g)
             \/ Shutdown(g) \/ Crash(g)
      PROVE  Waited(h)'
    <2>1. slowest' = slowest
        BY <1>3 DEF Boot, CheckLeader, Answered, Failed, Execute, Shutdown, Crash, histories
    <2>2. CASE \E c \in Calls : Call(g, c)
        <3>1. PICK c \in Calls : Call(g, c) BY <2>2
        <3>2. CASE g = h
            <4>1. /\ age'[h] = 0 /\ wire'[h] = Append(wire[h], Sent(Command(c)))
                BY <3>1, <3>2 DEF Call, Set, TypeOK
            <4>2. Sent(Command(c)).left = Timeout BY DEF Sent
            <4>3. \A i \in 1..Len(wire'[h]) :
                      \/ wire'[h][i].left = Timeout
                      \/ \E j \in 1..Len(wire[h]) : wire'[h][i] = wire[h][j]
                <5>1. Sent(Command(c)) \in Commands BY CommandTypes
                <5> QED BY <1>1, <4>1, <4>2, <5>1, EntriesOf
            <4> QED BY <1>2, <2>1, <4>1, <4>3
        <3>3. CASE g # h
            <4>1. call'[h] = call[h] /\ age'[h] = age[h] /\ wire'[h] = wire[h]
                BY <3>1, <3>3, SetOthers
            <4> QED BY <1>2, <2>1, <4>1
        <3> QED BY <3>2, <3>3
    <2>3. CASE /\ (call'[h] = call[h] /\ age'[h] = age[h]) \/ call'[h] = "none"
               /\ \/ wire'[h] \in {wire[h], <<>>, Abandoned(wire[h])}
                  \/ Len(wire[h]) > 0 /\ wire'[h] = Tail(wire[h])
                  \/ wire'[h] = Append(wire[h], Sent("del"))
        <3>1. \A i \in 1..Len(wire'[h]) : wire'[h][i].awaited =>
                 \/ wire'[h][i].left = Timeout
                 \/ \E j \in 1..Len(wire[h]) : wire'[h][i] = wire[h][j]
            <4>1. CASE wire'[h] \in {wire[h], <<>>} BY <4>1
            <4>2. CASE wire'[h] = Abandoned(wire[h])
                <5>1. Len(wire[h]) \in Nat BY <1>1
                <5> QED BY <4>2, <5>1 DEF Abandoned
            <4>3. CASE Len(wire[h]) > 0 /\ wire'[h] = Tail(wire[h])
                <5>1. Sent("del") \in Commands BY CommandTypes
                <5> QED BY <1>1, <4>3, <5>1, EntriesOf
            <4>4. CASE wire'[h] = Append(wire[h], Sent("del"))
                <5>1. Sent("del") \in Commands /\ Sent("del").left = Timeout
                    BY CommandTypes DEF Sent
                <5> QED BY <1>1, <4>4, <5>1, EntriesOf
            <4> QED BY <2>3, <4>1, <4>2, <4>3, <4>4
        <3> QED BY <1>2, <2>1, <2>3, <3>1
    <2>4. \/ Return(g) \/ Leave(g) \/ UNCHANGED <<call, age>>
          =>  (call'[h] = call[h] /\ age'[h] = age[h]) \/ call'[h] = "none"
        BY DEF Return, Leave, Set, TypeOK
    <2>5. CASE Boot(g)
        BY <2>2, <2>5 DEF Boot, Calls
    <2>6. CASE CheckLeader(g)
        <3>1. "renew" \in Calls /\ "get" \in Calls BY DEF Calls
        <3> QED BY <2>2, <2>3, <2>6, <3>1 DEF CheckLeader
    <2>7. CASE Answered(g)
        <3>1. CASE \E c \in {"reclaim", "claim"} : Proceed(g, c)
            BY <2>2, <3>1 DEF Proceed, Calls
        <3>2. CASE Return(g) /\ UNCHANGED wire
            BY <2>3, <2>4, <3>2
        <3> QED BY <2>7, <3>1, <3>2 DEF Answered, Become, Remain
    <2>8. CASE Failed(g)
        <3>1. Return(g) \/ Leave(g) BY <2>8 DEF Failed
        <3>2. wire'[h] \in {wire[h], <<>>, Abandoned(wire[h])} BY SMTT(30), <2>8 DEF Failed, Set, TypeOK
        <3> QED BY <2>3, <2>4, <3>1, <3>2
    <2>9. CASE Execute(g)
        <3>1. Leave(g) \/ UNCHANGED <<call, age>> BY <2>9 DEF Execute
        <3>2. wire'[h] = wire[h] \/ (wire[h] # <<>> /\ wire'[h] = Tail(wire[h]))
            BY <2>9 DEF Execute, Set, TypeOK
        <3>3. wire[h] # <<>> => Len(wire[h]) > 0 BY <1>1
        <3> QED BY <2>3, <2>4, <3>1, <3>2, <3>3
    <2>10. CASE Shutdown(g)
        <3>1. Leave(g) \/ UNCHANGED <<call, age>> BY <2>10 DEF Shutdown
        <3>2. wire'[h] = wire[h] \/ wire'[h] = Append(wire[h], Sent("del"))
            <4>1. wire' = wire \/ wire' = [wire EXCEPT ![g] = Append(wire[g], Sent("del"))]
                BY <2>10 DEF Shutdown, Set
            <4>2. h \in DOMAIN wire BY DEF TypeOK
            <4> QED BY <4>1, <4>2
        <3> QED BY <2>3, <2>4, <3>1, <3>2
    <2>11. CASE Crash(g)
        <3>1. Leave(g) BY <2>11 DEF Crash
        <3>2. wire'[h] = wire[h] \/ wire'[h] = <<>> BY <2>11 DEF Crash, Set, TypeOK
        <3> QED BY <2>3, <2>4, <3>1, <3>2
    <2> QED BY <1>3, <2>5, <2>6, <2>7, <2>8, <2>9, <2>10, <2>11
<1>4. CASE Tick
    <2>1. call[h] # "none" => age'[h] <= slowest'
        <3> SUFFICES ASSUME call[h] # "none" PROVE age'[h] <= slowest'
            OBVIOUS
        <3>1. age'[h] = age[h] + 1 /\ age[h] <= slowest
            BY <1>1, <1>4 DEF Tick, Waited
        <3>2. age[h] = slowest => slowest' = slowest + 1
            BY <1>4 DEF Tick, AwaitedFor
        <3>3. slowest' >= slowest BY <1>1, <1>4 DEF Tick
        <3>4. PICK n \in Nat : n = slowest' BY DEF TypeOK
        <3>5. age[h] + 1 <= n BY <1>1, <3>1, <3>2, <3>3, <3>4
        <3> QED BY <3>1, <3>4, <3>5
    <2>2. ASSUME NEW i \in 1..Len(wire'[h]), wire'[h][i].awaited
          PROVE  Timeout - wire'[h][i].left <= slowest'
        <3>1. wire'[h] = [j \in 1..Len(wire[h]) |-> Older(wire[h][j])] BY <1>4 DEF Tick
        <3>2. i \in 1..Len(wire[h]) /\ wire'[h][i] = Older(wire[h][i])
            BY <1>1, <2>2, <3>1
        <3>3. /\ wire[h][i].awaited /\ wire'[h][i].left = Decrease(wire[h][i].left)
              /\ wire[h][i].left \in Nat
            BY <2>2, <3>2, HostTypes DEF Older
        <3>4. wire[h][i].left > 0 /\ wire'[h][i].left = wire[h][i].left - 1
            BY <1>4, <3>2, <3>3 DEF Tick, Decrease
        <3>5. Timeout - wire[h][i].left <= slowest BY <1>1, <3>2, <3>3 DEF Waited
        <3>6. wire[h][i].left = Timeout - slowest => slowest' = slowest + 1
            BY <1>4, <3>2, <3>3 DEF Tick, AwaitedFor
        <3>7. slowest' >= slowest BY <1>1, <1>4 DEF Tick
        <3>8. PICK n \in Nat : n = slowest' BY DEF TypeOK
        <3>9. PICK l \in Nat : l = wire[h][i].left BY <3>3
        <3>10. Timeout - l <= slowest /\ n >= slowest /\ (l = Timeout - slowest => n = slowest + 1)
            BY <3>5, <3>6, <3>7, <3>8, <3>9
        <3>11. Timeout - (l - 1) <= n BY <1>1, <3>10
        <3>12. Timeout - (wire[h][i].left - 1) <= n BY <3>9, <3>11
        <3> QED BY <3>4, <3>8, <3>12
    <2> QED BY <1>4, <2>1, <2>2 DEF Tick, Waited
<1>5. CASE UNCHANGED vars
    BY <1>1, <1>5 DEF vars, histories, Waited
<1> QED BY <1>3, <1>4, <1>5 DEF Next

-----------------------------------------------------------------------------

\* "the current leader must renew before this expires" (MultiMainSetupConfig.ttl): until a
\* command fails, or someone has waited so long for one that an interval and two such
\* waits are as long as the time to live, whoever leads owns the key, whatever the delays,
\* crashes and shutdowns.  So no two hosts lead at once, whatever the settings are.
THEOREM LeaseHolds == Spec => []LeaderOwnsKey
<1>1. Init => IInv
    <2> SUFFICES ASSUME Init, NEW h \in Hosts PROVE Good(h) BY DEF IInv, Ordered
    <2>1. /\ role[h] = "unset" /\ call[h] = "none" /\ reply[h] = "none" /\ wire[h] = <<>>
          /\ h \notin closing /\ key # h
        BY DEF Init
    <2>2. Len(wire[h]) = 0 BY <2>1
    <2> QED BY <2>1, <2>2 DEF Good, CallOfRole, WireOfCall, Lease, DelOwned, Alive, Pending
<1>2. TypeOK /\ TypeOK' /\ WaitedInv /\ WaitedInv' /\ IInv /\ [Next]_vars => IInv'
    <2> SUFFICES ASSUME TypeOK, TypeOK', WaitedInv, WaitedInv', IInv, [Next]_vars,
                        failures' = 0, Renewable'
                 PROVE  Ordered'
        BY DEF IInv
    <2>1. failures = 0 /\ \A h \in Hosts : ~Failed(h)
        <3>1. failures \in Nat BY DEF TypeOK
        <3>2. \A h \in Hosts : ~Failed(h) BY <3>1 DEF Failed
        <3>3. failures' = failures
            BY <3>2 DEF Next, vars, bounds, Boot, CheckLeader, Answered, Execute, Tick,
                        Shutdown, Crash
        <3> QED BY <3>2, <3>3
    <2>2. slowest' >= slowest
        <3>1. slowest \in Nat BY DEF TypeOK
        <3> QED BY <2>1, <3>1 DEF Next, vars, histories, Boot, CheckLeader, Answered, Execute, Tick,
                        Shutdown, Crash
    <2>3. Renewable
        <3>1. PICK n \in Nat : n = slowest' BY DEF TypeOK
        <3>2. TTL > Interval + 2 * n BY <3>1 DEF Renewable
        <3>3. slowest \in Nat /\ n >= slowest BY <2>2, <3>1 DEF TypeOK
        <3> QED BY <3>1, <3>2, <3>3, TimeTypes DEF Renewable
    <2>4. Ordered BY <2>1, <2>3 DEF IInv
    <2> QED
        BY <2>1, <2>4, BootGood, CheckLeaderGood, AnsweredGood, ExecuteGood, TickGood,
           ShutdownGood, CrashGood, StutterGood DEF Next
<1>3. IInv => LeaderOwnsKey
    BY DEF IInv, Renewable, Ordered, Good, Lease, Leads, LeaderOwnsKey
<1>4. Init => WaitedInv
    <2> SUFFICES ASSUME Init, NEW h \in Hosts PROVE Waited(h) BY DEF WaitedInv
    <2>1. call[h] = "none" /\ wire[h] = <<>> BY DEF Init
    <2>2. Len(wire[h]) = 0 BY <2>1
    <2> QED BY <2>1, <2>2 DEF Waited
<1> QED BY <1>1, <1>2, <1>3, <1>4, WaitedSteps, TypeCorrect, PTL DEF Spec

-----------------------------------------------------------------------------
(* How long a host may lead a key that is not its own.                     *)
(*                                                                         *)
(* Again a budget, of the ticks in which a leader may not have noticed:    *)
(* the answer that made it leader may be a timeout old, the next check is  *)
(* an interval away, and each of the two calls of the check takes another  *)
(* timeout.  A positive answer is as old as its call at most.              *)

Budget(h) ==
    /\ reply[h] # "none" => call[h] # "none"
    /\ reply[h] \in {"ok", "self"} => stale[h] <= age[h]
    /\ Leads(h) =>
           \/ call[h] = "none" /\ stale[h] <= Timeout + Interval - timer[h]
           \/ call[h] = "renew" /\ stale[h] <= Timeout + Interval + age[h]
           \/ call[h] = "reclaim" /\ stale[h] <= Timeout + Interval + Timeout + age[h]
    /\ stale[h] <= MaxStale

BudgetInv == \A h \in Hosts : Budget(h)

\* The types the budget is counted in.
LEMMA BudgetTypes ==
    ASSUME TypeOK, NEW h \in Hosts
    PROVE  /\ age[h] \in 0..Timeout /\ timer[h] \in 0..Interval /\ stale[h] \in Nat
           /\ {TTL, Interval, Timeout} \subseteq Nat /\ MaxStale = Interval + 3 * Timeout
BY DEF TypeOK, MaxStale

\* Nothing happens to g, or it ends.
LEMMA BudgetFrame ==
    ASSUME TypeOK, TypeOK', NEW g \in Hosts, Budget(g),
           reply'[g] = reply[g], call'[g] = call[g], age'[g] = age[g], timer'[g] = timer[g],
           role'[g] = role[g], stale'[g] = stale[g] \/ stale'[g] = 0, g \in closing => g \in closing'
    PROVE  Budget(g)'
BY BudgetTypes DEF Budget, Leads

LEMMA LeaveBudget ==
    ASSUME TypeOK, TypeOK', NEW h \in Hosts, Budget(h), Leave(h), stale'[h] = stale[h] \/ stale'[h] = 0
    PROVE  Budget(h)'
<1>1. role'[h] = "gone" /\ reply'[h] = "none" /\ call'[h] = "none"
    BY DEF Leave, Set, TypeOK
<1> QED BY <1>1, BudgetTypes DEF Budget, Leads

\* Each action changes one host.
LEMMA OneHost ==
    ASSUME TypeOK, NEW h \in Hosts, NEW g \in Hosts, g # h,
           \/ Boot(h) \/ CheckLeader(h) \/ Answered(h) \/ Failed(h) \/ Execute(h)
           \/ Shutdown(h) \/ Crash(h)
    PROVE  /\ reply'[g] = reply[g] /\ call'[g] = call[g] /\ age'[g] = age[g] /\ timer'[g] = timer[g]
           /\ role'[g] = role[g] /\ stale'[g] = stale[g] /\ (g \in closing => g \in closing')
<1>1. /\ \A f \in {role, call, reply, age, timer, stale} : g \in DOMAIN f
      /\ \A f \in {role, call, reply, age, timer, stale} : \A v : Set(f, h, v)[g] = f[g]
    BY DEF TypeOK, Set
<1>2. Return(h) => call'[g] = call[g] /\ reply'[g] = reply[g] /\ age'[g] = age[g]
    BY <1>1 DEF Return
<1>3. \A c : Call(h, c) => call'[g] = call[g] /\ reply'[g] = reply[g] /\ age'[g] = age[g]
    BY <1>1 DEF Call
<1>4. Leave(h) => /\ role'[g] = role[g] /\ call'[g] = call[g]
                  /\ reply'[g] = reply[g] /\ age'[g] = age[g]
    BY <1>1 DEF Leave
<1>5. StartInterval(h) => timer'[g] = timer[g]
    BY <1>1 DEF StartInterval
<1>6. CASE Boot(h) BY <1>3, <1>6 DEF Boot, histories
<1>7. CASE CheckLeader(h) BY <1>1, <1>3, <1>7 DEF CheckLeader, histories
<1>8. CASE Answered(h)
    <2>1. UNCHANGED <<closing, stale>> /\ timer'[g] = timer[g] BY <1>5, <1>8 DEF Answered, histories
    <2>2. \/ \E r : Become(h, r)
          \/ Remain(h)
          \/ \E c : Proceed(h, c)
        BY <1>8 DEF Answered
    <2>3. \A r : Become(h, r) => role'[g] = role[g] BY <1>1 DEF Become
    <2> QED BY <1>2, <1>3, <2>1, <2>2, <2>3 DEF Become, Remain, Proceed
<1>9. CASE Failed(h) BY <1>1, <1>2, <1>4, <1>5, <1>9 DEF Failed
<1>10. CASE Execute(h) BY <1>1, <1>4, <1>10 DEF Execute
<1>11. CASE Shutdown(h) BY <1>4, <1>11 DEF Shutdown, histories
<1>12. CASE Crash(h) BY <1>4, <1>12 DEF Crash, histories
<1> QED BY <1>6, <1>7, <1>8, <1>9, <1>10, <1>11, <1>12

\* The answer to a call is read: a leader's is as old as its call, the second
\* call of a check starts where the first one ended.
LEMMA AnsweredBudget ==
    ASSUME TypeOK, TypeOK', NEW h \in Hosts, Budget(h), Answered(h)
    PROVE  Budget(h)'
<1>1. UNCHANGED <<closing, stale>> /\ reply[h] # "none"
    BY DEF Answered, histories
<1>2. timer'[h] \in 0..Interval
    BY DEF TypeOK
<1>3. /\ \A r : Become(h, r) => role'[h] = r /\ call'[h] = "none" /\ reply'[h] = "none"
      /\ Remain(h) => role'[h] = role[h] /\ call'[h] = "none" /\ reply'[h] = "none"
      /\ \A c : Proceed(h, c) => role'[h] = role[h] /\ call'[h] = c /\ reply'[h] = "none" /\ age'[h] = 0
    BY DEF Become, Remain, Proceed, Return, Call, Set, TypeOK
<1>4. \/ reply[h] \in {"ok", "self"} /\ call'[h] = "none" /\ reply'[h] = "none"
      \/ /\ call'[h] = "none" /\ reply'[h] = "none"
         /\ role'[h] = "follower" \/ (role'[h] = role[h] /\ call[h] \in {"get", "claim"})
      \/ /\ call[h] = "renew" /\ call'[h] = "reclaim" /\ reply'[h] = "none" /\ age'[h] = 0
         /\ role'[h] = role[h]
      \/ /\ call[h] = "get" /\ call'[h] = "claim" /\ reply'[h] = "none" /\ role'[h] = role[h]
    BY <1>3 DEF Answered
<1> QED BY <1>1, <1>4, <1>2, BudgetTypes DEF Budget, Leads

LEMMA CheckBudget ==
    ASSUME TypeOK, TypeOK', NEW h \in Hosts, Budget(h), CheckLeader(h)
    PROVE  Budget(h)'
<1>1. UNCHANGED <<role, closing, stale>> /\ timer[h] = 0
    BY DEF CheckLeader, histories
<1>2. \/ call[h] # "none" /\ UNCHANGED <<call, reply, age>>
      \/ /\ call[h] = "none" /\ reply'[h] = "none" /\ age'[h] = 0
         /\ call'[h] = IF role[h] = "leader" THEN "renew" ELSE "get"
    BY DEF CheckLeader, Call, Set, TypeOK
<1> QED BY <1>1, <1>2, BudgetTypes DEF Budget, Leads

LEMMA ExecuteBudget ==
    ASSUME TypeOK, TypeOK', NEW h \in Hosts, Budget(h), Execute(h)
    PROVE  Budget(h)'
<1> DEFINE c == Head(wire[h])
<1>1. stale'[h] = stale[h] \/ stale'[h] = 0
    BY DEF Execute, Set, TypeOK
<1>2. CASE Leave(h)
    BY <1>1, <1>2, LeaveBudget
<1>3. CASE /\ reply' = reply \/ (call[h] # "none" /\ reply' = Set(reply, h, Result(h, c.name)))
           /\ UNCHANGED <<role, call, age>>
    <2>1. UNCHANGED <<timer, closing>> BY DEF Execute
    <2>2. CASE reply' = reply
        BY <1>1, <1>3, <2>1, <2>2, BudgetFrame
    <2>3. CASE call[h] # "none" /\ reply' = Set(reply, h, Result(h, c.name))
        <3>1. reply'[h] = Result(h, c.name) BY <2>3 DEF Set, TypeOK
        <3>2. reply'[h] \in {"ok", "self"} => stale'[h] = 0
            <4>1. Apply(h, c.name) /\ stale' = IF key' = h THEN Set(stale, h, 0) ELSE stale
                BY DEF Execute
            <4> HIDE DEF c
            <4>2. reply'[h] = "ok" => Takes(h, c.name) BY <3>1 DEF Result
            <4>3. reply'[h] = "self" => key = h /\ c.name = "get" BY <3>1 DEF Result
            <4>4. reply'[h] \in {"ok", "self"} => key' = h
                BY <4>1, <4>2, <4>3 DEF Apply, Takes, Hold, redis
            <4> QED BY <4>1, <4>4 DEF Set, TypeOK
        <3>3. /\ Leads(h)' <=> Leads(h)
              /\ call'[h] = call[h] /\ age'[h] = age[h] /\ timer'[h] = timer[h]
            BY <1>3, <2>1 DEF Leads
        <3>4. CASE stale'[h] = 0
            BY <2>3, <3>3, <3>4, BudgetTypes DEF Budget
        <3>5. CASE stale'[h] = stale[h] /\ reply'[h] \notin {"ok", "self"}
            BY <2>3, <3>3, <3>5 DEF Budget
        <3> QED BY <1>1, <3>2, <3>4, <3>5
    <2> QED BY <1>3, <2>2, <2>3
<1> QED BY <1>2, <1>3 DEF Execute

LEMMA FailedBudget ==
    ASSUME TypeOK, TypeOK', NEW h \in Hosts, Failed(h)
    PROVE  Budget(h)'
<1>1. stale'[h] = 0 /\ call'[h] = "none" /\ reply'[h] = "none"
    BY DEF Failed, Leave, Return, Set, TypeOK
<1>2. timer'[h] \in 0..Interval
    BY DEF TypeOK
<1> QED BY <1>1, <1>2, BudgetTypes DEF Budget

LEMMA TickBudget ==
    ASSUME TypeOK, TypeOK', NEW h \in Hosts, Budget(h), Tick
    PROVE  Budget(h)'
<1>1. /\ UNCHANGED <<role, call, reply, closing>>
      /\ timer'[h] = Decrease(timer[h])
      /\ age'[h] = IF call[h] = "none" THEN 0 ELSE age[h] + 1
      /\ role[h] \in {"leader", "follower"} /\ h \notin closing => timer[h] > 0
      /\ call[h] # "none" => age[h] < Timeout
      /\ stale'[h] = 0 \/ (Leads(h) /\ stale'[h] = stale[h] + 1) \/ (Leads(h) /\ stale'[h] = stale[h])
    BY DEF Tick, Leads
<1>2. Leads(h)' <=> Leads(h)
    BY <1>1 DEF Leads
<1>3. CASE stale'[h] = 0
    BY <1>1, <1>2, <1>3, BudgetTypes DEF Budget, Decrease
<1>4. CASE Leads(h) /\ stale'[h] \in {stale[h], stale[h] + 1} /\ call[h] = "none"
    BY <1>1, <1>2, <1>4, BudgetTypes DEF Budget, Decrease, Leads
<1>5. CASE Leads(h) /\ stale'[h] \in {stale[h], stale[h] + 1} /\ call[h] # "none"
    BY <1>1, <1>2, <1>5, BudgetTypes DEF Budget
<1> QED BY <1>1, <1>3, <1>4, <1>5

LEMMA BudgetNext ==
    ASSUME TypeOK, TypeOK', BudgetInv, [Next]_vars
    PROVE  BudgetInv'
<1> SUFFICES ASSUME NEW g \in Hosts PROVE Budget(g)'
    BY DEF BudgetInv
<1>1. Budget(g) BY DEF BudgetInv
<1>2. ASSUME NEW h \in Hosts, g # h,
             \/ Boot(h) \/ CheckLeader(h) \/ Answered(h) \/ Failed(h) \/ Execute(h)
             \/ Shutdown(h) \/ Crash(h)
      PROVE  Budget(g)'
    BY <1>1, <1>2, OneHost, BudgetFrame
<1>3. CASE Boot(g)
    <2>1. UNCHANGED <<role, closing, stale>> /\ role[g] = "unset" /\ reply'[g] = "none"
        BY <1>3 DEF Boot, Call, Set, TypeOK, histories
    <2> QED BY <1>1, <2>1 DEF Budget, Leads
<1>4. CASE Shutdown(g)
    <2>1. UNCHANGED <<timer, stale>> /\ (g \in closing => g \in closing')
        BY <1>4 DEF Shutdown, histories
    <2>2. Leave(g) \/ UNCHANGED <<role, call, reply, age>> BY <1>4 DEF Shutdown
    <2> QED BY <1>1, <2>1, <2>2, LeaveBudget, BudgetFrame
<1>5. CASE Crash(g)
    <2>1. stale' = stale /\ Leave(g) BY <1>5 DEF Crash, histories
    <2> QED BY <1>1, <2>1, LeaveBudget
<1>6. CASE UNCHANGED vars
    BY <1>1, <1>6, BudgetFrame DEF vars, histories
<1> QED BY <1>1, <1>2, <1>3, <1>4, <1>5, <1>6, CheckBudget, AnsweredBudget, FailedBudget,
           ExecuteBudget, TickBudget DEF Next

\* A host never leads a key that is not its own for longer than an interval and
\* three timeouts without a failing command, for any number of hosts, failures
\* and exits, and whatever the time to live.
THEOREM StaleLeaderSteps == Spec => []StaleLeaderNotices
<1>1. Init => BudgetInv
    <2> SUFFICES ASSUME Init, NEW h \in Hosts PROVE Budget(h)
        BY DEF BudgetInv
    <2>1. reply[h] = "none" /\ stale[h] = 0 /\ ~Leads(h)
        BY DEF Init, Leads
    <2> QED BY <2>1 DEF Budget, MaxStale
<1>2. BudgetInv => StaleLeaderNotices
    BY DEF BudgetInv, Budget, StaleLeaderNotices
<1> QED BY <1>1, <1>2, BudgetNext, TypeCorrect, PTL DEF Spec

=============================================================================
