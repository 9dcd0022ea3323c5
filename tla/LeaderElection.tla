---------------------------- MODULE LeaderElection ----------------------------
(***************************************************************************)
(* Which of several main processes leads                                   *)
(* (packages/cli/src/scaling/multi-main-setup.ee.ts and                    *)
(* leader-election-client.ts).                                             *)
(*                                                                         *)
(* The leader is whose host id a Redis key with a time to live holds.      *)
(* Every host looks at the key once per interval: the leader renews it, a  *)
(* follower reads it and claims it when it is gone.  A host only learns of *)
(* the key through commands that take time, that fail, or that fail at the *)
(* host and are still executed by Redis.  A restarted process has a new    *)
(* host id, so it is another host here.                                    *)
(*                                                                         *)
(* Time is counted in ticks.  A tick passes only when no check is due and  *)
(* no command has been awaited for as long as commands may take.           *)
(***************************************************************************)
EXTENDS Integers, Sequences

CONSTANTS
    Hosts,
    None,           \* no host
    TTL,            \* ticks the key lives after it is set or renewed
    Interval,       \* ticks between two checks of a host
    Timeout,        \* ticks a command may take (commandTimeout)
    MaxFailures,    \* bound: how many commands fail
    MaxExits        \* bound: how many hosts shut down or crash

ASSUME TimesAssumption ==
    /\ {TTL, Interval, Timeout} \subseteq Nat \ {0}
    /\ {MaxFailures, MaxExits} \subseteq Nat
    /\ None \notin Hosts

VARIABLES
    key, ttl,       \* Redis: the value of the leader key, and its time to live
    role,           \* instanceSettings.instanceRole, "gone" once disconnected
    call,           \* the Redis call a host's init or check waits for
    reply,          \* the answer to that call, on its way
    age,            \* ticks since that call was made
    wire,           \* commands of a host that Redis has not executed yet
    timer,          \* ticks until leaderCheckInterval fires
    closing,        \* hosts in shutdown
    failures, exits,
    stale,          \* history: ticks a host has led without owning the key and
                    \* without a failing command
    slowest         \* history: the most ticks anyone has waited for a command

redis == <<key, ttl>>
bounds == <<failures, exits>>
histories == <<stale, slowest>>
vars == <<redis, role, call, reply, age, wire, timer, closing, bounds, histories>>

Command(c) == IF c \in {"renew", "get"} THEN c ELSE "set"
Calls == {"init", "renew", "reclaim", "get", "claim"}
Commands == [name : {"set", "renew", "get", "del"}, awaited : BOOLEAN, left : 0..Timeout]
Answers == {"none", "ok", "missing", "other", "self"}
MaxStale == Interval + 3 * Timeout

TypeOK ==
    /\ key \in Hosts \cup {None} /\ ttl \in 0..TTL
    /\ role \in [Hosts -> {"unset", "leader", "follower", "gone"}]
    /\ call \in [Hosts -> Calls \cup {"none"}]
    /\ reply \in [Hosts -> Answers]
    /\ age \in [Hosts -> 0..Timeout]
    /\ wire \in [Hosts -> Seq(Commands)]
    /\ timer \in [Hosts -> 0..Interval]
    /\ closing \in SUBSET Hosts
    /\ failures \in 0..MaxFailures /\ exits \in 0..MaxExits
    /\ stale \in [Hosts -> 0..(MaxStale + 1)] /\ slowest \in 0..Timeout

Init ==
    /\ key = None /\ ttl = 0
    /\ role = [h \in Hosts |-> "unset"]
    /\ call = [h \in Hosts |-> "none"]
    /\ reply = [h \in Hosts |-> "none"]
    /\ age = [h \in Hosts |-> 0]
    /\ wire = [h \in Hosts |-> <<>>]
    /\ timer = [h \in Hosts |-> 0]
    /\ closing = {}
    /\ failures = 0 /\ exits = 0
    /\ stale = [h \in Hosts |-> 0] /\ slowest = 0

-----------------------------------------------------------------------------
(* A host's calls.                                                         *)

Set(f, h, v) == [f EXCEPT ![h] = v]

\* A command Redis is to execute, and the host to hear of, within the timeout.
Sent(name) == [name |-> name, awaited |-> TRUE, left |-> Timeout]

\* Make Redis call c and wait for its answer.
Call(h, c) ==
    /\ call' = Set(call, h, c)
    /\ reply' = Set(reply, h, "none")
    /\ age' = Set(age, h, 0)
    /\ wire' = Set(wire, h, Append(wire[h], Sent(Command(c))))

\* Commands nobody waits for any more, which Redis may get to at any time.
Abandoned(w) == [i \in 1..Len(w) |-> [name |-> w[i].name, awaited |-> FALSE, left |-> 0]]

\* The init or check of h is over.
Return(h) ==
    /\ call' = Set(call, h, "none")
    /\ reply' = Set(reply, h, "none")
    /\ age' = Set(age, h, 0)

\* The host is disconnected, or dead; what it waited for no longer matters.
Leave(h) ==
    /\ role' = Set(role, h, "gone")
    /\ call' = Set(call, h, "none")
    /\ reply' = Set(reply, h, "none")
    /\ age' = Set(age, h, 0)

\* init: claim the key, unless another host holds it.
Boot(h) ==
    /\ role[h] = "unset" /\ call[h] = "none"
    /\ Call(h, "init")
    /\ UNCHANGED <<redis, role, timer, closing, bounds, histories>>

\* checkLeader: skipped while the previous check is in progress.
CheckLeader(h) ==
    /\ role[h] \in {"leader", "follower"}
    /\ h \notin closing
    /\ timer[h] = 0
    /\ timer' = Set(timer, h, Interval)
    /\ IF call[h] # "none"
       THEN UNCHANGED <<call, reply, age, wire>>
       ELSE Call(h, IF role[h] = "leader" THEN "renew" ELSE "get")
    /\ UNCHANGED <<redis, role, closing, bounds, histories>>

\* Bug: the interval is set to the time to live, the setting next to it.
StartTtl(h) == timer' = IF call[h] = "init" THEN Set(timer, h, TTL) ELSE timer

\* init ends by starting the interval.
StartInterval(h) == timer' = IF call[h] = "init" THEN Set(timer, h, Interval) ELSE timer

\* takeOverAsLeader and stepDownToFollower, which end a check.
Become(h, r) == role' = Set(role, h, r) /\ Return(h) /\ UNCHANGED wire

Remain(h) == Return(h) /\ UNCHANGED <<role, wire>>

\* Go on with a second call.
Proceed(h, c) == Call(h, c) /\ UNCHANGED role

\* Bug: a leader whose key belongs to another host carries on.
IgnoreOtherLeader(h) ==
    /\ reply[h] # "none"
    /\ \/ call[h] \in {"init", "claim"} /\ reply[h] = "ok" /\ Become(h, "leader")
       \/ call[h] = "init" /\ reply[h] = "other" /\ Become(h, "follower")
       \/ call[h] \in {"renew", "reclaim"} /\ reply[h] \in {"ok", "other"} /\ Remain(h)
       \/ call[h] = "renew" /\ reply[h] = "missing" /\ Proceed(h, "reclaim")
       \/ call[h] = "get" /\ reply[h] = "self" /\ Become(h, "leader")
       \/ call[h] \in {"get", "claim"} /\ reply[h] = "other" /\ Remain(h)
       \/ call[h] = "get" /\ reply[h] = "missing" /\ Proceed(h, "claim")
    /\ StartInterval(h)
    /\ UNCHANGED <<redis, closing, bounds, histories>>

\* Bug: a follower that finds no key does not claim it.
NeverClaim(h) ==
    /\ reply[h] # "none"
    /\ \/ call[h] = "init" /\ reply[h] = "ok" /\ Become(h, "leader")
       \/ call[h] = "init" /\ reply[h] = "other" /\ Become(h, "follower")
       \/ call[h] \in {"renew", "reclaim"} /\ reply[h] = "ok" /\ Remain(h)
       \/ call[h] \in {"renew", "reclaim"} /\ reply[h] = "other" /\ Become(h, "follower")
       \/ call[h] = "renew" /\ reply[h] = "missing" /\ Proceed(h, "reclaim")
       \/ call[h] = "get" /\ reply[h] = "self" /\ Become(h, "leader")
       \/ call[h] = "get" /\ reply[h] \in {"other", "missing"} /\ Remain(h)
    /\ StartInterval(h)
    /\ UNCHANGED <<redis, closing, bounds, histories>>

\* The answer arrives: the rest of init, of checkAreWeStillLeader (renew, and
\* reclaim when the key is missing) or of checkCanBecomeLeader (get, and claim).
Answered(h) ==
    /\ reply[h] # "none"
    /\ \/ call[h] \in {"init", "claim"} /\ reply[h] = "ok" /\ Become(h, "leader")
       \/ call[h] = "init" /\ reply[h] = "other" /\ Become(h, "follower")
       \/ call[h] \in {"renew", "reclaim"} /\ reply[h] = "ok" /\ Remain(h)
       \/ call[h] \in {"renew", "reclaim"} /\ reply[h] = "other" /\ Become(h, "follower")
       \/ call[h] = "renew" /\ reply[h] = "missing" /\ Proceed(h, "reclaim")
       \/ call[h] = "get" /\ reply[h] = "self" /\ Become(h, "leader")
       \/ call[h] \in {"get", "claim"} /\ reply[h] = "other" /\ Remain(h)
       \/ call[h] = "get" /\ reply[h] = "missing" /\ Proceed(h, "claim")
    /\ StartInterval(h)
    /\ UNCHANGED <<redis, closing, bounds, histories>>

\* The call fails at the host: init and reclaim make it a follower, the others
\* leave its role, and the failed clear of a shutdown is only logged.  A command
\* that timed out may still be executed, one on a broken connection may be lost.
Failed(h) ==
    /\ failures < MaxFailures
    /\ failures' = failures + 1
    /\ call[h] # "none" \/ (h \in closing /\ role[h] # "gone")
    /\ IF h \in closing
       THEN Leave(h)
       ELSE /\ role' = IF call[h] \in {"init", "reclaim"} THEN Set(role, h, "follower") ELSE role
            /\ Return(h)
    /\ wire' \in {Set(wire, h, <<>>), Set(wire, h, Abandoned(wire[h]))}
    /\ StartInterval(h)
    /\ stale' = Set(stale, h, 0)
    /\ UNCHANGED <<redis, closing, exits, slowest>>

-----------------------------------------------------------------------------
(* Redis.                                                                  *)

Hold(h) == key' = h /\ ttl' = TTL

\* Bug: a renewal by the owner leaves the time to live as it is.
RenewForgetsTtl(h, name) ==
    CASE name = "set" /\ key = None -> Hold(h)
      [] name = "del" -> key' = None /\ ttl' = 0
      [] OTHER -> UNCHANGED redis

\* SET ... EX NX and the renewal script.
Takes(h, name) == (name = "set" /\ key = None) \/ (name = "renew" /\ key = h)

\* What Redis does: set or renew, delete, or leave the key as it is.
Apply(h, name) ==
    \/ Takes(h, name) /\ Hold(h)
    \/ name = "del" /\ key' = None /\ ttl' = 0
    \/ name # "del" /\ ~Takes(h, name) /\ UNCHANGED redis

\* setLeaderIfNotExists is true or false; the script tells success, a missing
\* key and another owner apart; GET returns the owner.
Result(h, name) ==
    IF Takes(h, name) THEN "ok"
    ELSE IF key = None THEN "missing"
    ELSE IF key = h /\ name = "get" THEN "self"
    ELSE "other"

\* Redis executes the oldest command of h, and answers if h still waits for it.
Execute(h) ==
    /\ wire[h] # <<>>
    /\ LET c == Head(wire[h]) IN
       /\ Apply(h, c.name)
       /\ IF c.awaited /\ c.name = "del"
          THEN Leave(h)
          ELSE /\ reply' = IF c.awaited /\ call[h] # "none"
                          THEN Set(reply, h, Result(h, c.name)) ELSE reply
               /\ UNCHANGED <<role, call, age>>
    /\ wire' = Set(wire, h, Tail(wire[h]))
    /\ stale' = IF key' = h THEN Set(stale, h, 0) ELSE stale
    /\ UNCHANGED <<timer, closing, bounds, slowest>>

Decrease(n) == IF n = 0 THEN 0 ELSE n - 1

Older(c) == [name |-> c.name, awaited |-> c.awaited, left |-> Decrease(c.left)]

\* A call, or a command that Redis has not executed, is awaited for n ticks by now.
AwaitedFor(h, n) ==
    \/ call[h] # "none" /\ age[h] = n
    \/ \E i \in 1..Len(wire[h]) : wire[h][i].awaited /\ wire[h][i].left = Timeout - n

\* A tick of the clock.
Tick ==
    /\ \A h \in Hosts :
        /\ role[h] \in {"leader", "follower"} /\ h \notin closing => timer[h] > 0
        /\ call[h] # "none" => age[h] < Timeout
        /\ \A i \in 1..Len(wire[h]) : wire[h][i].awaited => wire[h][i].left > 0
    /\ ttl' = Decrease(ttl)
    /\ key' = IF ttl' = 0 THEN None ELSE key
    /\ timer' = [h \in Hosts |-> Decrease(timer[h])]
    /\ age' = [h \in Hosts |-> IF call[h] = "none" THEN 0 ELSE age[h] + 1]
    /\ stale' = [h \in Hosts |-> IF role[h] = "leader" /\ h \notin closing /\ key # h
                    THEN IF stale[h] > MaxStale THEN stale[h] ELSE stale[h] + 1
                    ELSE 0]
    /\ wire' = [h \in Hosts |-> [i \in 1..Len(wire[h]) |-> Older(wire[h][i])]]
    /\ slowest' = IF \E h \in Hosts : AwaitedFor(h, slowest) THEN slowest + 1 ELSE slowest
    /\ UNCHANGED <<role, call, reply, closing, bounds>>

-----------------------------------------------------------------------------
(* The end of a host.                                                      *)

\* shutdown: no more checks; a leader deletes the key, whoever it belongs to, and
\* waits for that; then the host disconnects.
Shutdown(h) ==
    /\ exits < MaxExits
    /\ exits' = exits + 1
    /\ role[h] \in {"leader", "follower"} /\ h \notin closing
    /\ closing' = closing \cup {h}
    /\ IF role[h] = "leader"
       THEN /\ wire' = Set(wire, h, Append(wire[h], Sent("del")))
            /\ UNCHANGED <<role, call, reply, age>>
       ELSE Leave(h) /\ UNCHANGED wire
    /\ UNCHANGED <<redis, timer, failures, histories>>

\* The host dies or is killed; what it sent may still be executed.
Crash(h) ==
    /\ exits < MaxExits
    /\ exits' = exits + 1
    /\ role[h] # "gone"
    /\ Leave(h)
    /\ wire' \in {wire, Set(wire, h, <<>>)}
    /\ UNCHANGED <<redis, timer, closing, failures, histories>>

Next ==
    \/ \E h \in Hosts :
        \/ Boot(h) \/ CheckLeader(h) \/ Answered(h) \/ Failed(h) \/ Execute(h)
        \/ Shutdown(h) \/ Crash(h)
    \/ Tick

Spec == Init /\ [][Next]_vars

\* Time passes, intervals fire, and Redis executes and answers what reaches it.
\* Failures are bounded, so from some point on Redis is available.
FairSpec ==
    /\ Spec
    /\ WF_vars(Tick)
    /\ \A h \in Hosts : WF_vars(Boot(h)) /\ WF_vars(CheckLeader(h))
                            /\ WF_vars(Answered(h)) /\ WF_vars(Execute(h))

-----------------------------------------------------------------------------
(* Properties.                                                             *)

Leads(h) == role[h] = "leader" /\ h \notin closing

\* "the current leader must renew before this expires" (MultiMainSetupConfig.ttl).
\* It does as long as no command has failed and none took so long that an interval and
\* two such waits exceed the time to live: whoever leads owns the key, whatever the
\* delays, crashes and shutdowns, so no two hosts ever lead at once.  With the defaults
\* (10 and 3 seconds) that is as long as every command takes less than 3.5 seconds; they
\* may take 5 (commandTimeout), and a slower one can cost the leader its key.
LeaderOwnsKey ==
    failures = 0 /\ TTL > Interval + 2 * slowest => \A h \in Hosts : Leads(h) => key = h

\* A host never leads a key that is not its own for longer than it takes to
\* notice: a check that was under way, the wait for the next one, its renewal and
\* the claim that may follow.  Only a failing command can put that off, the
\* inconsistency checkAreWeStillLeader says it accepts.
StaleLeaderNotices == \A h \in Hosts : stale[h] <= MaxStale

\* Someone waits for a command so long that the key may expire before its renewal.
Slow == \E h \in Hosts, n \in 0..Timeout : AwaitedFor(h, n) /\ TTL <= Interval + 2 * n

\* "eventually the system will recover once Redis is available again"
\* (checkAreWeStillLeader): once nothing fails and nothing is Slow any more there is one
\* leader for good and it owns the key, unless every host is gone.
Recovers ==
    \/ []<>Slow
    \/ <>[](\A h \in Hosts : role[h] = "gone" \/ h \in closing)
    \/ <>[](key # None /\ \A h \in Hosts : Leads(h) <=> h = key)

=============================================================================
