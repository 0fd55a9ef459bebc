------------------------------ MODULE RateLimit ------------------------------
(***************************************************************************)
(* The limits on a member's messages and button presses.  Two counters in  *)
(* Redis, one for the person and one for their workspace, each in windows  *)
(* of fixed length that begin with the first call after the last one.  A   *)
(* workspace has one member, so two counters are all that calls share.     *)
(* Calls are handled at the same time and may fail between any two steps.  *)
(***************************************************************************)
EXTENDS Naturals, FiniteSetsExt

CONSTANTS
  Calls,           \* updates that can be in progress at the same time
  UserLimit,       \* telegram_user_rate_limit_per_minute
  WorkspaceLimit,  \* workspace_rate_limit_per_minute
  Window,          \* window_seconds
  Ticks,           \* ticks of the clock in a second
  MaxLost      \* bound: calls that are lost on their way

ASSUME LimitsAssumption == UserLimit \in Nat \ {0} /\ WorkspaceLimit \in Nat \ {0}
ASSUME WindowAssumption == Window \in Nat \ {0} /\ Ticks \in Nat \ {0}
ASSUME LostAssumption == MaxLost \in Nat

VARIABLES
  member,    \* the person is approved: their calls carry a workspace
  count,     \* the value of each counter
  ttl,       \* ticks until its key expires, 0 when there is no key
  stage,     \* progress of each call through the middleware
  ages,      \* history: ticks since each of the last hits that were allowed,
             \* the newest first, Span for a Window or longer
  promised,  \* history: the earliest end that refused callers were told of
  lost       \* history: calls lost so far

limitVars == <<member, count, ttl, stage, ages, promised, lost>>

Scopes == {"user", "workspace"}
Limit(s) == IF s = "user" THEN UserLimit ELSE WorkspaceLimit
Span == Window * Ticks
NoPromise == Span + Ticks
Hits(s) == 1 .. 2 * Limit(s) + 1

\* A counter is not followed beyond the first refused value.
LimitTypeOK ==
  /\ member \in BOOLEAN
  /\ count \in [Scopes -> Nat] /\ \A s \in Scopes : count[s] <= Limit(s) + 1
  /\ ttl \in [Scopes -> 0..Span]
  /\ stage \in [Calls -> {"idle"} \cup Scopes]
  /\ ages = [s \in Scopes |-> ages[s]]
  /\ \A s \in Scopes : ages[s] \in [Hits(s) -> 0..Span]
  /\ promised \in [Scopes -> 0..NoPromise]
  /\ lost \in 0..MaxLost

LimitInit ==
  /\ member \in BOOLEAN
  /\ count = [s \in Scopes |-> 0]
  /\ ttl = [s \in Scopes |-> 0]
  /\ stage = [c \in Calls |-> "idle"]
  /\ ages = [s \in Scopes |-> [i \in Hits(s) |-> Span]]
  /\ promised = [s \in Scopes |-> NoPromise]
  /\ lost = 0

-----------------------------------------------------------------------------
(* RedisRateLimiter.hit: INCR, EXPIRE NX and TTL in one transaction.       *)

NewCount(s) == IF ttl[s] = 0 THEN 1 ELSE Min({count[s] + 1, Limit(s) + 1})

\* Mutant: EXPIRE without NX.
Renewed(s) == Span
Remaining(s) == IF ttl[s] = 0 THEN Span ELSE ttl[s]

\* Mutant: the counter is taken to begin at 0.
AllowedFromZero(s) == NewCount(s) <= Limit(s) + 1
Allowed(s) == NewCount(s) <= Limit(s)

\* TTL, rounded to the nearest second.
Seconds(ticks) == (2 * ticks + Ticks) \div (2 * Ticks)
RetryAfter(s) == Max({Seconds(Remaining(s)), 1})

Charge(s) ==
  /\ count' = [count EXCEPT ![s] = NewCount(s)]
  /\ ttl' = [ttl EXCEPT ![s] = Remaining(s)]

\* The earliest moment a refused caller may come back, half a second of
\* rounding allowed.
Told(s) == Min({promised[s], RetryAfter(s) * Ticks + Ticks \div 2})

-----------------------------------------------------------------------------
(* TelegramRateLimitMiddleware.                                            *)

Arrive(c) ==
  /\ stage[c] = "idle"
  /\ stage' = [stage EXCEPT ![c] = "user"]
  /\ UNCHANGED <<member, count, ttl, ages, promised, lost>>

\* Where an allowed call goes: the person's limit, then the workspace's, then
\* the handler.
After(s) == IF s = "user" /\ member THEN "workspace" ELSE "idle"

Hit(c) ==
  /\ stage[c] \in Scopes
  /\ LET s == stage[c]
     IN /\ Charge(s)
        /\ \/ /\ Allowed(s)
              /\ stage' = [stage EXCEPT ![c] = After(s)]
              /\ ages' = [ages EXCEPT ![s] = [i \in Hits(s) |->
                            IF i = 1 THEN 0 ELSE @[i - 1]]]
              /\ UNCHANGED promised
           \/ /\ ~ Allowed(s)
              /\ stage' = [stage EXCEPT ![c] = "idle"]
              /\ promised' = [promised EXCEPT ![s] = Told(s)]
              /\ UNCHANGED ages
  /\ UNCHANGED <<member, lost>>

\* The process dies or Redis does not answer, with the hit counted or not.
Lose(c) ==
  /\ stage[c] \in Scopes
  /\ lost < MaxLost
  /\ lost' = lost + 1
  /\ Charge(stage[c]) \/ UNCHANGED <<count, ttl>>
  /\ stage' = [stage EXCEPT ![c] = "idle"]
  /\ UNCHANGED <<member, ages, promised>>

\* Redis removes a key whose time is over.
Tick ==
  /\ ttl' = [s \in Scopes |-> IF ttl[s] = 0 THEN 0 ELSE ttl[s] - 1]
  /\ count' = [s \in Scopes |-> IF ttl'[s] = 0 THEN 0 ELSE count[s]]
  /\ ages' = [s \in Scopes |-> [i \in Hits(s) |->
                IF ages[s][i] = Span THEN Span ELSE ages[s][i] + 1]]
  /\ promised' = [s \in Scopes |->
                    IF ttl'[s] = 0 \/ promised[s] = NoPromise THEN NoPromise
                    ELSE IF promised[s] = 0 THEN 0 ELSE promised[s] - 1]
  /\ UNCHANGED <<member, stage, lost>>

LimitNext ==
  \/ \E c \in Calls : Arrive(c) \/ Hit(c) \/ Lose(c)
  \/ Tick

LimitSpec == LimitInit /\ [][LimitNext]_limitVars

-----------------------------------------------------------------------------
(* Properties.                                                             *)

\* In any Window seconds, wherever they begin, at most twice the limit is let
\* through: a window's calls at its end and the next one's at its beginning, so
\* that of the last calls let through the one before twice the limit is a
\* Window old.  No interleaving of calls, none that failed after it was
\* counted, adds to that (RedisRateLimiter.hit).
BurstBounded == \A s \in Scopes : ages[s][2 * Limit(s) + 1] = Span

\* Who waits as long as a refusal said, and half a second, is not refused by
\* the same window: calls made in the meantime do not make it longer.
RetryKept == \A s \in Scopes : ttl[s] <= promised[s]

=============================================================================
