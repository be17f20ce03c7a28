--------------------------- MODULE ProviderRouter ---------------------------
(***************************************************************************)
(* ProviderRouter of app/llm/router.py: calls of concurrent tasks to       *)
(* language-model providers, with one circuit breaker per provider,        *)
(* bounded retries, failover along a chain of candidates and streams that  *)
(* are resumed on the next provider.                                       *)
(*                                                                         *)
(* Time is left out: that a cooldown elapsed is a step of its own.  So are *)
(* latencies, success rates and passive probes, which only decide the      *)
(* order of candidates that are not recovering: any order may come.        *)
(***************************************************************************)
EXTENDS Naturals, Sequences, FiniteSets

CONSTANTS
  N,             \* providers 1 .. N, in priority order
  Callers,       \* tasks that call the router
  Chains,        \* sets of candidates: the global list, capability chains
  Modes,         \* "chat", "stream"
  Threshold,     \* consecutive failures that open a circuit
  HalfOpenMax,   \* probe calls a half-open circuit admits
  MaxRetries,    \* retries of one provider within one chat
  ResumeMax      \* resumptions of one stream

ASSUME RouterAssumption ==
  /\ N \in Nat /\ Chains \subseteq SUBSET (1 .. N)
  /\ Modes \subseteq {"chat", "stream"}
  /\ Threshold \in Nat \ {0} /\ HalfOpenMax \in Nat \ {0}
  /\ MaxRetries \in Nat /\ ResumeMax \in Nat

VARIABLES
  breaker,   \* breaker[p]: circuit of provider p
  paused,    \* paused[p]: p is in its cooldown after a failed call
  call,      \* call[c]: what task c is doing
  result,    \* result[c]: how the last call of c ended, none during a call
  lost       \* providers a stream left without an outcome since their
             \* circuit last became half-open (only properties read it)

vars == <<breaker, paused, call, result, lost>>

Providers == 1 .. N
-----------------------------------------------------------------------------
(* CircuitBreaker.  "cooled": the cooldown of an open circuit elapsed.     *)

Circuit == [ state : {"closed", "open", "half_open"}, fails : 0 .. Threshold,
             cooled : BOOLEAN, probes : 0 .. HalfOpenMax ]

Closed ==
  [state |-> "closed", fails |-> 0, cooled |-> FALSE, probes |-> 0]

IsCircuitOpen(b) == b.state = "open" /\ ~b.cooled

Allows(b) ==
  /\ ~IsCircuitOpen(b)
  /\ b.state = "half_open" => b.probes < HalfOpenMax

Admitted(b) ==
  CASE b.state = "open" ->
         [b EXCEPT !.state = "half_open", !.cooled = FALSE, !.probes = 1]
    [] b.state = "half_open" -> [b EXCEPT !.probes = @ + 1]
    [] OTHER -> b

(* Mutant: a failed probe starts a new count.                              *)
FailedProbeForgets(b) ==
  LET fails == IF b.fails < Threshold THEN b.fails + 1 ELSE Threshold
  IN  IF b.state = "half_open"
      THEN [b EXCEPT !.state = "open", !.fails = 1, !.cooled = FALSE]
      ELSE IF fails = Threshold
      THEN [b EXCEPT !.state = "open", !.fails = fails, !.cooled = FALSE]
      ELSE [b EXCEPT !.fails = fails]

(* The count of failures saturates: only reaching the threshold matters.   *)
(* The count of probes stays until the circuit is half-open or closed.     *)
Failed(b) ==
  LET fails == IF b.fails < Threshold THEN b.fails + 1 ELSE Threshold
  IN  IF b.state = "half_open" \/ fails = Threshold
      THEN [b EXCEPT !.state = "open", !.fails = fails, !.cooled = FALSE]
      ELSE [b EXCEPT !.fails = fails]

Record(p, b) == breaker' = [breaker EXCEPT ![p] = b]
-----------------------------------------------------------------------------
(* Candidates of a call.  A recovering provider, whose circuit waits for a *)
(* probe, comes first, in priority order; health decides about the others. *)

Recovering(p) == breaker[p].state # "closed"

Candidates(chain) ==
  {p \in chain : ~IsCircuitOpen(breaker[p]) /\ ~paused[p]}

Orders(set) ==
  {s \in [1 .. Cardinality(set) -> set] :
     \A i, j \in 1 .. Cardinality(set) : i < j =>
       /\ s[i] # s[j]
       /\ Recovering(s[j]) => Recovering(s[i]) /\ s[i] < s[j]}

(* at: "idle", "call" (awaiting provider on) or "backoff" (before a retry) *)
(* rest: candidates not tried yet; got: on delivered a token; sent: the    *)
(* caller holds tokens; kind: how the last attempt failed.                 *)
Call == [ at : {"idle", "call", "backoff"}, mode : {"chat", "stream"},
          on : Providers \union {0}, rest : Seq(Providers),
          attempt : 0 .. MaxRetries, resumes : 0 .. ResumeMax,
          got : BOOLEAN, sent : BOOLEAN,
          kind : {"none", "transient", "permanent"} ]

IdleCall ==
  [ at |-> "idle", mode |-> "chat", on |-> 0, rest |-> <<>>, attempt |-> 0,
    resumes |-> 0, got |-> FALSE, sent |-> FALSE, kind |-> "none" ]

Results == {"none", "answered", "unavailable", "failed", "silent", "left",
            "empty"}

Ends(c, r) ==
  /\ call' = [call EXCEPT ![c] = IdleCall]
  /\ result' = [result EXCEPT ![c] = r]

(* The loops of chat and chat_stream: on to the next candidate that its    *)
(* breaker (b holds what was just recorded) admits.  A chat without one    *)
(* raises AllProvidersFailedError, a stream just ends.                     *)
Admissible(b, s) == {i \in 1 .. Len(s) : Allows(b[s[i]])
                   /\ \A j \in 1 .. i - 1 : ~Allows(b[s[j]])}

Go(c, k, b) ==
  \/ /\ Admissible(b, k.rest) = {}
     /\ breaker' = b
     /\ UNCHANGED lost
     /\ Ends(c, IF k.mode = "chat" THEN "failed" ELSE "silent")
  \/ \E i \in Admissible(b, k.rest) :
       LET p == k.rest[i]
       IN  /\ breaker' = [b EXCEPT ![p] = Admitted(@)]
           /\ call' = [call EXCEPT ![c] =
                [k EXCEPT !.at = "call", !.on = p, !.attempt = 0,
                          !.got = FALSE,
                          !.rest = SubSeq(k.rest, i + 1, Len(k.rest))]]
           /\ result' = [result EXCEPT ![c] = "none"]
           /\ lost' = IF b[p].state = "open" THEN lost \ {p} ELSE lost
-----------------------------------------------------------------------------
Start(c) ==
  /\ call[c].at = "idle"
  /\ \E mode \in Modes, chain \in Chains :
       \/ /\ Candidates(chain) = {}
          /\ Ends(c, "unavailable")
          /\ UNCHANGED <<breaker, lost>>
       \/ /\ Candidates(chain) # {}
          /\ \E s \in Orders(Candidates(chain)) :
               Go(c, [IdleCall EXCEPT !.mode = mode, !.rest = s,
                                      !.resumes = ResumeMax], breaker)
  /\ UNCHANGED paused

In(c, mode) == call[c].at = "call" /\ call[c].mode = mode

(* The provider answers a chat.                                            *)
Answer(c) ==
  /\ In(c, "chat")
  /\ Record(call[c].on, Closed)
  /\ Ends(c, "answered")
  /\ UNCHANGED <<paused, lost>>

(* An attempt fails with a kind that is retried, and retries are left.     *)
Transient(c) ==
  /\ In(c, "chat")
  /\ call[c].attempt < MaxRetries
  /\ Record(call[c].on, Failed(breaker[call[c].on]))
  /\ call' = [call EXCEPT ![c].at = "backoff", ![c].kind = "transient"]
  /\ UNCHANGED <<paused, result, lost>>

(* Mutant: the retries of an attempt are not counted.                      *)
RetryUncounted(c) ==
  /\ call[c].at = "backoff"
  /\ call' = [call EXCEPT ![c].at = "call"]
  /\ UNCHANGED <<breaker, paused, result, lost>>

(* The retry after the backoff does not ask the circuit breaker again.     *)
Retry(c) ==
  /\ call[c].at = "backoff"
  /\ call' = [call EXCEPT ![c].at = "call", ![c].attempt = @ + 1]
  /\ UNCHANGED <<breaker, paused, result, lost>>

(* The last retry failed, or a failure that is not retried (exhausted      *)
(* quota, a client error): the next candidate.                             *)
GiveUp(c) ==
  /\ In(c, "chat")
  /\ \E kind \in {"transient", "permanent"} :
       /\ kind = "transient" => call[c].attempt = MaxRetries
       /\ LET p == call[c].on
              b == [breaker EXCEPT ![p] = Failed(@)]
          IN  /\ paused' = [paused EXCEPT ![p] = TRUE]
              /\ Go(c, [call[c] EXCEPT !.kind = kind], b)

(* A stream delivers a token; every token records a success.               *)
Token(c) ==
  /\ In(c, "stream")
  /\ Record(call[c].on, Closed)
  /\ call' = [call EXCEPT ![c].got = TRUE, ![c].sent = TRUE]
  /\ UNCHANGED <<paused, result, lost>>

(* A stream that stops before its first token records no outcome.          *)
Silent(c) ==
  lost' = IF call[c].got THEN lost ELSE lost \union {call[c].on}

EndStream(c) ==
  /\ In(c, "stream")
  /\ Silent(c)
  /\ Ends(c, IF call[c].got THEN "answered" ELSE "empty")
  /\ UNCHANGED <<breaker, paused>>

(* A stream breaks: before its first token the next candidate starts over, *)
(* afterwards it resumes as often as ResumeMax allows.                     *)
BreakStream(c) ==
  /\ In(c, "stream")
  /\ LET p == call[c].on
         k == call[c]
         b == [breaker EXCEPT ![p] = Failed(@)]
         more == k.rest # <<>>
     IN  /\ paused' = [paused EXCEPT ![p] = TRUE]
         /\ \/ /\ k.got /\ k.resumes > 0 /\ more
               /\ Go(c, [k EXCEPT !.resumes = @ - 1], b)
            \/ /\ ~k.got /\ more
               /\ Go(c, k, b)
            \/ /\ ~more \/ (k.got /\ k.resumes = 0)
               /\ breaker' = b
               /\ UNCHANGED lost
               /\ Ends(c, "failed")

(* The consumer of a stream closes it.                                     *)
Leave(c) ==
  /\ In(c, "stream")
  /\ Silent(c)
  /\ Ends(c, IF call[c].got THEN "left" ELSE "empty")
  /\ UNCHANGED <<breaker, paused>>

Cool(p) ==
  /\ IsCircuitOpen(breaker[p])
  /\ breaker' = [breaker EXCEPT ![p].cooled = TRUE]
  /\ UNCHANGED <<paused, call, result, lost>>

Resume(p) ==
  /\ paused[p]
  /\ paused' = [paused EXCEPT ![p] = FALSE]
  /\ UNCHANGED <<breaker, call, result, lost>>
-----------------------------------------------------------------------------
Init ==
  /\ breaker = [p \in Providers |-> Closed]
  /\ paused = [p \in Providers |-> FALSE]
  /\ call = [c \in Callers |-> IdleCall]
  /\ result = [c \in Callers |-> "none"]
  /\ lost = {}

Chat(c) == Answer(c) \/ Transient(c) \/ Retry(c) \/ GiveUp(c)
Stream(c) == Token(c) \/ EndStream(c) \/ BreakStream(c) \/ Leave(c)

Next ==
  \/ \E c \in Callers : Start(c) \/ Chat(c) \/ Stream(c)
  \/ \E p \in Providers : Cool(p) \/ Resume(p)

Spec == Init /\ [][Next]_vars

(* Every attempt of a chat is under a timeout and every backoff is a       *)
(* sleep.  Nothing bounds a stream: chat_stream iterates what the provider *)
(* yields, and hands it on when its consumer asks.                         *)
Fairness == \A c \in Callers : WF_vars(Chat(c))

FairSpec == Spec /\ Fairness
-----------------------------------------------------------------------------
TypeOK ==
  /\ breaker \in [Providers -> Circuit]
  /\ paused \in [Providers -> BOOLEAN]
  /\ call \in [Callers -> Call]
  /\ \A c \in Callers : call[c].at # "idle" => call[c].on \in Providers
  /\ result \in [Callers -> Results]
  /\ lost \subseteq Providers

(* Call c is under way at provider p and has had no outcome yet.           *)
Probing(c, p) == call[c].at = "call" /\ call[c].on = p /\ ~call[c].got

(* A circuit is closed exactly while it counts fewer consecutive failures  *)
(* than the threshold, and then no probe counts; a half-open circuit has   *)
(* admitted a probe, and somebody's call is going to decide it: unless a   *)
(* stream took the probe and stopped without an outcome, a call admitted   *)
(* there is under way (CircuitBreaker.allow_request, record_success,       *)
(* record_failure).                                                        *)
BreakerSound ==
  \A p \in Providers :
    /\ breaker[p].state = "closed" <=> breaker[p].fails < Threshold
    /\ breaker[p].state = "closed" => breaker[p].probes = 0
    /\ breaker[p].state = "half_open" =>
         /\ breaker[p].probes > 0
         /\ p \in lost \/ \E c \in Callers : Probing(c, p)

(* A chat ends whatever the providers, the other calls and the streams do  *)
(* (ProviderRouter.chat, _attempt_chat).                                   *)
CallEnds ==
  \A c \in Callers :
    call[c].at # "idle" /\ call[c].mode = "chat" ~> call[c].at = "idle"

=============================================================================
