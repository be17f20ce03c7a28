------------------------ MODULE ProviderRouterProofs ------------------------
(***************************************************************************)
(* Proofs about ProviderRouter for any number of providers and callers and *)
(* any limits: the type invariant, and that a circuit breaker never        *)
(* disagrees with its own counters.                                        *)
(***************************************************************************)
EXTENDS ProviderRouter, FiniteSetTheorems, SequenceTheorems, TLAPS

(* The circuits BreakerSound allows.                                       *)
Sound ==
  {b \in Circuit : /\ b.state = "closed" <=> b.fails < Threshold
                   /\ b.state = "closed" => b.probes = 0
                   /\ b.state = "half_open" => b.probes > 0}

(* A call under way has a provider; one in its backoff has a retry left.   *)
Busy(k) ==
  /\ k.at # "idle" => k.on \in Providers
  /\ k.at = "backoff" => k.attempt < MaxRetries

(* Every half-open circuit has lost a probe or has a call to decide it.    *)
Decided ==
  \A p \in Providers :
    breaker[p].state = "half_open" =>
      p \in lost \/ \E d \in Callers : Probing(d, p)

(* The half-open circuits of b have one whatever becomes of the call of c. *)
Awaited(b, c) ==
  \A p \in Providers :
    b[p].state = "half_open" =>
      p \in lost \/ \E d \in Callers \ {c} : Probing(d, p)

Inv ==
  /\ breaker \in [Providers -> Sound]
  /\ paused \in [Providers -> BOOLEAN]
  /\ call \in [Callers -> Call]
  /\ \A c \in Callers : Busy(call[c])
  /\ result \in [Callers -> Results]
  /\ lost \subseteq Providers
  /\ Decided
-----------------------------------------------------------------------------
(* What the operations of CircuitBreaker preserve.                         *)

LEMMA ClosedSound == Closed \in Sound
BY RouterAssumption DEF Closed, Sound, Circuit

LEMMA AdmittedSound ==
  ASSUME NEW b \in Sound, Allows(b)
  PROVE  Admitted(b) \in Sound
<1>1. b \in Circuit
  BY DEF Sound
<1>2. CASE b.state = "open"
  <2>1. Admitted(b) = [state |-> "half_open", fails |-> b.fails,
                       cooled |-> FALSE, probes |-> 1]
    BY <1>1, <1>2 DEF Admitted, Circuit
  <2> QED BY <1>1, <1>2, <2>1, RouterAssumption DEF Sound, Circuit
<1>3. CASE b.state = "half_open"
  <2>1. Admitted(b) = [state |-> "half_open", fails |-> b.fails,
                       cooled |-> b.cooled, probes |-> b.probes + 1]
    BY <1>1, <1>3 DEF Admitted, Circuit
  <2>2. b.probes < HalfOpenMax
    BY <1>3 DEF Allows
  <2> QED BY <1>1, <1>3, <2>1, <2>2, RouterAssumption DEF Sound, Circuit
<1>4. CASE b.state = "closed"
  BY <1>4 DEF Admitted
<1> QED BY <1>1, <1>2, <1>3, <1>4 DEF Circuit

LEMMA FailedSound ==
  ASSUME NEW b \in Sound
  PROVE  Failed(b) \in Sound /\ Failed(b).state # "half_open"
<1> DEFINE fails == IF b.fails < Threshold THEN b.fails + 1 ELSE Threshold
<1>1. fails \in 0 .. Threshold /\ fails > 0
  BY RouterAssumption DEF Sound, Circuit
<1>2. CASE b.state = "half_open" \/ fails = Threshold
  <2>1. Failed(b) = [state |-> "open", fails |-> fails, cooled |-> FALSE,
                     probes |-> b.probes]
    BY <1>2 DEF Failed, Sound, Circuit
  <2>2. b.state = "half_open" => b.fails = Threshold
    BY RouterAssumption DEF Sound, Circuit
  <2>3. fails = Threshold
    BY <1>2, <2>2 DEF Sound, Circuit
  <2> HIDE DEF fails
  <2> QED BY <1>1, <2>1, <2>3, RouterAssumption DEF Sound, Circuit
<1>3. CASE ~(b.state = "half_open" \/ fails = Threshold)
  <2>1. Failed(b) = [b EXCEPT !.fails = fails]
    BY <1>3 DEF Failed
  <2>2. b.state = "closed"
    BY <1>3, RouterAssumption DEF Sound, Circuit
  <2> HIDE DEF fails
  <2> QED BY <1>1, <1>3, <2>1, <2>2, RouterAssumption DEF Sound, Circuit
<1> QED BY <1>2, <1>3

LEMMA RecordSound ==
  ASSUME Inv, NEW p \in Providers, NEW b \in Sound
  PROVE  [breaker EXCEPT ![p] = b] \in [Providers -> Sound]
BY DEF Inv

(* An idle call decides nothing, a call under way its own circuit only.    *)
LEMMA IdleAwaited ==
  ASSUME Inv, NEW c \in Callers, call[c].at = "idle"
  PROVE  Awaited(breaker, c)
BY DEF Inv, Decided, Awaited, Probing

LEMMA OutcomeAwaited ==
  ASSUME Inv, NEW c \in Callers, call[c].at # "idle",
         NEW b \in Sound, b.state # "half_open"
  PROVE  Awaited([breaker EXCEPT ![call[c].on] = b], c)
<1>1. call[c].on \in Providers
  BY DEF Inv, Busy
<1> QED BY <1>1 DEF Inv, Decided, Awaited, Probing

(* What the other calls await is still awaited.                            *)
LEMMA StillDecided ==
  ASSUME NEW c \in Callers, NEW b, Awaited(b, c), breaker' = b,
         lost \subseteq lost',
         \A d \in Callers \ {c} : call'[d] = call[d]
  PROVE  Decided'
BY DEF Awaited, Decided, Probing

(* The candidates of a call, in any of their orders, are providers.        *)
LEMMA OrdersType ==
  ASSUME NEW chain \in Chains, NEW s \in Orders(Candidates(chain))
  PROVE  s \in Seq(Providers)
<1> DEFINE set == Candidates(chain)
<1>1. set \subseteq Providers
  BY RouterAssumption DEF Candidates, Providers
<1>2. IsFiniteSet(set)
  <2>1. 1 \in Int /\ N \in Int
    BY RouterAssumption
  <2>2. IsFiniteSet(Providers)
    BY <2>1, FS_Interval DEF Providers
  <2> QED BY <1>1, <2>2, FS_Subset
<1>3. Cardinality(set) \in Nat
  BY <1>2, FS_CardinalityType
<1>4. s \in [1 .. Cardinality(set) -> set]
  BY DEF Orders
<1> QED BY <1>1, <1>3, <1>4

(* A call stays one when one of its fields changes within its type.        *)
LEMMA SetAt ==
  ASSUME NEW k \in Call
  PROVE  \A x \in {"idle", "call", "backoff"} : [k EXCEPT !.at = x] \in Call
BY DEF Call

LEMMA SetOn ==
  ASSUME NEW k \in Call, NEW p \in Providers
  PROVE  [k EXCEPT !.on = p] \in Call
BY DEF Call

LEMMA SetMode ==
  ASSUME NEW k \in Call
  PROVE  \A m \in {"chat", "stream"} : [k EXCEPT !.mode = m] \in Call
BY DEF Call

LEMMA SetRest ==
  ASSUME NEW k \in Call, NEW s \in Seq(Providers)
  PROVE  [k EXCEPT !.rest = s] \in Call
BY DEF Call

LEMMA SetAttempt ==
  ASSUME NEW k \in Call, NEW n \in 0 .. MaxRetries
  PROVE  [k EXCEPT !.attempt = n] \in Call
BY DEF Call

LEMMA SetResumes ==
  ASSUME NEW k \in Call, NEW n \in 0 .. ResumeMax
  PROVE  [k EXCEPT !.resumes = n] \in Call
BY DEF Call

LEMMA SetGot ==
  ASSUME NEW k \in Call, NEW g \in BOOLEAN
  PROVE  [k EXCEPT !.got = g] \in Call
BY DEF Call

LEMMA SetSent ==
  ASSUME NEW k \in Call, NEW g \in BOOLEAN
  PROVE  [k EXCEPT !.sent = g] \in Call
BY DEF Call

LEMMA SetKind ==
  ASSUME NEW k \in Call
  PROVE  \A x \in {"none", "transient", "permanent"} :
           [k EXCEPT !.kind = x] \in Call
BY DEF Call

(* The call after Go.                                                      *)
LEMMA GoCall ==
  ASSUME NEW k \in Call, NEW p \in Providers, NEW s \in Seq(Providers)
  PROVE  LET k2 == [k EXCEPT !.at = "call", !.on = p, !.attempt = 0,
                             !.got = FALSE, !.rest = s]
         IN  k2 \in Call /\ Busy(k2)
<1> DEFINE a == [k EXCEPT !.at = "call"]
           b == [a EXCEPT !.on = p]
           d == [b EXCEPT !.attempt = 0]
           e == [d EXCEPT !.got = FALSE]
           f == [e EXCEPT !.rest = s]
           k2 == [k EXCEPT !.at = "call", !.on = p, !.attempt = 0,
                           !.got = FALSE, !.rest = s]
<1>1. f = k2
  BY DEF Call
<1>2. k2.on = p /\ k2.at = "call"
  BY DEF Call
<1>3. a \in Call
  BY SetAt
<1> HIDE DEF a
<1>4. b \in Call
  BY <1>3, SetOn
<1> HIDE DEF b
<1>5. d \in Call
  BY <1>4, SetAttempt, RouterAssumption
<1> HIDE DEF d
<1>6. e \in Call
  BY <1>5, SetGot
<1> HIDE DEF e
<1>7. f \in Call
  BY <1>6, SetRest
<1> HIDE DEF f, k2
<1>8. k2 \in Call /\ Busy(k2)
  BY <1>1, <1>2, <1>7 DEF Busy
<1> QED BY <1>8 DEF k2

LEMMA EndsInv ==
  ASSUME Inv, NEW c \in Callers, NEW r \in Results, Ends(c, r)
  PROVE  /\ call' \in [Callers -> Call]
         /\ \A d \in Callers : Busy(call'[d])
         /\ result' \in [Callers -> Results]
<1>1. IdleCall \in Call /\ Busy(IdleCall)
  BY RouterAssumption DEF IdleCall, Call, Busy
<1> QED BY <1>1 DEF Inv, Ends

(* Moving on to the next candidate, or ending the call without one.        *)
LEMMA GoInv ==
  ASSUME Inv, NEW c \in Callers, NEW k \in Call,
         NEW b \in [Providers -> Sound], Awaited(b, c), Go(c, k, b)
  PROVE  /\ lost' \subseteq Providers
         /\ Decided'
         /\ breaker' \in [Providers -> Sound]
         /\ call' \in [Callers -> Call]
         /\ \A d \in Callers : Busy(call'[d])
         /\ result' \in [Callers -> Results]
<1>1. CASE Admissible(b, k.rest) = {} /\ breaker' = b
             /\ UNCHANGED lost
             /\ Ends(c, IF k.mode = "chat" THEN "failed" ELSE "silent")
  <2>1. \A d \in Callers \ {c} : call'[d] = call[d]
    BY <1>1 DEF Ends, Inv
  <2>2. Decided'
    BY <1>1, <2>1, StillDecided
  <2> QED BY <1>1, <2>2, EndsInv DEF Results, Inv
<1>2. ASSUME NEW i \in Admissible(b, k.rest),
             breaker' = [b EXCEPT ![k.rest[i]] = Admitted(@)],
             call' = [call EXCEPT ![c] =
               [k EXCEPT !.at = "call", !.on = k.rest[i], !.attempt = 0,
                         !.got = FALSE,
                         !.rest = SubSeq(k.rest, i + 1, Len(k.rest))]],
             result' = [result EXCEPT ![c] = "none"],
             lost' = IF b[k.rest[i]].state = "open"
                     THEN lost \ {k.rest[i]} ELSE lost
      PROVE  /\ lost' \subseteq Providers
             /\ Decided'
             /\ breaker' \in [Providers -> Sound]
             /\ call' \in [Callers -> Call]
             /\ \A d \in Callers : Busy(call'[d])
             /\ result' \in [Callers -> Results]
  <2> DEFINE p == k.rest[i]
             tail == SubSeq(k.rest, i + 1, Len(k.rest))
             k2 == [k EXCEPT !.at = "call", !.on = p, !.attempt = 0,
                             !.got = FALSE, !.rest = tail]
  <2>1. k.rest \in Seq(Providers) /\ i \in 1 .. Len(k.rest)
    BY DEF Call, Admissible
  <2>2. p \in Providers
    BY <2>1
  <2>3. Allows(b[p]) /\ b[p] \in Sound
    BY <2>2 DEF Admissible
  <2>4. breaker' \in [Providers -> Sound]
    BY <1>2, <2>2, <2>3, AdmittedSound
  <2>5. tail \in Seq(Providers)
    <3>1. \A j \in i + 1 .. Len(k.rest) : k.rest[j] \in Providers
      BY <2>1
    <3>2. i + 1 \in Int /\ Len(k.rest) \in Int
      BY <2>1
    <3> QED BY <3>1, <3>2, SubSeqProperties
  <2>6. k2 \in Call /\ Busy(k2)
    BY <2>2, <2>5, GoCall
  <2>7. Probing(c, p)'
    <3>1. k2.at = "call" /\ k2.on = p /\ ~k2.got
      BY DEF Call
    <3> HIDE DEF k2
    <3> QED BY <1>2, <3>1 DEF Probing, Inv
  <2>8. Decided'
    <3> SUFFICES ASSUME NEW q \in Providers, q # p,
                        breaker'[q].state = "half_open", q \notin lost'
                 PROVE  \E d \in Callers : Probing(d, q)'
      BY <2>7 DEF Decided
    <3>1. b[q].state = "half_open" /\ q \notin lost
      BY <1>2
    <3>2. PICK d \in Callers \ {c} : Probing(d, q)
      BY <3>1 DEF Awaited
    <3>3. call'[d] = call[d]
      BY <1>2 DEF Inv
    <3> QED BY <3>2, <3>3 DEF Probing
  <2>9. lost' \subseteq Providers
    BY <1>2 DEF Inv
  <2> HIDE DEF k2
  <2>10. call' \in [Callers -> Call] /\ \A d \in Callers : Busy(call'[d])
    BY <1>2, <2>6 DEF Inv, k2
  <2> QED BY <1>2, <2>4, <2>8, <2>9, <2>10 DEF Inv, Results
<1> QED BY <1>1, <1>2 DEF Go
-----------------------------------------------------------------------------
LEMMA StartInv ==
  ASSUME Inv, NEW c \in Callers, Start(c)
  PROVE  Inv'
<1>1. paused' = paused
  BY DEF Start
<1>2. PICK mode \in Modes, chain \in Chains :
        \/ Ends(c, "unavailable") /\ UNCHANGED <<breaker, lost>>
        \/ \E s \in Orders(Candidates(chain)) :
             Go(c, [IdleCall EXCEPT !.mode = mode, !.rest = s,
                                    !.resumes = ResumeMax], breaker)
  BY DEF Start
<1> Awaited(breaker, c)
  BY IdleAwaited DEF Start
<1>3. CASE Ends(c, "unavailable") /\ UNCHANGED <<breaker, lost>>
  <2>1. \A d \in Callers \ {c} : call'[d] = call[d]
    BY <1>3 DEF Ends, Inv
  <2>2. Decided'
    BY <1>3, <2>1, StillDecided
  <2> QED BY <1>1, <1>3, <2>2, EndsInv DEF Inv, Results
<1>4. ASSUME NEW s \in Orders(Candidates(chain)),
             Go(c, [IdleCall EXCEPT !.mode = mode, !.rest = s,
                                    !.resumes = ResumeMax], breaker)
      PROVE  Inv'
  <2> DEFINE k == [IdleCall EXCEPT !.mode = mode, !.rest = s,
                                   !.resumes = ResumeMax]
  <2>1. k \in Call
    <3> DEFINE a == [IdleCall EXCEPT !.mode = mode]
               d == [a EXCEPT !.rest = s]
               f == [d EXCEPT !.resumes = ResumeMax]
    <3>1. IdleCall \in Call
      BY RouterAssumption DEF IdleCall, Call
    <3>2. f = k
      BY <3>1 DEF Call
    <3>3. a \in Call
      BY <3>1, SetMode, RouterAssumption
    <3>4. s \in Seq(Providers)
      BY OrdersType
    <3> HIDE DEF a
    <3>5. d \in Call
      BY <3>3, <3>4, SetRest
    <3> HIDE DEF d
    <3>6. f \in Call
      BY <3>5, SetResumes, RouterAssumption
    <3> QED BY <3>2, <3>6
  <2> QED BY <1>1, <1>4, <2>1, GoInv DEF Inv
<1> QED BY <1>2, <1>3, <1>4

LEMMA ChatInv ==
  ASSUME Inv, NEW c \in Callers, Chat(c)
  PROVE  Inv'
<1> DEFINE p == call[c].on
<1>1. p \in Providers /\ call[c] \in Call
  BY DEF Inv, Busy, Chat, Answer, Transient, Retry, GiveUp, In
<1>2. breaker[p] \in Sound
  BY <1>1 DEF Inv
<1> call[c].at # "idle"
  BY DEF Chat, Answer, Transient, Retry, GiveUp, In
<1>3. CASE Answer(c)
  <2>1. breaker' \in [Providers -> Sound]
    BY <1>1, <1>3, ClosedSound, RecordSound DEF Answer, Record
  <2>2. Awaited(breaker', c)
    BY <1>3, ClosedSound, OutcomeAwaited DEF Answer, Record, Closed
  <2>3. \A d \in Callers \ {c} : call'[d] = call[d]
    BY <1>3 DEF Answer, Ends, Inv
  <2>4. Decided'
    BY <1>3, <2>2, <2>3, StillDecided DEF Answer
  <2> QED BY <1>3, <2>1, <2>4, EndsInv DEF Answer, Inv, Results
<1>4. CASE Transient(c)
  <2>1. breaker' \in [Providers -> Sound]
    BY <1>1, <1>2, <1>4, FailedSound, RecordSound DEF Transient, Record
  <2>2. call' \in [Callers -> Call] /\ \A d \in Callers : Busy(call'[d])
    <3> DEFINE k2 == [call[c] EXCEPT !.at = "backoff", !.kind = "transient"]
    <3>1. call' = [call EXCEPT ![c] = k2]
      BY <1>4 DEF Transient, Inv
    <3>2. k2 = [[call[c] EXCEPT !.at = "backoff"] EXCEPT !.kind = "transient"]
      BY <1>1 DEF Call
    <3>3. k2 \in Call
      BY <1>1, <3>2, SetAt, SetKind
    <3>4. k2.on = call[c].on /\ k2.attempt = call[c].attempt
      BY <1>1 DEF Call
    <3> HIDE DEF k2
    <3>5. Busy(k2)
      BY <1>1, <1>4, <3>4 DEF Busy, Transient
    <3> QED BY <3>1, <3>3, <3>5 DEF Inv
  <2>3. Awaited(breaker', c)
    BY <1>2, <1>4, FailedSound, OutcomeAwaited DEF Transient, Record
  <2>4. \A d \in Callers \ {c} : call'[d] = call[d]
    BY <1>4 DEF Transient, Inv
  <2>5. Decided'
    BY <1>4, <2>3, <2>4, StillDecided DEF Transient
  <2> QED BY <1>4, <2>1, <2>2, <2>5 DEF Transient, Inv
<1>5. CASE Retry(c)
  <2> DEFINE k2 == [call[c] EXCEPT !.at = "call", !.attempt = @ + 1]
  <2>1. call' = [call EXCEPT ![c] = k2]
    BY <1>5 DEF Retry, Inv
  <2>2. call[c].attempt < MaxRetries
    BY <1>5 DEF Retry, Inv, Busy
  <2>3. k2 = [[call[c] EXCEPT !.at = "call"]
                EXCEPT !.attempt = call[c].attempt + 1]
    BY <1>1 DEF Call
  <2>4. call[c].attempt + 1 \in 0 .. MaxRetries
    BY <1>1, <2>2, RouterAssumption DEF Call
  <2>5. k2 \in Call
    BY <1>1, <2>3, <2>4, SetAt, SetAttempt
  <2>6. k2.on = call[c].on /\ k2.at = "call"
    BY <1>1 DEF Call
  <2> HIDE DEF k2
  <2>7. Busy(k2)
    BY <1>1, <2>6 DEF Busy
  <2>8. Awaited(breaker, c)
    BY <1>5 DEF Retry, Inv, Decided, Awaited, Probing
  <2>9. Decided'
    BY <1>5, <2>1, <2>8, StillDecided DEF Retry, Inv
  <2> QED BY <1>5, <2>1, <2>5, <2>7, <2>9 DEF Retry, Inv
<1>6. CASE GiveUp(c)
  <2> DEFINE b == [breaker EXCEPT ![p] = Failed(@)]
  <2>1. b \in [Providers -> Sound]
    BY <1>1, <1>2, FailedSound DEF Inv
  <2>2. PICK kind \in {"transient", "permanent"} :
          Go(c, [call[c] EXCEPT !.kind = kind], b)
    BY <1>6 DEF GiveUp
  <2>3. [call[c] EXCEPT !.kind = kind] \in Call
    BY <1>1 DEF Call
  <2>4. paused' \in [Providers -> BOOLEAN]
    BY <1>6 DEF GiveUp, Inv
  <2>5. Awaited(b, c)
    BY <1>2, FailedSound, OutcomeAwaited
  <2> HIDE DEF b
  <2> QED BY <1>6, <2>1, <2>2, <2>3, <2>4, <2>5, GoInv DEF Inv, GiveUp
<1> QED BY <1>3, <1>4, <1>5, <1>6 DEF Chat

LEMMA StreamInv ==
  ASSUME Inv, NEW c \in Callers, Stream(c)
  PROVE  Inv'
<1> DEFINE p == call[c].on
           k == call[c]
<1>1. p \in Providers /\ k \in Call
  BY DEF Inv, Busy, Stream, Token, EndStream, BreakStream, Leave, In
<1>2. breaker[p] \in Sound
  BY <1>1 DEF Inv
<1> call[c].at # "idle"
  BY DEF Stream, Token, EndStream, BreakStream, Leave, In
<1>3. CASE Token(c)
  <2>1. breaker' \in [Providers -> Sound]
    BY <1>1, <1>3, ClosedSound, RecordSound DEF Token, Record
  <2>2. call' \in [Callers -> Call] /\ \A d \in Callers : Busy(call'[d])
    <3> DEFINE k2 == [call[c] EXCEPT !.got = TRUE, !.sent = TRUE]
    <3>1. call' = [call EXCEPT ![c] = k2]
      BY <1>3 DEF Token, Inv
    <3>2. k2 = [[call[c] EXCEPT !.got = TRUE] EXCEPT !.sent = TRUE]
      BY <1>1 DEF Call
    <3>3. k2 \in Call
      BY <1>1, <3>2, SetGot, SetSent
    <3>4. k2.on = call[c].on /\ k2.at = call[c].at
      BY <1>1 DEF Call
    <3> HIDE DEF k2
    <3>5. Busy(k2)
      BY <1>1, <1>3, <3>4 DEF Busy, Token, In
    <3> QED BY <3>1, <3>3, <3>5 DEF Inv
  <2>3. Awaited(breaker', c)
    BY <1>3, ClosedSound, OutcomeAwaited DEF Token, Record, Closed
  <2>4. \A d \in Callers \ {c} : call'[d] = call[d]
    BY <1>3 DEF Token, Inv
  <2>5. Decided'
    BY <1>3, <2>3, <2>4, StillDecided DEF Token
  <2> QED BY <1>3, <2>1, <2>2, <2>5 DEF Token, Inv
<1>4. CASE EndStream(c) \/ Leave(c)
  <2>1. breaker' = breaker /\ Silent(c)
    BY <1>4 DEF EndStream, Leave
  <2>2. PICK r \in Results : Ends(c, r)
    BY <1>4 DEF EndStream, Leave, Results
  <2>3. \A d \in Callers \ {c} : call'[d] = call[d]
    BY <2>2 DEF Ends, Inv
  <2>4. Decided'
    <3> SUFFICES ASSUME NEW q \in Providers,
                        breaker[q].state = "half_open", q \notin lost'
                 PROVE  \E d \in Callers : Probing(d, q)'
      BY <2>1 DEF Decided
    <3>1. q \notin lost /\ (call[c].got \/ q # call[c].on)
      BY <2>1 DEF Silent
    <3>2. PICK d \in Callers : Probing(d, q)
      BY <3>1 DEF Inv, Decided
    <3>3. d # c
      BY <3>1, <3>2 DEF Probing
    <3> QED BY <2>3, <3>2, <3>3 DEF Probing
  <2>5. lost' \subseteq Providers
    BY <1>1, <2>1 DEF Silent, Inv
  <2>6. paused' = paused
    BY <1>4 DEF EndStream, Leave
  <2> QED BY <2>1, <2>2, <2>4, <2>5, <2>6, EndsInv DEF Inv
<1>5. CASE BreakStream(c)
  <2> DEFINE b == [breaker EXCEPT ![p] = Failed(@)]
  <2>1. b \in [Providers -> Sound]
    BY <1>1, <1>2, FailedSound DEF Inv
  <2>2. paused' \in [Providers -> BOOLEAN]
    BY <1>5 DEF BreakStream, Inv
  <2>3. \/ k.resumes > 0 /\ Go(c, [k EXCEPT !.resumes = @ - 1], b)
        \/ Go(c, k, b)
        \/ breaker' = b /\ UNCHANGED lost /\ Ends(c, "failed")
    BY <1>5 DEF BreakStream
  <2>4. k.resumes > 0 => [k EXCEPT !.resumes = @ - 1] \in Call
    BY <1>1, RouterAssumption DEF Call
  <2>7. Awaited(b, c)
    BY <1>2, FailedSound, OutcomeAwaited
  <2> HIDE DEF b
  <2>5. CASE breaker' = b /\ UNCHANGED lost /\ Ends(c, "failed")
    <3>1. \A d \in Callers \ {c} : call'[d] = call[d]
      BY <2>5 DEF Ends, Inv
    <3>2. Decided'
      BY <2>5, <2>7, <3>1, StillDecided
    <3> QED BY <2>1, <2>2, <2>5, <3>2, EndsInv DEF Inv, Results
  <2>6. ASSUME NEW k2 \in Call, Go(c, k2, b) PROVE Inv'
    BY <2>1, <2>2, <2>6, <2>7, GoInv DEF Inv
  <2> QED BY <1>1, <2>3, <2>4, <2>5, <2>6
<1> QED BY <1>3, <1>4, <1>5 DEF Stream

LEMMA ClockInv ==
  ASSUME Inv, NEW p \in Providers, Cool(p) \/ Resume(p)
  PROVE  Inv'
<1>1. breaker[p] \in Sound
  BY DEF Inv
<1>2. [breaker[p] EXCEPT !.cooled = TRUE] \in Sound
  BY <1>1 DEF Sound, Circuit
<1>3. Decided'
  <2>1. \A q \in Providers : breaker'[q].state = breaker[q].state
    BY <1>1 DEF Cool, Resume, Inv, Sound, Circuit
  <2>2. call' = call /\ lost' = lost
    BY DEF Cool, Resume
  <2> QED BY <2>1, <2>2 DEF Inv, Decided, Probing
<1> QED BY <1>2, <1>3 DEF Cool, Resume, Inv

(* The invariant holds in every reachable state.                           *)
THEOREM RouterInvariant == Spec => []Inv
<1>1. Init => Inv
  <2> SUFFICES ASSUME Init PROVE Inv
    OBVIOUS
  <2>1. IdleCall \in Call /\ Busy(IdleCall)
    BY RouterAssumption DEF IdleCall, Call, Busy
  <2>2. Decided
    BY DEF Init, Decided, Closed
  <2> QED BY <2>1, <2>2, ClosedSound DEF Init, Inv, Results
<1>2. Inv /\ [Next]_vars => Inv'
  <2> SUFFICES ASSUME Inv, [Next]_vars PROVE Inv'
    OBVIOUS
  <2>1. CASE UNCHANGED vars
    BY <2>1 DEF vars, Inv, Decided, Probing
  <2>2. ASSUME NEW c \in Callers, Start(c) \/ Chat(c) \/ Stream(c)
        PROVE  Inv'
    BY <2>2, StartInv, ChatInv, StreamInv
  <2>3. ASSUME NEW p \in Providers, Cool(p) \/ Resume(p) PROVE Inv'
    BY <2>3, ClockInv
  <2> QED BY <2>1, <2>2, <2>3 DEF Next
<1> QED BY <1>1, <1>2, PTL DEF Spec

(* Every variable of the router keeps its type; in particular the probe    *)
(* budget of a half-open circuit is never exceeded.                        *)
THEOREM RouterTypes == Spec => []TypeOK
<1>1. Inv => TypeOK
  BY DEF Inv, TypeOK, Sound, Busy
<1> QED BY <1>1, RouterInvariant, PTL

(* A circuit is closed exactly while fewer consecutive failures than the   *)
(* threshold were recorded, and a half-open one has a call under way that  *)
(* will decide it, unless a stream took its probe and left no outcome:     *)
(* whatever calls of whatever tasks succeed or fail late.                  *)
THEOREM BreakersSound == Spec => []BreakerSound
<1>1. Inv => BreakerSound
  BY DEF Inv, BreakerSound, Sound, Decided
<1> QED BY <1>1, RouterInvariant, PTL
=============================================================================
