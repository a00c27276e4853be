------------------------ MODULE HttpProvider_proofs ------------------------
(***************************************************************************)
(* What holds of every HTTP call, for any internet, allowlist and number   *)
(* of retries and redirects.                                               *)
(***************************************************************************)
EXTENDS HttpProvider, TLAPS

\* The most requests that one attempt makes.
Hops == IF call.method = "GET" THEN MAX_REDIRECTS + 1 ELSE 1

\* What the hop under way may take along, and where a POST may be.
AtHome ==
    /\ carries => current = call.url
    /\ call.method = "POST" => current = call.url /\ hop = 0

\* The request about to go out has been validated.
Validated ==
    pc = "send" => pinned \in Public /\ Permitted(current, call.allowlist)

\* The requests of the failed attempts and of the attempt under way.
Counted ==
    /\ pc \in {"check", "send", "blocked", "invalid_url"} => requests <= attempt * Hops + hop
    /\ pc \in {"answer", "returned"} => requests <= attempt * Hops + hop + 1
    /\ pc \in {"sleep", "raised"} => requests <= attempt * Hops

Attempts ==
    /\ pc \notin {"sleep", "raised"} => attempt <= Retries
    /\ pc = "raised" => attempt = Retries + 1

HttpInv ==
    /\ TypeOK
    /\ SentWhereValidated
    /\ StaysHome
    /\ AtHome
    /\ Validated
    /\ Counted
    /\ Attempts

-----------------------------------------------------------------------------
\* A product grows with its first factor, by the second.
LEMMA Products ==
    ASSUME NEW a \in Nat, NEW b \in Nat, NEW h \in Nat, a <= b
    PROVE  /\ a * h \in Nat
           /\ a * h <= b * h
           /\ (a + 1) * h = a * h + h
<1>1. a * h \in Nat /\ (a + 1) * h = a * h + h
  BY SMT
<1>2. a * h <= b * h
  BY SMT
<1> QED
  BY <1>1, <1>2

LEMMA HopsType ==
    ASSUME TypeOK
    PROVE  /\ Hops \in Nat /\ Hops >= 1
           /\ hop <= MAX_REDIRECTS
           /\ call.method = "GET" => Hops = MAX_REDIRECTS + 1
           /\ call.method # "GET" => call.method = "POST" /\ Hops = 1
  BY BoundAssumption DEF TypeOK, Hops, Call

LEMMA HttpInit == Init => HttpInv
<1> SUFFICES ASSUME Init PROVE HttpInv
  OBVIOUS
<1>1. TypeOK
  BY BoundAssumption, UrlAssumption DEF Init, TypeOK, Call
<1>2. SentWhereValidated /\ StaysHome /\ AtHome /\ Validated
  BY DEF Init, SentWhereValidated, StaysHome, AtHome, Validated
<1>3. Attempts
  BY BoundAssumption DEF Init, Attempts
<1>4. Counted
  BY <1>1, HopsType DEF Init, Counted
<1> QED
  BY <1>1, <1>2, <1>3, <1>4 DEF HttpInv

\* An attempt that fails has made no more requests than its hops.
LEMMA FailsKeeps ==
    ASSUME HttpInv, Fails, pc \in {"check", "send", "answer"}
    PROVE  HttpInv'
<1> USE DEF Fails
<1>1. TypeOK'
  BY BoundAssumption DEF HttpInv, TypeOK, Attempts
<1>2. SentWhereValidated' /\ StaysHome' /\ AtHome' /\ Validated' /\ Attempts'
  BY DEF HttpInv, SentWhereValidated, StaysHome, AtHome, Validated, Attempts
<1>3. Counted'
  <2>1. /\ attempt \in Nat /\ requests \in Nat /\ hop \in Nat
        /\ call.method = "POST" => hop = 0
    BY DEF HttpInv, TypeOK, AtHome
  <2>2. Hops \in Nat /\ hop + 1 <= Hops
    BY <2>1, HopsType, BoundAssumption DEF HttpInv
  <2>3. attempt * Hops \in Nat /\ (attempt + 1) * Hops = attempt * Hops + Hops
    BY <2>1, <2>2, Products
  <2>4. requests <= attempt * Hops + hop + 1
    BY <2>1, <2>3 DEF HttpInv, Counted
  <2>5. requests <= (attempt + 1) * Hops
    BY <2>1, <2>2, <2>3, <2>4
  <2> QED
    BY <2>5 DEF Counted, Hops
<1> QED
  BY <1>1, <1>2, <1>3 DEF HttpInv

\* A call ends where it is, having made the requests that are counted.
LEMMA EndsKeeps ==
    ASSUME NEW how \in Ended, HttpInv, Ends(how),
           how \in {"blocked", "invalid_url"} => pc = "check",
           how = "returned" => pc = "answer",
           how = "raised" => pc = "sleep" /\ attempt > Retries
    PROVE  HttpInv'
<1> USE DEF Ends
<1>1. TypeOK'
  BY DEF HttpInv, TypeOK
<1>2. SentWhereValidated' /\ StaysHome' /\ AtHome' /\ Validated'
  BY DEF HttpInv, SentWhereValidated, StaysHome, AtHome, Validated, Ended
<1>3. Attempts'
  BY BoundAssumption DEF HttpInv, TypeOK, Attempts, Ended
<1>4. Counted'
  BY DEF HttpInv, Counted, Hops, Ended
<1> QED
  BY <1>1, <1>2, <1>3, <1>4 DEF HttpInv

LEMMA HttpStep == HttpInv /\ [Next]_vars => HttpInv'
<1> SUFFICES ASSUME HttpInv, [Next]_vars PROVE HttpInv'
  OBVIOUS
<1>1. CASE CheckFails \/ ConnectFails \/ AnswerFails \/ TooManyRedirects
  BY <1>1, FailsKeeps DEF CheckFails, ConnectFails, AnswerFails, TooManyRedirects
<1>2. CASE CheckBlocks \/ BuildRefuses \/ AnswerReturns \/ GiveUp
  BY <1>2, EndsKeeps DEF CheckBlocks, BuildRefuses, AnswerReturns, GiveUp, Ended
<1>3. CASE CheckPins
  <2> USE <1>3 DEF CheckPins
  <2>1. Validated'
    BY DEF Validated, Admitted, Permitted
  <2>2. TypeOK'
    BY AddressAssumption DEF HttpInv, TypeOK, Admitted
  <2>3. SentWhereValidated' /\ StaysHome' /\ AtHome' /\ Counted' /\ Attempts'
    BY DEF HttpInv, SentWhereValidated, StaysHome, AtHome, Counted, Hops, Attempts
  <2> QED
    BY <2>1, <2>2, <2>3 DEF HttpInv
<1>4. CASE Send
  <2> USE <1>4 DEF Send, Destination
  <2>1. pinned \in Public /\ Permitted(current, call.allowlist)
    BY DEF HttpInv, Validated
  <2>2. TypeOK'
    BY <2>1, AddressAssumption DEF HttpInv, TypeOK, Request, Call
  <2>3. SentWhereValidated'
    BY <2>1 DEF HttpInv, SentWhereValidated, Permitted
  <2>4. StaysHome'
    BY DEF HttpInv, StaysHome, AtHome
  <2>5. AtHome' /\ Validated' /\ Attempts'
    BY DEF HttpInv, AtHome, Validated, Attempts
  <2>6. Counted'
    <3>1. requests <= attempt * Hops + hop /\ Hops' = Hops
      BY DEF HttpInv, Counted, Hops
    <3>2. attempt \in Nat /\ hop \in Nat /\ requests \in Nat /\ Hops \in Nat
      BY HopsType DEF HttpInv, TypeOK
    <3>3. attempt * Hops \in Nat
      BY <3>2, Products
    <3>4. requests + 1 <= attempt * Hops + hop + 1
      BY <3>1, <3>2, <3>3
    <3> QED
      BY <3>1, <3>4 DEF Counted
  <2> QED
    BY <2>2, <2>3, <2>4, <2>5, <2>6 DEF HttpInv
<1>5. ASSUME NEW url \in Urls, FollowRedirect(url)
      PROVE  HttpInv'
  <2> USE <1>5 DEF FollowRedirect
  <2>1. TypeOK'
    <3>1. hop + 1 \in 0 .. MAX_REDIRECTS
      BY BoundAssumption DEF HttpInv, TypeOK
    <3>2. pc' \in {"check", "send", "answer", "sleep"} \cup Ended /\ carries' \in BOOLEAN
      OBVIOUS
    <3> QED
      BY <3>1, <3>2 DEF HttpInv, TypeOK
  <2>2. SentWhereValidated' /\ StaysHome' /\ AtHome' /\ Validated' /\ Attempts'
    BY DEF HttpInv, SentWhereValidated, StaysHome, AtHome, Validated, Attempts
  <2>3. Counted'
    <3>1. requests <= attempt * Hops + hop + 1 /\ Hops' = Hops
      BY DEF HttpInv, Counted, Hops
    <3>2. attempt \in Nat /\ hop \in Nat /\ requests \in Nat /\ Hops \in Nat
      BY HopsType DEF HttpInv, TypeOK
    <3>3. attempt * Hops \in Nat
      BY <3>2, Products
    <3>4. requests <= attempt * Hops + (hop + 1)
      BY <3>1, <3>2, <3>3
    <3> QED
      BY <3>1, <3>4 DEF Counted
  <2> QED
    BY <2>1, <2>2, <2>3 DEF HttpInv
<1>6. CASE Retry
  <2> USE <1>6 DEF Retry
  <2>1. TypeOK'
    BY BoundAssumption DEF HttpInv, TypeOK, Call
  <2>2. SentWhereValidated' /\ StaysHome' /\ AtHome' /\ Validated' /\ Attempts'
    BY DEF HttpInv, SentWhereValidated, StaysHome, AtHome, Validated, Attempts
  <2>3. Counted'
    <3>1. requests <= attempt * Hops /\ Hops' = Hops
      BY DEF HttpInv, Counted, Hops
    <3>2. attempt \in Nat /\ requests \in Nat /\ Hops \in Nat
      BY HopsType DEF HttpInv, TypeOK
    <3>3. attempt * Hops \in Nat
      BY <3>2, Products
    <3>4. requests <= attempt * Hops + 0
      BY <3>1, <3>2, <3>3
    <3> QED
      BY <3>1, <3>4 DEF Counted
  <2> QED
    BY <2>1, <2>2, <2>3 DEF HttpInv
<1>7. ASSUME NEW host \in Hosts, NEW address \in Addresses \cup {NoAddress},
             DnsChange(host, address)
      PROVE  HttpInv'
  <2> USE <1>7 DEF DnsChange, callVars
  <2>1. TypeOK'
    BY DEF HttpInv, TypeOK
  <2> QED
    BY <2>1 DEF HttpInv, SentWhereValidated, StaysHome, AtHome, Validated,
                Counted, Hops, Attempts
<1>8. CASE UNCHANGED vars
  BY <1>8 DEF vars, callVars, HttpInv, TypeOK, SentWhereValidated, StaysHome,
              AtHome, Validated, Counted, Hops, Attempts
<1> QED
  BY <1>1, <1>2, <1>3, <1>4, <1>5, <1>6, <1>7, <1>8 DEF Next, CallStep

\* A call keeps within its budget of requests, whichever step it is at.
LEMMA CountedIsBounded ==
    ASSUME HttpInv
    PROVE  WorkIsBounded
<1>1. /\ attempt \in Nat /\ hop \in Nat /\ requests \in Nat
      /\ call.method = "POST" => hop = 0
      /\ Retries + 1 \in Nat
  BY BoundAssumption DEF HttpInv, TypeOK, AtHome
<1>2. Hops \in Nat /\ hop + 1 <= Hops
  BY <1>1, HopsType, BoundAssumption DEF HttpInv
<1>3. Budget = (Retries + 1) * Hops
  BY DEF Budget, Hops
<1>4. CASE pc \in {"sleep", "raised"}
  <2>1. attempt <= Retries + 1
    BY BoundAssumption DEF HttpInv, TypeOK
  <2>2. attempt * Hops <= (Retries + 1) * Hops /\ attempt * Hops \in Nat
        /\ (Retries + 1) * Hops \in Nat
    BY <1>1, <1>2, <2>1, Products
  <2>3. requests <= attempt * Hops
    BY <1>4 DEF HttpInv, Counted
  <2> QED
    BY <1>1, <1>3, <2>2, <2>3 DEF WorkIsBounded
<1>5. CASE pc \notin {"sleep", "raised"}
  <2>1. attempt + 1 \in Nat /\ attempt + 1 <= Retries + 1 /\ attempt <= attempt
    BY <1>1, <1>5, BoundAssumption DEF HttpInv, Attempts
  <2>2. attempt * Hops \in Nat /\ (attempt + 1) * Hops = attempt * Hops + Hops
    BY <1>1, <1>2, <2>1, Products
  <2>3. (attempt + 1) * Hops <= (Retries + 1) * Hops /\ (Retries + 1) * Hops \in Nat
    BY <1>1, <1>2, <2>1, Products
  <2>4. requests <= attempt * Hops + hop + 1
    BY <1>1, <1>5, <2>2 DEF HttpInv, Counted, TypeOK, Ended
  <2> QED
    BY <1>1, <1>2, <1>3, <2>2, <2>3, <2>4 DEF WorkIsBounded
<1> QED
  BY <1>4, <1>5

\* The strengthened invariant holds of every call (_send_validated and the
\* three loops around it).
THEOREM HttpInvariance == Spec => []HttpInv
<1> QED
  BY HttpInit, HttpStep, PTL DEF Spec

\* Type correctness of the call's state.
THEOREM HttpTypeCorrect == Spec => []TypeOK
<1>1. HttpInv => TypeOK
  BY DEF HttpInv
<1> QED
  BY HttpInvariance, <1>1, PTL

\* A name that is rebound between the check and the connection moves no
\* request (EgressPolicy.check, _pin_host).
THEOREM RequestsAreValidated == Spec => []SentWhereValidated
<1>1. HttpInv => SentWhereValidated
  BY DEF HttpInv
<1> QED
  BY HttpInvariance, <1>1, PTL

\* No redirect takes the caller's params or body along, on any attempt.
THEOREM PayloadStaysHome == Spec => []StaysHome
<1>1. HttpInv => StaysHome
  BY DEF HttpInv
<1> QED
  BY HttpInvariance, <1>1, PTL

\* A call makes at most (Retries + 1) * (MAX_REDIRECTS + 1) requests.
THEOREM RequestsAreBounded == Spec => []WorkIsBounded
<1>1. HttpInv => WorkIsBounded
  BY CountedIsBounded
<1> QED
  BY HttpInvariance, <1>1, PTL

\* A call raises the last error only after every attempt, and every other
\* outcome comes while one is left.
THEOREM ErrorsAreFinal == Spec => []AllAttemptsMade
<1>1. HttpInv => AllAttemptsMade
  BY DEF HttpInv, Attempts, AllAttemptsMade, Ended
<1> QED
  BY HttpInvariance, <1>1, PTL
=============================================================================
