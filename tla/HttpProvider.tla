---------------------------- MODULE HttpProvider ----------------------------
(***************************************************************************)
(* Outgoing HTTP (core/http.py): one call of HttpProvider by a coroutine,  *)
(* the egress policy that checks every hop, and the name service, whose    *)
(* answers may change whenever the coroutine waits.  A provider keeps no   *)
(* state between its calls, so one call stands for all of them.            *)
(***************************************************************************)
EXTENDS Naturals, FiniteSets

CONSTANTS
    Urls,          \* the URLs that callers and Location headers name
    WebUrls,       \* those with the scheme http or https
    Malformed,     \* those that urlsplit refuses (ValueError)
    BadPort,       \* those whose port is out of range (ValueError)
    Unbuildable,   \* those httpx refuses to build a request for (InvalidURL)
    Hosts,         \* host names and address literals
    Unencodable,   \* names that cannot be looked up at all (UnicodeError)
    NoHost,        \* the URL names no host
    HostOf,        \* the host of each URL
    Addresses,
    Public,        \* the addresses that are global and not multicast
    NoAddress,     \* the host does not resolve
    LiteralOf,     \* the address that an address literal stands for
    Allowlists,    \* the allowlists a policy may be built with; {} allows any
    Retries,       \* settings.http_retries
    MAX_REDIRECTS

ASSUME UrlAssumption ==
    /\ WebUrls \cup Malformed \cup BadPort \cup Unbuildable \subseteq Urls
    /\ HostOf \in [Urls -> Hosts \cup {NoHost}]

ASSUME AddressAssumption ==
    /\ Public \subseteq Addresses
    /\ NoAddress \notin Addresses
    /\ DOMAIN LiteralOf \subseteq Hosts \ Unencodable
    /\ \A h \in DOMAIN LiteralOf : LiteralOf[h] \in Addresses
    /\ Allowlists \subseteq SUBSET Hosts

ASSUME BoundAssumption == Retries \in Nat /\ MAX_REDIRECTS \in Nat

VARIABLES
    call,      \* what the caller asked for and the policy of its provider
    pc,        \* where the coroutine is
    attempt,   \* attempts that have failed
    hop,       \* redirects followed in this attempt
    current,   \* the URL of this hop
    carries,   \* whether this hop takes the caller's params or JSON body along
    pinned,    \* the address the check of this hop returned
    dns,       \* what the name service answers first, for every host
    sent,      \* the requests that have gone out
    requests   \* and their number

callVars == <<call, pc, attempt, hop, current, carries, pinned, sent, requests>>
vars == <<callVars, dns>>

-----------------------------------------------------------------------------
(* Types *)

\* get_json and get_text differ in what they make of a body, not in their
\* steps.  A POST always has a JSON body.
Call ==
    {c \in [method : {"GET", "POST"}, url : Urls, carries : BOOLEAN,
            allowlist : Allowlists] : c.method = "POST" => c.carries}

Request == [method : {"GET", "POST"}, url : Urls, to : Addresses, carries : BOOLEAN]

Ended == {"returned", "blocked", "invalid_url", "raised"}

TypeOK ==
    /\ call \in Call
    /\ pc \in {"check", "send", "answer", "sleep"} \cup Ended
    /\ attempt \in 0 .. Retries + 1
    /\ hop \in 0 .. MAX_REDIRECTS
    /\ current \in Urls
    /\ carries \in BOOLEAN
    /\ pinned \in Addresses \cup {NoAddress}
    /\ dns \in [Hosts -> Addresses \cup {NoAddress}]
    /\ sent \subseteq Request
    /\ requests \in Nat

Init ==
    /\ call \in Call
    /\ pc = "check"
    /\ attempt = 0
    /\ hop = 0
    /\ current = call.url
    /\ carries = call.carries
    /\ pinned = NoAddress
    /\ dns \in {d \in [Hosts -> Addresses \cup {NoAddress}] :
                    /\ \A h \in DOMAIN LiteralOf : d[h] = LiteralOf[h]
                    /\ \A h \in Unencodable : d[h] = NoAddress}
    /\ sent = {}
    /\ requests = 0

-----------------------------------------------------------------------------
(* EgressPolicy.check *)

Permitted(url, allowlist) ==
    /\ url \in WebUrls
    /\ HostOf[url] # NoHost
    /\ allowlist # {} => HostOf[url] \in allowlist

\* Only the first address a host resolves to is looked at, and it is used.
Admitted(url, allowlist) ==
    Permitted(url, allowlist) /\ dns[HostOf[url]] \in Public

\* A ValueError, at the point of the check or of the pinning that raises it.
CheckRaises(url, allowlist) ==
    \/ url \in Malformed
    \/ Permitted(url, allowlist) /\ HostOf[url] \in Unencodable
    \/ Admitted(url, allowlist) /\ url \in BadPort

-----------------------------------------------------------------------------
(* The end of an attempt *)

\* Mutant of Fails: the loop never counts its attempts.
Fails_Uncounted ==
    /\ pc' = "sleep"
    /\ UNCHANGED <<call, attempt, hop, current, carries, pinned, dns, sent, requests>>

\* httpx.HTTPError and ValueError are retried.
Fails ==
    /\ attempt' = attempt + 1
    /\ pc' = "sleep"
    /\ UNCHANGED <<call, hop, current, carries, pinned, dns, sent, requests>>

Ends(how) ==
    /\ pc' = how
    /\ UNCHANGED <<call, attempt, hop, current, carries, pinned, dns, sent, requests>>

\* Mutant of Retry: one attempt too many.
Retry_OneMore ==
    /\ pc = "sleep"
    /\ attempt <= Retries + 1
    /\ pc' = "check"
    /\ hop' = 0
    /\ current' = call.url
    /\ carries' = call.carries
    /\ UNCHANGED <<call, attempt, pinned, dns, sent, requests>>

\* The coroutine sleeps after its last attempt as well, then raises the last
\* error; every attempt starts again from the caller's URL.
Retry ==
    /\ pc = "sleep"
    /\ attempt <= Retries
    /\ pc' = "check"
    /\ hop' = 0
    /\ current' = call.url
    /\ carries' = call.carries
    /\ UNCHANGED <<call, attempt, pinned, dns, sent, requests>>

\* Mutant of GiveUp: the first error is raised at once.
GiveUp_TooSoon == pc = "sleep" /\ Ends("raised")

GiveUp ==
    /\ pc = "sleep"
    /\ attempt > Retries
    /\ Ends("raised")

-----------------------------------------------------------------------------
(* One hop: _send_validated *)

CheckFails ==
    /\ pc = "check"
    /\ CheckRaises(current, call.allowlist)
    /\ Fails

\* EgressBlockedError is neither of the errors that are retried.
CheckBlocks ==
    /\ pc = "check"
    /\ ~CheckRaises(current, call.allowlist)
    /\ ~Admitted(current, call.allowlist)
    /\ Ends("blocked")

\* Nor is httpx.InvalidURL.
BuildRefuses ==
    /\ pc = "check"
    /\ ~CheckRaises(current, call.allowlist)
    /\ Admitted(current, call.allowlist)
    /\ current \in Unbuildable
    /\ Ends("invalid_url")

CheckPins ==
    /\ pc = "check"
    /\ ~CheckRaises(current, call.allowlist)
    /\ Admitted(current, call.allowlist)
    /\ current \notin Unbuildable
    /\ pinned' = dns[HostOf[current]]
    /\ pc' = "send"
    /\ UNCHANGED <<call, attempt, hop, current, carries, dns, sent, requests>>

\* Mutant of Destination: the client resolves the name again to connect.
Destination_ResolvedAgain == dns[HostOf[current]]

\* The pinned URL holds the address, not the name.
Destination == pinned

\* client.send connects to the address in the pinned URL, some time after the check.
Send ==
    /\ pc = "send"
    /\ sent' = sent \cup {[method |-> call.method, url |-> current,
                           to |-> Destination, carries |-> carries]}
    /\ requests' = requests + 1
    /\ pc' = "answer"
    /\ UNCHANGED <<call, attempt, hop, current, carries, pinned, dns>>

\* The host cannot be reached: the request has not gone out.
ConnectFails ==
    /\ pc = "send"
    /\ Fails

-----------------------------------------------------------------------------
(* The answer *)

\* A timeout, an error status, a body that cannot be read; for a GET, a
\* redirect whose Location is missing or does not parse; for a POST, any
\* redirect, and a body that is not a JSON object.
AnswerFails ==
    /\ pc = "answer"
    /\ Fails

AnswerReturns ==
    /\ pc = "answer"
    /\ Ends("returned")

\* Mutant of FollowRedirect: the params go along.
FollowRedirect_KeepsParams(url) ==
    /\ pc = "answer"
    /\ call.method = "GET"
    /\ hop < MAX_REDIRECTS
    /\ hop' = hop + 1
    /\ current' = url
    /\ pc' = "check"
    /\ UNCHANGED <<call, attempt, carries, pinned, dns, sent, requests>>

\* Mutant of FollowRedirect: one hop too many.
FollowRedirect_OneMore(url) ==
    /\ pc = "answer"
    /\ call.method = "GET"
    /\ hop <= MAX_REDIRECTS
    /\ hop' = hop + 1
    /\ current' = url
    /\ carries' = FALSE
    /\ pc' = "check"
    /\ UNCHANGED <<call, attempt, pinned, dns, sent, requests>>

FollowRedirect(url) ==
    /\ pc = "answer"
    /\ call.method = "GET"
    /\ hop < MAX_REDIRECTS
    /\ hop' = hop + 1
    /\ current' = url
    /\ carries' = FALSE
    /\ pc' = "check"
    /\ UNCHANGED <<call, attempt, pinned, dns, sent, requests>>

\* httpx.TooManyRedirects is an HTTPError.
TooManyRedirects ==
    /\ pc = "answer"
    /\ call.method = "GET"
    /\ hop = MAX_REDIRECTS
    /\ Fails

-----------------------------------------------------------------------------
\* A name may point elsewhere at any time; an address literal cannot.
DnsChange(host, address) ==
    /\ host \notin DOMAIN LiteralOf \cup Unencodable
    /\ dns' = [dns EXCEPT ![host] = address]
    /\ UNCHANGED callVars

CallStep ==
    \/ CheckFails \/ CheckBlocks \/ BuildRefuses \/ CheckPins
    \/ Send \/ ConnectFails
    \/ AnswerFails \/ AnswerReturns \/ TooManyRedirects
    \/ \E url \in Urls : FollowRedirect(url)
    \/ Retry \/ GiveUp

Next ==
    \/ CallStep
    \/ \E host \in Hosts, address \in Addresses \cup {NoAddress} : DnsChange(host, address)

Spec == Init /\ [][Next]_vars

\* The event loop resumes a coroutine whose wait is over, and the client's
\* timeout cuts off a host that is silent (settings.http_timeout).  That no
\* host answers without end, byte by byte, is assumed of the network.
FairSpec == Spec /\ WF_vars(CallStep)

-----------------------------------------------------------------------------
(* What a caller may rely on *)

\* Whatever the name service answers between the check and the connection, a
\* request goes out only to a public address, for a URL the policy permits.
SentWhereValidated ==
    \A r \in sent : r.to \in Public /\ Permitted(r.url, call.allowlist)

\* The caller's params and JSON body reach no URL but the caller's own, on any
\* attempt and whatever redirects the answers name; and a POST is sent nowhere
\* else at all.
StaysHome ==
    \A r \in sent : r.carries \/ r.method = "POST" => r.url = call.url

Budget == (Retries + 1) * (IF call.method = "GET" THEN MAX_REDIRECTS + 1 ELSE 1)

\* A host that redirects and fails for ever costs a bounded number of requests.
WorkIsBounded == requests <= Budget

\* An error is raised to the caller only when every attempt has failed, and a
\* call that was answered or refused has an attempt left: a refusal is never
\* retried into something else, and a failure never passes for an answer.
AllAttemptsMade ==
    /\ pc = "raised" => attempt = Retries + 1
    /\ pc \in Ended \ {"raised"} => attempt <= Retries

\* Every call comes to an end, in an answer or in an error.
CallEnds == <>(pc \in Ended)
=============================================================================
