--------------------------- MODULE MonitorPipeline --------------------------
(***************************************************************************)
(* The CertStream monitor: the listener's thread turns certificates into   *)
(* matches, and each match is a coroutine of one event loop, with its own  *)
(* session, that enriches, scores, records, captures and announces.  A     *)
(* step is what a coroutine does between two awaits.  A session that has   *)
(* flushed holds SQLite's write lock, also over the await of the capture.  *)
(***************************************************************************)
EXTENDS EventBus

CONSTANTS
    Names,            \* names in certificates
    Keywords,         \* settings.keywords, in order
    Holds,            \* the keywords each name has in it, in lower case
    Clean,            \* each name without a leading "*."
    SafeName,         \* each name as a file name: lower case, odd characters replaced
    LongNames,        \* those cut off before the timestamp that follows them
    Stream,           \* the messages of the certificate stream
    capture_enabled,
    Playwright,       \* whether the optional browser is installed
    MaxTime           \* bound: the seconds that pass

ASSUME NameAssumption ==
    /\ Holds \in [Names -> SUBSET {Keywords[k] : k \in DOMAIN Keywords}]
    /\ Clean \in [Names -> Names]
    /\ DOMAIN SafeName = Names /\ LongNames \subseteq Names
    /\ Stream \in Seq([message_type : {"heartbeat", "certificate_update", "other"},
                       all_domains  : Seq(Names)])

ASSUME SettingAssumption ==
    /\ capture_enabled \in BOOLEAN /\ Playwright \in BOOLEAN
    /\ MaxTime \in Nat

\* The first keyword a name has in it.
KeywordOf(name) ==
    Keywords[CHOOSE k \in DOMAIN Keywords :
                /\ Keywords[k] \in Holds[name]
                /\ \A j \in 1..(k - 1) : Keywords[j] \notin Holds[name]]

\* The names in a certificate that have a keyword, one match each.
_extract_matches(message) ==
    IF message.message_type # "certificate_update" THEN <<>>
    ELSE LET hits == SelectSeq(message.all_domains, LAMBDA name : Holds[name] # {})
         IN  [i \in 1..Len(hits) |-> [domain |-> Clean[hits[i]], keyword |-> KeywordOf(hits[i])]]

\* Keys of the coroutines: a match is named by its message and its place in it.
MatchesOf(i) == {<<i, j>> : j \in 1..Len(_extract_matches(Stream[i]))}
Matches == UNION {MatchesOf(i) : i \in 1..Len(Stream)}
DomainOf == [m \in Matches |-> _extract_matches(Stream[m[1]])[m[2]].domain]

VARIABLES
    cursor,    \* messages of the stream that have gone by
    up,        \* the process: "running", "stopping" (run's finally) or "down"
    browser,   \* "none", "open" or "closed"
    now,       \* the clock, in seconds
    phase,     \* where the coroutine of each match is
    rows,      \* the committed rows of monitor_matches
    evidence,  \* the committed rows of the evidence store
    files,     \* the artifact directory: which match wrote each file last, and when
    news       \* the publication of each match

recorded == <<rows, evidence>>
monitorVars == <<cursor, up, browser, now, phase, rows, evidence, files, news>>

-----------------------------------------------------------------------------
(* Types *)

Phases == {"unseen", "enriching", "capturing", "publishing", "done", "lost", "cancelled"}
Ended == {"done", "lost", "cancelled"}
File == {SafeName[DomainOf[m]] : m \in Matches} \X (0..MaxTime)
NoFile == [match |-> <<>>, at |-> 0]
Written == [match : Matches, at : 0..MaxTime]
MonitorMatch == [match : Matches, capture_status : {"skipped", "failed", "captured"}]
EvidenceArtifact ==   \* content: what the hash was taken of, text left out
    [match : Matches, evidence_type : {"ct_match_scoring", "html_dump"},
     content : {NoFile}, artifact_uri : {<<>>}]
    \cup [match : Matches, evidence_type : {"screenshot"},
          content : Written, artifact_uri : File]

MonitorTypeOK ==
    /\ cursor \in 0..Len(Stream)
    /\ up \in {"running", "stopping", "down"}
    /\ browser \in {"none", "open", "closed"}
    /\ now \in 0..MaxTime
    /\ phase \in [Matches -> Phases]
    /\ rows \subseteq MonitorMatch
    /\ evidence \subseteq EvidenceArtifact
    /\ files \in [File -> Written \cup {NoFile}]
    /\ news \in [Matches -> Publication]

MonitorInit ==
    /\ cursor = 0
    /\ up = "down"
    /\ browser = "none"
    /\ now = 0
    /\ phase = [m \in Matches |-> "unseen"]
    /\ rows = {}
    /\ evidence = {}
    /\ files = [f \in File |-> NoFile]
    /\ news = [m \in Matches |-> NotPublished]

-----------------------------------------------------------------------------
(* The process and the stream *)

\* run starts the browser, if there is one, and then the listener's thread.
Start ==
    /\ up = "down"
    /\ up' = "running"
    /\ browser' = IF Playwright THEN "open" ELSE "none"
    /\ UNCHANGED <<cursor, now, phase, recorded, files, news>>

\* Every match of a message becomes a coroutine of the loop; the thread does
\* not wait for them and drops their futures.
_on_message ==
    /\ up # "down"
    /\ cursor < Len(Stream)
    /\ cursor' = cursor + 1
    /\ phase' = [m \in Matches |-> IF m \in MatchesOf(cursor + 1) THEN "enriching" ELSE phase[m]]
    /\ UNCHANGED <<up, browser, now, recorded, files, news>>

\* The stream does not wait for a monitor that is down.
Missed ==
    /\ up = "down"
    /\ cursor < Len(Stream)
    /\ cursor' = cursor + 1
    /\ UNCHANGED <<up, browser, now, phase, recorded, files, news>>

\* An interrupt ends run, whose finally closes the browser while the other
\* coroutines go on; the worker keeps its reference to the closed browser.
Interrupt ==
    /\ up = "running"
    /\ up' = "stopping"
    /\ browser' = IF browser = "open" THEN "closed" ELSE browser
    /\ UNCHANGED <<cursor, now, phase, recorded, files, news>>

\* Mutant of Exit: what is left is not cancelled.
Exit_Detached ==
    /\ up # "down"
    /\ up' = "down"
    /\ UNCHANGED <<cursor, browser, now, phase, recorded, files, news>>

\* asyncio.run cancels the coroutines that are left, or the process is killed.
Exit ==
    /\ up # "down"
    /\ up' = "down"
    /\ phase' = [m \in Matches |-> IF phase[m] \in Ended \cup {"unseen"} THEN phase[m]
                                    ELSE "cancelled"]
    /\ UNCHANGED <<cursor, browser, now, recorded, files, news>>

Tick ==
    /\ now < MaxTime
    /\ now' = now + 1
    /\ UNCHANGED <<cursor, up, browser, phase, recorded, files, news>>

-----------------------------------------------------------------------------
(* A match *)

To(m, label) == phase' = [phase EXCEPT ![m] = label]

\* Rows that were flushed and not committed hold the write lock.
Locked == \E m \in Matches : phase[m] = "capturing"

\* EvidenceStore: the row of a text, and of an artifact that a file holds.
store(m, evidence_type) ==
    [match |-> m, evidence_type |-> evidence_type, content |-> NoFile, artifact_uri |-> <<>>]

\* Mutant of store_bytes: the row does not name the file.
store_bytes_NoUri(m, raw, uri) ==
    [match |-> m, evidence_type |-> "screenshot", content |-> raw, artifact_uri |-> <<>>]

store_bytes(m, raw, uri) ==
    [match |-> m, evidence_type |-> "screenshot", content |-> raw, artifact_uri |-> uri]

\* Mutant of Commit: each store commits what it flushed.
Commit_PerRow(m, status, artifacts) ==
    /\ rows' = rows \cup {[match |-> m, capture_status |-> status]}
    /\ evidence' = evidence \cup artifacts
    /\ To(m, "publishing")

\* The end of handle_match before it publishes: the match, its scoring and
\* what the capture left become visible at once.
Commit(m, status, artifacts) ==
    /\ rows' = rows \cup {[match |-> m, capture_status |-> status]}
    /\ evidence' = evidence \cup {store(m, "ct_match_scoring")} \cup artifacts
    /\ To(m, "publishing")

\* Enriched and scored, a match is flushed.  It is recorded at once when
\* captures are off, when the egress policy blocks the name or when there is
\* no browser.
RecordSkipped(m) ==
    /\ phase[m] = "enriching"
    /\ ~Locked
    /\ Commit(m, "skipped", {})
    /\ UNCHANGED <<cursor, up, browser, now, files, news>>

\* Otherwise the capture is awaited with the rows flushed.
StartCapture(m) ==
    /\ phase[m] = "enriching"
    /\ ~Locked
    /\ capture_enabled
    /\ browser # "none"
    /\ To(m, "capturing")
    /\ UNCHANGED <<cursor, up, browser, now, recorded, files, news>>

CaptureFailed(m) ==
    /\ phase[m] = "capturing"
    /\ Commit(m, "failed", {})
    /\ UNCHANGED <<cursor, up, browser, now, files, news>>

\* Mutant of write_artifact: the name of the file has no timestamp.
ArtifactOf_Undated(m) == <<SafeName[DomainOf[m]], 0>>

\* The file of a screenshot taken now: the name is made safe and cut to
\* length, which of a long domain leaves no timestamp.
ArtifactOf(m) ==
    <<SafeName[DomainOf[m]], IF DomainOf[m] \in LongNames THEN 0 ELSE now>>

\* write_artifact replaces what was there.
write_artifact(m) ==
    files' = [files EXCEPT ![ArtifactOf(m)] = [match |-> m, at |-> now]]

Captured(m) ==
    /\ phase[m] = "capturing"
    /\ browser = "open"
    /\ write_artifact(m)
    /\ \E html \in {{}, {store(m, "html_dump")}} :
          Commit(m, "captured",
                 {store_bytes(m, [match |-> m, at |-> now], ArtifactOf(m))} \cup html)
    /\ UNCHANGED <<cursor, up, browser, now, news>>

\* An exception is logged and the session closed: a provider raised, another
\* session held the write lock past its timeout (a capture always does: the
\* wait blocks the loop that would end it), the browser was closed, or the
\* write or the commit of an artifact failed, the file perhaps already there.
HandlerFails(m) ==
    /\ phase[m] \in {"enriching", "capturing"}
    /\ To(m, "lost")
    /\ \/ UNCHANGED files
       \/ phase[m] = "capturing" /\ browser = "open" /\ write_artifact(m)
    /\ UNCHANGED <<cursor, up, browser, now, recorded, news>>

\* The bus offers the event to its next sink.
Publish(m) ==
    /\ phase[m] = "publishing"
    /\ \E outcome \in emit(Sinks[news[m].offered + 1]) :
          news' = [news EXCEPT ![m] = publish(@, outcome)]
    /\ IF Published(news'[m]) THEN To(m, "done") ELSE UNCHANGED phase
    /\ UNCHANGED <<cursor, up, browser, now, recorded, files>>

HandleMatch(m) ==
    /\ up # "down"
    /\ \/ RecordSkipped(m)
       \/ StartCapture(m)
       \/ CaptureFailed(m)
       \/ Captured(m)
       \/ HandlerFails(m)
       \/ Publish(m)

MonitorNext ==
    \/ Start \/ _on_message \/ Missed \/ Interrupt \/ Exit \/ Tick
    \/ \E m \in Matches : HandleMatch(m)

MonitorSpec == MonitorInit /\ [][MonitorNext]_monitorVars

\* The loop runs every coroutine: enrichment, the lock and the capture time out.
FairMonitorSpec == MonitorSpec /\ \A m \in Matches : WF_monitorVars(HandleMatch(m))

-----------------------------------------------------------------------------
(* What the monitor promises *)

Shots == {e \in evidence : e.evidence_type = "screenshot"}

\* The file a screenshot row points to still has the bytes its hash was taken
\* of, unless a capture of the same file name in the same second, or of a name
\* too long for a timestamp, has replaced it ("chain-of-custody hash pointer",
\* EvidenceStore.store_bytes; the timestamp in _capture_and_store).
CustodyUnlessReplaced ==
    \A e \in Shots :
        LET file == files[e.artifact_uri]
        IN  \/ file = e.content
            \/ /\ file # NoFile
               /\ SafeName[DomainOf[file.match]] = SafeName[DomainOf[e.match]]
               /\ \/ file.at = e.content.at
                  \/ {DomainOf[file.match], DomainOf[e.match]} \cap LongNames # {}

\* Once a match is done, every sink was offered its event and every sink that
\* could take it did: one that fails does not silence the next
\* (EventBus.publish), and the log has it whatever happened.
SinksIsolated ==
    \A m \in Matches : phase[m] = "done" =>
        \A s \in 1..Len(Sinks) :
            Sinks[s] = LogSink => s \in news[m].heard

\* The matches recorded, each with its status and the evidence it has, and
\* who was told: the monitor records a match whole and once, before it tells.
Ledger == INSTANCE MatchLedger WITH
    Hearers <- 1..Len(Sinks),
    ledger  <- {[match    |-> r.match,
                 status   |-> r.capture_status,
                 evidence |-> {e.evidence_type : e \in {x \in evidence : x.match = r.match}}] :
                   r \in rows},
    told    <- UNION {{<<m, s>> : s \in news[m].heard} : m \in Matches}
RecordsWholeThenTells == Ledger!LedgerSpec

\* Every match that was seen is announced, lost with its session, or cancelled
\* with the process: none hangs on the lock, the browser or a sink.
EveryMatchEnds ==
    \A m \in Matches : phase[m] = "enriching" ~> phase[m] \in Ended
=============================================================================
