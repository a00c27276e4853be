----------------------- MODULE MonitorPipeline_proofs -----------------------
(***************************************************************************)
(* What holds of the monitor for any stream, keywords, sinks and clock,    *)
(* with any number of interrupts and restarts.                             *)
(***************************************************************************)
EXTENDS MonitorPipeline, TLAPS

\* The matches of a message that has not gone by have no coroutine.
Ahead == \A m \in Matches : m[1] > cursor => phase[m] = "unseen"

\* What a publication has done so far.
Announced ==
    \A m \in Matches :
        /\ phase[m] \in {"unseen", "enriching", "capturing", "lost"} => news[m] = NotPublished
        /\ phase[m] = "publishing" => news[m].offered < Len(Sinks)
        /\ phase[m] = "done" => news[m].offered = Len(Sinks)
        /\ \A s \in news[m].heard : s <= news[m].offered
        /\ \A s \in 1..Len(Sinks) :
              s <= news[m].offered /\ Sinks[s] = LogSink => s \in news[m].heard

\* The evidence of a match.
KindsOf(m) == {e.evidence_type : e \in {x \in evidence : x.match = m}}

\* Nothing of a match is visible before its commit, and all of it afterwards.
Whole ==
    \A m \in Matches :
        /\ phase[m] \in {"unseen", "enriching", "capturing", "lost"} =>
              /\ \A r \in rows : r.match # m
              /\ \A e \in evidence : e.match # m
        /\ phase[m] \in {"publishing", "done"} => \E r \in rows : r.match = m
        /\ news[m].heard # {} => \E r \in rows : r.match = m

\* A file has the name its match gives it at that time.
NameOf(written) ==
    <<SafeName[DomainOf[written.match]],
      IF DomainOf[written.match] \in LongNames THEN 0 ELSE written.at>>

\* A file is named for what is in it, a row points to a file that was written.
Filed ==
    /\ \A f \in File : files[f] # NoFile => f = NameOf(files[f])
    /\ \A e \in Shots :
          /\ e.content \in Written /\ e.content.match = e.match
          /\ e.artifact_uri \in File /\ e.artifact_uri = NameOf(e.content)
          /\ files[e.artifact_uri] # NoFile

MonitorInv == MonitorTypeOK /\ Ahead /\ Announced /\ Whole /\ Filed

-----------------------------------------------------------------------------
LEMMA SinksType == Sinks \in Seq(Sink) /\ Len(Sinks) \in Nat /\ Len(Sinks) >= 1
<1>1. CASE Given = <<>>
  BY <1>1, SinkAssumption DEF Sinks
<1>2. CASE Given # <<>>
  BY <1>2, SinkAssumption DEF Sinks
<1>3. QED
  BY <1>1, <1>2

\* A match is a pair: the place of its message, and its own place in it.
LEMMA MatchesArePairs ==
    ASSUME NEW m \in Matches
    PROVE  m[1] \in 1..Len(Stream) /\ m # <<>> /\ m \in MatchesOf(m[1])
<1>1. PICK i \in 1..Len(Stream) : m \in MatchesOf(i)
  BY DEF Matches
<1>2. PICK j \in 1..Len(_extract_matches(Stream[i])) : m = <<i, j>>
  BY <1>1 DEF MatchesOf
<1>3. m[1] = i
  BY <1>2
<1>4. m # <<>>
  BY <1>2
<1>5. QED
  BY <1>1, <1>3, <1>4

LEMMA StreamType == Len(Stream) \in Nat
BY NameAssumption

LEMMA WrittenIsSome ==
    ASSUME NEW m \in Matches, NEW t
    PROVE  [match |-> m, at |-> t] # NoFile
BY MatchesArePairs DEF NoFile

LEMMA ArtifactsAreFiles ==
    ASSUME NEW m \in Matches, MonitorTypeOK
    PROVE  /\ ArtifactOf(m) \in File
           /\ [match |-> m, at |-> now] \in Written
           /\ NameOf([match |-> m, at |-> now]) = ArtifactOf(m)
<1>1. now \in 0..MaxTime /\ 0 \in 0..MaxTime
  BY SettingAssumption DEF MonitorTypeOK
<1>2. SafeName[DomainOf[m]] \in {SafeName[DomainOf[x]] : x \in Matches}
  OBVIOUS
<1>3. ArtifactOf(m) \in File
  BY <1>1, <1>2 DEF ArtifactOf, File
<1>4. [match |-> m, at |-> now] \in Written
  BY <1>1 DEF Written
<1>5. NameOf([match |-> m, at |-> now]) = ArtifactOf(m)
  BY DEF NameOf, ArtifactOf
<1>6. QED
  BY <1>3, <1>4, <1>5

-----------------------------------------------------------------------------
LEMMA MonitorInitially == MonitorInit => MonitorInv
<1> SUFFICES ASSUME MonitorInit
             PROVE  MonitorInv
  OBVIOUS
<1>1. \A m \in Matches : phase[m] = "unseen" /\ news[m] = NotPublished
  BY DEF MonitorInit
<1>2. NotPublished \in Publication
  BY SinksType DEF NotPublished, Publication
<1>3. MonitorTypeOK
  <2>1. phase \in [Matches -> Phases] /\ news \in [Matches -> Publication]
    BY <1>2 DEF MonitorInit, Phases
  <2>2. files \in [File -> Written \cup {NoFile}]
    BY DEF MonitorInit
  <2>3. QED
    BY <2>1, <2>2, StreamType, SettingAssumption DEF MonitorInit, MonitorTypeOK
<1>4. Ahead
  BY <1>1 DEF Ahead
<1>5. Announced
  BY <1>1, SinksType DEF Announced, NotPublished
<1>6. Whole
  BY <1>1 DEF Whole, NotPublished, MonitorInit
<1>7. Filed
  BY DEF Filed, Shots, MonitorInit
<1>8. QED
  BY <1>3, <1>4, <1>5, <1>6, <1>7 DEF MonitorInv

\* The steps of the process change no record, and phases only as they say.
LEMMA ProcessStep ==
    ASSUME MonitorInv, Start \/ _on_message \/ Missed \/ Interrupt \/ Exit \/ Tick
    PROVE  MonitorInv'
<1>1. rows' = rows /\ evidence' = evidence /\ files' = files /\ news' = news
  BY DEF Start, _on_message, Missed, Interrupt, Exit, Tick, recorded
<1>2. cursor \in 0..Len(Stream) /\ Len(Stream) \in Nat /\ now \in 0..MaxTime /\ MaxTime \in Nat
  BY StreamType, SettingAssumption DEF MonitorInv, MonitorTypeOK
<1>3. /\ cursor' \in 0..Len(Stream) /\ cursor' >= cursor
      /\ now' \in 0..MaxTime
      /\ up' \in {"running", "stopping", "down"}
      /\ browser' \in {"none", "open", "closed"}
  BY <1>2 DEF MonitorInv, MonitorTypeOK, Start, _on_message, Missed, Interrupt, Exit, Tick
<1>4. /\ phase' \in [Matches -> Phases]
      /\ \A m \in Matches :
            \/ phase'[m] = phase[m]
            \/ phase[m] = "unseen" /\ phase'[m] = "enriching" /\ m[1] <= cursor'
            \/ phase'[m] = "cancelled" /\ phase[m] # "unseen"
  <2>1. CASE _on_message
    <3>1. cursor' = cursor + 1
          /\ phase' = [m \in Matches |-> IF m \in MatchesOf(cursor + 1) THEN "enriching" ELSE phase[m]]
      BY <2>1 DEF _on_message
    <3>2. \A m \in MatchesOf(cursor + 1) : m[1] = cursor + 1
      BY DEF MatchesOf
    <3>3. \A m \in Matches : m \in MatchesOf(cursor + 1) => phase[m] = "unseen" /\ m[1] <= cursor'
      BY <1>2, <3>1, <3>2 DEF MonitorInv, Ahead
    <3>4. phase \in [Matches -> Phases] /\ "enriching" \in Phases
      BY DEF MonitorInv, MonitorTypeOK, Phases
    <3>5. phase' \in [Matches -> Phases]
      BY <3>1, <3>4
    <3>6. QED
      BY <3>1, <3>3, <3>5
  <2>2. CASE Exit
    <3>1. phase' = [m \in Matches |-> IF phase[m] \in Ended \cup {"unseen"} THEN phase[m]
                                       ELSE "cancelled"]
      BY <2>2 DEF Exit
    <3>2. phase \in [Matches -> Phases] /\ "cancelled" \in Phases
      BY DEF MonitorInv, MonitorTypeOK, Phases
    <3>3. QED
      BY <3>1, <3>2
  <2>3. CASE Start \/ Missed \/ Interrupt \/ Tick
    BY <2>3 DEF MonitorInv, MonitorTypeOK, Start, Missed, Interrupt, Tick
  <2>4. QED
    BY <2>1, <2>2, <2>3
<1>5. MonitorTypeOK'
  BY <1>1, <1>3, <1>4 DEF MonitorInv, MonitorTypeOK
<1>6. Ahead'
  <2> SUFFICES ASSUME NEW m \in Matches, m[1] > cursor'
               PROVE  phase'[m] = "unseen"
    BY DEF Ahead
  <2>1. m[1] \in Nat
    BY MatchesArePairs, StreamType
  <2>2. m[1] > cursor /\ ~(m[1] <= cursor')
    BY <1>2, <1>3, <2>1
  <2>3. phase[m] = "unseen"
    BY <2>2 DEF MonitorInv, Ahead
  <2>4. QED
    BY <1>4, <2>2, <2>3
<1>7. Announced'
  BY <1>1, <1>4, Zenon DEF MonitorInv, Announced
<1>8. Whole'
  BY <1>1, <1>4 DEF MonitorInv, Whole
<1>9. Filed'
  BY <1>1 DEF MonitorInv, Filed, Shots
<1>10. QED
  BY <1>5, <1>6, <1>7, <1>8, <1>9 DEF MonitorInv

-----------------------------------------------------------------------------
\* A coroutine that goes on, and what it leaves alone.
LEMMA PhaseStep ==
    ASSUME MonitorInv, NEW m \in Matches, NEW label \in Phases, To(m, label),
           phase[m] # "unseen", cursor' = cursor
    PROVE  /\ phase' \in [Matches -> Phases]
           /\ phase'[m] = label
           /\ \A x \in Matches : x # m => phase'[x] = phase[x]
           /\ Ahead'
<1>1. phase \in [Matches -> Phases] /\ phase' = [phase EXCEPT ![m] = label]
  BY DEF MonitorInv, MonitorTypeOK, To
<1>2. phase' \in [Matches -> Phases] /\ phase'[m] = label
      /\ \A x \in Matches : x # m => phase'[x] = phase[x]
  BY <1>1
<1>3. Ahead'
  BY <1>2 DEF MonitorInv, Ahead
<1>4. QED
  BY <1>2, <1>3

\* A commit makes a match and its evidence visible, and nothing of another.
LEMMA CommitStep ==
    ASSUME MonitorInv, NEW m \in Matches, phase[m] \in {"enriching", "capturing"},
           NEW status \in {"skipped", "failed", "captured"},
           NEW artifacts \in SUBSET EvidenceArtifact,
           \A e \in artifacts : e.match = m,
           Commit(m, status, artifacts),
           UNCHANGED <<cursor, up, browser, now, news>>,
           files' \in [File -> Written \cup {NoFile}]
    PROVE  MonitorTypeOK' /\ Ahead' /\ Announced' /\ Whole'
<1> DEFINE row == [match |-> m, capture_status |-> status]
           scoring == store(m, "ct_match_scoring")
<1>1. rows' = rows \cup {row} /\ evidence' = evidence \cup {scoring} \cup artifacts
  BY DEF Commit
<1>2. row \in MonitorMatch /\ row.match = m
  BY DEF MonitorMatch
<1>3. scoring \in EvidenceArtifact /\ scoring.match = m
  BY DEF store, EvidenceArtifact
<1> HIDE DEF row, scoring
<1>4. To(m, "publishing") /\ "publishing" \in Phases /\ phase[m] # "unseen"
  BY DEF Commit, Phases
<1>5. /\ phase' \in [Matches -> Phases]
      /\ phase'[m] = "publishing"
      /\ \A x \in Matches : x # m => phase'[x] = phase[x]
      /\ Ahead'
  BY <1>4, PhaseStep
<1>6. MonitorTypeOK'
  BY <1>1, <1>2, <1>3, <1>5 DEF MonitorInv, MonitorTypeOK
<1>7. Announced'
  <2>1. news[m] = NotPublished /\ news[m].offered = 0
    BY DEF MonitorInv, Announced, NotPublished
  <2>2. \A x \in Matches : x # m => news'[x] = news[x] /\ phase'[x] = phase[x]
    BY <1>5
  <2>3. news' = news /\ 0 < Len(Sinks)
    BY SinksType
  <2>4. QED
    BY <1>5, <2>1, <2>2, <2>3 DEF MonitorInv, Announced
<1>8. Whole'
  <2>1. \A x \in Matches : x # m =>
           /\ (\A r \in rows : r.match # x) => (\A r \in rows' : r.match # x)
           /\ (\A e \in evidence : e.match # x) => (\A e \in evidence' : e.match # x)
    BY <1>1, <1>2, <1>3
  <2>2. \A x \in Matches : (\E r \in rows : r.match = x) => (\E r \in rows' : r.match = x)
    BY <1>1
  <2>3. \E r \in rows' : r.match = m
    BY <1>1, <1>2
  <2>4. QED
    BY <1>5, <2>1, <2>2, <2>3 DEF MonitorInv, Whole
<1>9. QED
  BY <1>5, <1>6, <1>7, <1>8

\* A screenshot is written under its own name, whatever was there.
LEMMA WriteStep ==
    ASSUME MonitorInv, NEW m \in Matches, write_artifact(m)
    PROVE  /\ files' \in [File -> Written \cup {NoFile}]
           /\ \A f \in File : files'[f] # NoFile => f = NameOf(files'[f])
           /\ \A f \in File : files[f] # NoFile => files'[f] # NoFile
           /\ files'[ArtifactOf(m)] # NoFile
<1> DEFINE new == [match |-> m, at |-> now]
<1>1. /\ ArtifactOf(m) \in File /\ new \in Written
      /\ NameOf(new) = ArtifactOf(m)
      /\ new # NoFile
  BY ArtifactsAreFiles, WrittenIsSome DEF MonitorInv
<1>2. files' = [files EXCEPT ![ArtifactOf(m)] = new] /\ files \in [File -> Written \cup {NoFile}]
  BY DEF write_artifact, MonitorInv, MonitorTypeOK
<1> HIDE DEF new
<1>3. files' \in [File -> Written \cup {NoFile}]
  BY <1>1, <1>2
<1>4. files'[ArtifactOf(m)] = new /\ \A f \in File : f # ArtifactOf(m) => files'[f] = files[f]
  BY <1>1, <1>2
<1>5. \A f \in File : files[f] # NoFile => f = NameOf(files[f])
  BY DEF MonitorInv, Filed
<1>6. QED
  BY <1>1, <1>3, <1>4, <1>5

\* A recorded match with no screenshot: the artifacts are as they were.
LEMMA PlainCommit ==
    ASSUME MonitorInv, NEW m \in Matches, RecordSkipped(m) \/ CaptureFailed(m)
    PROVE  MonitorInv'
<1>1. PICK status \in {"skipped", "failed", "captured"} : Commit(m, status, {})
  BY DEF RecordSkipped, CaptureFailed
<1>2. /\ phase[m] \in {"enriching", "capturing"}
      /\ UNCHANGED <<cursor, up, browser, now, news>> /\ files' = files
  BY DEF RecordSkipped, CaptureFailed
<1>3. {} \in SUBSET EvidenceArtifact /\ files' \in [File -> Written \cup {NoFile}]
  BY <1>2 DEF MonitorInv, MonitorTypeOK
<1>4. MonitorTypeOK' /\ Ahead' /\ Announced' /\ Whole'
  BY <1>1, <1>2, <1>3, CommitStep
<1>5. Shots' = Shots
  <2>1. store(m, "ct_match_scoring").evidence_type # "screenshot"
    BY DEF store
  <2>2. evidence' = evidence \cup {store(m, "ct_match_scoring")} \cup {}
    BY <1>1 DEF Commit
  <2>3. QED
    BY <2>1, <2>2 DEF Shots
<1>6. Filed'
  BY <1>2, <1>5 DEF MonitorInv, Filed
<1>7. QED
  BY <1>4, <1>6 DEF MonitorInv

\* A capture that succeeds: what its commit and its file are.
LEMMA CapturedFacts ==
    ASSUME MonitorInv, NEW m \in Matches, Captured(m)
    PROVE  \E html \in {{}, {store(m, "html_dump")}} :
              LET shot == store_bytes(m, [match |-> m, at |-> now], ArtifactOf(m))
              IN  /\ Commit(m, "captured", {shot} \cup html)
                  /\ {shot} \cup html \in SUBSET EvidenceArtifact
                  /\ \A e \in {shot} \cup html : e.match = m
                  /\ \A e \in html : e.evidence_type = "html_dump"
<1>1. PICK html \in {{}, {store(m, "html_dump")}} :
         Commit(m, "captured",
                {store_bytes(m, [match |-> m, at |-> now], ArtifactOf(m))} \cup html)
  BY DEF Captured
<1>2. store_bytes(m, [match |-> m, at |-> now], ArtifactOf(m)) \in EvidenceArtifact
  BY ArtifactsAreFiles DEF MonitorInv, store_bytes, EvidenceArtifact
<1>3. store(m, "html_dump") \in EvidenceArtifact
  BY DEF store, EvidenceArtifact
<1>4. /\ store_bytes(m, [match |-> m, at |-> now], ArtifactOf(m)).match = m
      /\ store(m, "html_dump").match = m /\ store(m, "html_dump").evidence_type = "html_dump"
  BY DEF store_bytes, store
<1>5. QED
  BY <1>1, <1>2, <1>3, <1>4

LEMMA CapturedStep ==
    ASSUME MonitorInv, NEW m \in Matches, Captured(m)
    PROVE  MonitorInv'
<1> DEFINE content == [match |-> m, at |-> now]
           shot == store_bytes(m, content, ArtifactOf(m))
<1>1. PICK html \in {{}, {store(m, "html_dump")}} :
         /\ Commit(m, "captured", {shot} \cup html)
         /\ {shot} \cup html \in SUBSET EvidenceArtifact
         /\ \A e \in {shot} \cup html : e.match = m
         /\ \A e \in html : e.evidence_type = "html_dump"
  BY CapturedFacts
<1>2. /\ phase[m] \in {"enriching", "capturing"} /\ write_artifact(m)
      /\ UNCHANGED <<cursor, up, browser, now, news>>
  BY DEF Captured
<1>3. /\ files' \in [File -> Written \cup {NoFile}]
      /\ \A f \in File : files'[f] # NoFile => f = NameOf(files'[f])
      /\ \A f \in File : files[f] # NoFile => files'[f] # NoFile
      /\ files'[ArtifactOf(m)] # NoFile
  BY <1>2, WriteStep
<1>4. /\ shot.content = content /\ shot.artifact_uri = ArtifactOf(m) /\ shot.match = m
      /\ content \in Written /\ content.match = m
      /\ ArtifactOf(m) \in File /\ NameOf(content) = ArtifactOf(m)
  BY ArtifactsAreFiles DEF MonitorInv, store_bytes
<1> HIDE DEF content, shot
<1>5. MonitorTypeOK' /\ Ahead' /\ Announced' /\ Whole'
  BY <1>1, <1>2, <1>3, CommitStep
<1>6. \A e \in Shots' : e \in Shots \/ e = shot
  <2>1. store(m, "ct_match_scoring").evidence_type # "screenshot"
    BY DEF store
  <2>2. evidence' = evidence \cup {store(m, "ct_match_scoring")} \cup ({shot} \cup html)
    BY <1>1 DEF Commit
  <2>3. QED
    BY <1>1, <2>1, <2>2 DEF Shots
<1>7. \A e \in Shots' :
         /\ e.content \in Written /\ e.content.match = e.match
         /\ e.artifact_uri \in File /\ e.artifact_uri = NameOf(e.content)
         /\ files'[e.artifact_uri] # NoFile
  BY <1>3, <1>4, <1>6 DEF MonitorInv, Filed
<1>8. Filed'
  <2>1. \A w : NameOf(w)' = NameOf(w)
    BY DEF NameOf
  <2>2. QED
    BY <1>3, <1>7 DEF Filed, NameOf
<1>9. QED
  BY <1>5, <1>8 DEF MonitorInv

\* A capture that begins, or a coroutine that fails: at most a file is left.
LEMMA UnrecordedStep ==
    ASSUME MonitorInv, NEW m \in Matches, StartCapture(m) \/ HandlerFails(m)
    PROVE  MonitorInv'
<1>1. PICK label \in {"capturing", "lost"} : To(m, label)
  BY DEF StartCapture, HandlerFails
<1>2. /\ phase[m] \in {"enriching", "capturing"}
      /\ UNCHANGED <<cursor, up, browser, now, rows, evidence, news>>
      /\ files' = files \/ write_artifact(m)
  BY DEF StartCapture, HandlerFails, recorded
<1>3. label \in Phases /\ phase[m] # "unseen"
  BY <1>2 DEF Phases
<1>4. /\ phase' \in [Matches -> Phases]
      /\ phase'[m] = label
      /\ \A x \in Matches : x # m => phase'[x] = phase[x]
      /\ Ahead'
  BY <1>1, <1>2, <1>3, PhaseStep
<1>5. /\ files' \in [File -> Written \cup {NoFile}]
      /\ \A f \in File : files'[f] # NoFile => f = NameOf(files'[f])
      /\ \A f \in File : files[f] # NoFile => files'[f] # NoFile
  <2>1. CASE files' = files
    BY <2>1 DEF MonitorInv, MonitorTypeOK, Filed
  <2>2. CASE write_artifact(m)
    BY <2>2, WriteStep
  <2>3. QED
    BY <1>2, <2>1, <2>2
<1>6. MonitorTypeOK'
  BY <1>2, <1>4, <1>5 DEF MonitorInv, MonitorTypeOK
<1>7. Announced'
  <2>1. news' = news /\ news[m] = NotPublished
    BY <1>2 DEF MonitorInv, Announced
  <2>2. \A x \in Matches : phase'[x] = phase[x] \/ x = m
    BY <1>4
  <2>3. QED
    BY <1>4, <2>1, <2>2 DEF MonitorInv, Announced, NotPublished
<1>8. Whole'
  BY <1>2, <1>4 DEF MonitorInv, Whole
<1>9. Filed'
  <2>1. Shots' = Shots
    BY <1>2 DEF Shots
  <2>2. QED
    BY <1>5, <2>1 DEF MonitorInv, Filed, NameOf
<1>10. QED
  BY <1>4, <1>6, <1>7, <1>8, <1>9 DEF MonitorInv

\* One turn of the bus: the sink that was offered the event took it or not.
LEMMA PublishFacts ==
    ASSUME MonitorInv, NEW m \in Matches, Publish(m)
    PROVE  LET next == news[m].offered + 1
           IN  /\ next \in 1..Len(Sinks)
               /\ news' \in [Matches -> Publication]
               /\ \A x \in Matches : x # m => news'[x] = news[x]
               /\ news'[m].offered = next
               /\ \/ news'[m].heard = news[m].heard \cup {next}
                  \/ news'[m].heard = news[m].heard /\ Sinks[next] # LogSink
<1> DEFINE next == news[m].offered + 1
<1>1. news \in [Matches -> Publication] /\ news[m] \in Publication
  BY DEF MonitorInv, MonitorTypeOK
<1>2. phase[m] = "publishing" /\ news[m].offered < Len(Sinks)
  BY DEF Publish, MonitorInv, Announced
<1>3. /\ news[m].offered \in 0..Len(Sinks) /\ news[m].heard \subseteq 1..Len(Sinks)
      /\ next \in 1..Len(Sinks)
  BY <1>1, <1>2, SinksType DEF Publication
<1>4. PICK outcome \in emit(Sinks[next]) : news' = [news EXCEPT ![m] = publish(@, outcome)]
  BY DEF Publish
<1>5. news'[m] = publish(news[m], outcome) /\ \A x \in Matches : x # m => news'[x] = news[x]
  BY <1>1, <1>4
<1>6. /\ publish(news[m], outcome).offered = next
      /\ publish(news[m], outcome).heard =
            IF outcome = "taken" THEN news[m].heard \cup {next} ELSE news[m].heard
      /\ publish(news[m], outcome) \in Publication
  BY <1>3 DEF publish, Publication
<1>7. outcome # "taken" => Sinks[next] # LogSink
  BY DEF emit
<1>8. news' \in [Matches -> Publication]
  BY <1>1, <1>4, <1>6
<1>9. QED
  BY <1>3, <1>5, <1>6, <1>7, <1>8

LEMMA PublishStep ==
    ASSUME MonitorInv, NEW m \in Matches, Publish(m)
    PROVE  MonitorInv'
<1> DEFINE next == news[m].offered + 1
<1>1. /\ next \in 1..Len(Sinks)
      /\ news' \in [Matches -> Publication]
      /\ \A x \in Matches : x # m => news'[x] = news[x]
      /\ news'[m].offered = next
      /\ \/ news'[m].heard = news[m].heard \cup {next}
         \/ news'[m].heard = news[m].heard /\ Sinks[next] # LogSink
  BY PublishFacts
<1>2. /\ phase[m] = "publishing"
      /\ UNCHANGED <<cursor, up, browser, now, rows, evidence, files>>
      /\ IF Published(news'[m]) THEN To(m, "done") ELSE UNCHANGED phase
  BY DEF Publish, recorded
<1>3. /\ phase' \in [Matches -> Phases]
      /\ phase'[m] = IF next = Len(Sinks) THEN "done" ELSE "publishing"
      /\ \A x \in Matches : x # m => phase'[x] = phase[x]
      /\ Ahead'
  <2>1. CASE Published(news'[m])
    <3>1. To(m, "done") /\ "done" \in Phases /\ phase[m] # "unseen"
      BY <1>2, <2>1 DEF Phases
    <3>2. next = Len(Sinks)
      BY <1>1, <2>1 DEF Published
    <3>3. QED
      BY <1>2, <3>1, <3>2, PhaseStep
  <2>2. CASE ~Published(news'[m])
    BY <1>1, <1>2, <2>2 DEF Published, MonitorInv, MonitorTypeOK, Ahead
  <2>3. QED
    BY <2>1, <2>2
<1>4. MonitorTypeOK'
  BY <1>1, <1>2, <1>3 DEF MonitorInv, MonitorTypeOK
<1>5. Announced'
  <2>1. \A x \in Matches : x # m => news'[x] = news[x] /\ phase'[x] = phase[x]
    BY <1>1, <1>3
  <2>2. /\ phase'[m] \in {"publishing", "done"}
        /\ phase'[m] = "publishing" => news'[m].offered < Len(Sinks)
        /\ phase'[m] = "done" => news'[m].offered = Len(Sinks)
    BY <1>1, <1>3, SinksType
  <2>3. /\ \A s \in news[m].heard : s \in Nat /\ s <= news[m].offered
        /\ news[m].offered \in Nat
    BY DEF MonitorInv, Announced, MonitorTypeOK, Publication
  <2>4. \A s \in news'[m].heard : s <= news'[m].offered
    BY <1>1, <2>3
  <2>5. \A s \in 1..Len(Sinks) :
           s <= news'[m].offered /\ Sinks[s] = LogSink => s \in news'[m].heard
    <3>1. \A s \in 1..Len(Sinks) :
             s <= news[m].offered /\ Sinks[s] = LogSink => s \in news[m].heard
      BY DEF MonitorInv, Announced
    <3>2. \A s \in 1..Len(Sinks) : s <= next => s <= news[m].offered \/ s = next
      BY <2>3, SinksType
    <3>3. QED
      BY <1>1, <3>1, <3>2
  <2>6. QED
    BY <2>1, <2>2, <2>4, <2>5 DEF MonitorInv, Announced
<1>6. Whole'
  <2>1. \A x \in Matches : x # m => news'[x] = news[x] /\ phase'[x] = phase[x]
    BY <1>1, <1>3
  <2>2. phase'[m] \in {"publishing", "done"} /\ \E r \in rows : r.match = m
    BY <1>2, <1>3 DEF MonitorInv, Whole
  <2>3. QED
    BY <1>2, <2>1, <2>2 DEF MonitorInv, Whole
<1>7. Filed'
  BY <1>2 DEF MonitorInv, Filed, Shots, NameOf
<1>8. QED
  BY <1>3, <1>4, <1>5, <1>6, <1>7 DEF MonitorInv

LEMMA MonitorStep ==
    ASSUME MonitorInv, [MonitorNext]_monitorVars
    PROVE  MonitorInv'
<1>1. CASE Start \/ _on_message \/ Missed \/ Interrupt \/ Exit \/ Tick
  BY <1>1, ProcessStep
<1>2. ASSUME NEW m \in Matches, HandleMatch(m)
      PROVE  MonitorInv'
  BY <1>2, PlainCommit, CapturedStep, UnrecordedStep, PublishStep DEF HandleMatch
<1>3. CASE UNCHANGED monitorVars
  BY <1>3 DEF monitorVars, recorded, MonitorInv, MonitorTypeOK, Ahead, Announced, Whole, Filed,
              Shots, NameOf
<1>4. QED
  BY <1>1, <1>2, <1>3 DEF MonitorNext

-----------------------------------------------------------------------------
\* The inductive invariant holds, of any number of matches and restarts
\* (MonitorPipeline.handle_match).
THEOREM MonitorInvariance == MonitorSpec => []MonitorInv
BY MonitorInitially, MonitorStep, PTL DEF MonitorSpec

\* Rows, artifacts and publications are what their tables may hold.
THEOREM MonitorTypeCorrect == MonitorSpec => []MonitorTypeOK
<1>1. MonitorInv => MonitorTypeOK
  BY DEF MonitorInv
<1>2. QED
  BY <1>1, MonitorInvariance, PTL

\* A sink that raises keeps no other from the event (EventBus.publish).
THEOREM SinksAreIsolated == MonitorSpec => []SinksIsolated
<1>1. MonitorInv => SinksIsolated
  <2> SUFFICES ASSUME MonitorInv, NEW m \in Matches, phase[m] = "done",
                      NEW s \in 1..Len(Sinks), Sinks[s] = LogSink
               PROVE  s \in news[m].heard
    BY DEF SinksIsolated
  <2>1. s <= news[m].offered
    BY SinksType DEF MonitorInv, Announced
  <2>2. QED
    BY <2>1 DEF MonitorInv, Announced
<1>2. QED
  BY <1>1, MonitorInvariance, PTL

\* The bytes a hash was taken of are in the file its row names, unless a
\* capture with the same name has replaced them (_capture_and_store).
THEOREM CustodyIsKept == MonitorSpec => []CustodyUnlessReplaced
<1>1. MonitorInv => CustodyUnlessReplaced
  <2> SUFFICES ASSUME MonitorInv, NEW e \in Shots
               PROVE  LET file == files[e.artifact_uri]
                      IN  \/ file = e.content
                          \/ /\ file # NoFile
                             /\ SafeName[DomainOf[file.match]] = SafeName[DomainOf[e.match]]
                             /\ \/ file.at = e.content.at
                                \/ {DomainOf[file.match], DomainOf[e.match]} \cap LongNames # {}
    BY DEF CustodyUnlessReplaced
  <2> DEFINE file == files[e.artifact_uri]
  <2>1. /\ e.content.match = e.match /\ e.artifact_uri = NameOf(e.content)
        /\ file # NoFile /\ e.artifact_uri = NameOf(file)
    BY DEF MonitorInv, Filed
  <2>2. /\ NameOf(file)[1] = SafeName[DomainOf[file.match]]
        /\ NameOf(file)[2] = IF DomainOf[file.match] \in LongNames THEN 0 ELSE file.at
        /\ NameOf(e.content)[1] = SafeName[DomainOf[e.match]]
        /\ NameOf(e.content)[2] = IF DomainOf[e.match] \in LongNames THEN 0 ELSE e.content.at
    BY <2>1 DEF NameOf
  <2>3. QED
    BY <2>1, <2>2
<1>2. QED
  BY <1>1, MonitorInvariance, PTL

-----------------------------------------------------------------------------
(* The monitor implements the ledger *)

Entry(r) == [match |-> r.match, status |-> r.capture_status, evidence |-> KindsOf(r.match)]
Entries == {Entry(r) : r \in rows}
Heard == UNION {{<<m, s>> : s \in news[m].heard} : m \in Matches}

LEMMA LedgerIsEntries ==
    /\ Entries' = Entries /\ Heard' = Heard => UNCHANGED (Ledger!ledgerVars)
    /\ \A m : Ledger!Recorded(m) <=> \E r \in Entries : r.match = m
    /\ Ledger!Record <=>
          /\ \E r \in Ledger!WholeRecord : (~ \E x \in Entries : x.match = r.match)
                                             /\ Entries' = Entries \cup {r}
          /\ Heard' = Heard
    /\ Ledger!Tell <=>
          /\ \E m \in Matches, s \in 1..Len(Sinks) :
                /\ \E r \in Entries : r.match = m
                /\ <<m, s>> \notin Heard
                /\ Heard' = Heard \cup {<<m, s>>}
          /\ Entries' = Entries
<1>1. Entries' = Entries /\ Heard' = Heard => UNCHANGED (Ledger!ledgerVars)
  BY DEF Ledger!ledgerVars, Entries, Entry, KindsOf, Heard
<1>2. \A m : Ledger!Recorded(m) <=> \E r \in Entries : r.match = m
  BY DEF Ledger!Recorded, Entries, Entry, KindsOf
<1>3. Ledger!Record <=>
          /\ \E r \in Ledger!WholeRecord : (~ \E x \in Entries : x.match = r.match)
                                             /\ Entries' = Entries \cup {r}
          /\ Heard' = Heard
  BY <1>2 DEF Ledger!Record, Entries, Entry, KindsOf, Heard
<1>4. Ledger!Tell <=>
          /\ \E m \in Matches, s \in 1..Len(Sinks) :
                /\ \E r \in Entries : r.match = m
                /\ <<m, s>> \notin Heard
                /\ Heard' = Heard \cup {<<m, s>>}
          /\ Entries' = Entries
  BY <1>2 DEF Ledger!Tell, Entries, Entry, KindsOf, Heard
<1>5. QED
  BY <1>1, <1>2, <1>3, <1>4

\* A commit adds one entry, whole, of a match that had none.
LEMMA CommitRecords ==
    ASSUME MonitorInv, NEW m \in Matches, phase[m] \in {"enriching", "capturing"},
           NEW status \in {"skipped", "failed", "captured"}, NEW artifacts,
           \A e \in artifacts : e.match = m,
           LET kinds == {e.evidence_type : e \in artifacts}
           IN  IF status = "captured"
               THEN "screenshot" \in kinds /\ kinds \subseteq {"screenshot", "html_dump"}
               ELSE kinds = {},
           Commit(m, status, artifacts), news' = news
    PROVE  Ledger!Record
<1> DEFINE row == [match |-> m, capture_status |-> status]
           scoring == store(m, "ct_match_scoring")
           kinds == {e.evidence_type : e \in artifacts}
           entry == [match |-> m, status |-> status, evidence |-> {"ct_match_scoring"} \cup kinds]
<1>1. rows' = rows \cup {row} /\ evidence' = evidence \cup {scoring} \cup artifacts
  BY DEF Commit
<1>2. /\ row.match = m /\ row.capture_status = status
      /\ scoring.match = m /\ scoring.evidence_type = "ct_match_scoring"
  BY DEF store
<1>3. (\A r \in rows : r.match # m) /\ (\A e \in evidence : e.match # m)
  BY DEF MonitorInv, Whole
<1>4. entry \in Ledger!WholeRecord
  BY DEF Ledger!WholeRecord
<1>5. entry.match = m /\ entry = [match |-> m, status |-> status,
                                  evidence |-> {"ct_match_scoring"} \cup kinds]
  OBVIOUS
<1> HIDE DEF row, scoring, entry
<1>6. \A x : x # m => KindsOf(x)' = KindsOf(x)
  <2> SUFFICES ASSUME NEW x, x # m
               PROVE  KindsOf(x)' = KindsOf(x)
    OBVIOUS
  <2>1. {e \in evidence' : e.match = x} = {e \in evidence : e.match = x}
    BY <1>1, <1>2
  <2>2. QED
    BY <2>1 DEF KindsOf
<1>7. KindsOf(m)' = {"ct_match_scoring"} \cup kinds
  <2>1. {e \in evidence' : e.match = m} = {scoring} \cup artifacts
    BY <1>1, <1>2, <1>3
  <2>2. {e.evidence_type : e \in {scoring} \cup artifacts} = {"ct_match_scoring"} \cup kinds
    BY <1>2
  <2>3. QED
    BY <2>1, <2>2 DEF KindsOf
<1>8. \A r \in rows : Entry(r)' = Entry(r)
  BY <1>3, <1>6 DEF Entry
<1>9. Entry(row)' = entry
  <2>1. row' = row
    BY DEF row
  <2>2. QED
    BY <1>2, <1>5, <1>7, <2>1 DEF Entry
<1>10. Entries' = Entries \cup {entry}
  <2>1. Entries' = {Entry(r)' : r \in rows'}
    BY DEF Entries, Entry, KindsOf
  <2>2. \A r \in rows' : Entry(r)' \in Entries \cup {entry}
    BY <1>1, <1>8, <1>9 DEF Entries
  <2>3. \A r \in rows : Entry(r) \in Entries'
    BY <1>1, <1>8, <2>1
  <2>4. entry \in Entries'
    BY <1>1, <1>9, <2>1
  <2>5. QED
    BY <2>1, <2>2, <2>3, <2>4 DEF Entries
<1>11. ~ \E x \in Entries : x.match = entry.match
  BY <1>3, <1>5 DEF Entries, Entry
<1>12. Heard' = Heard
  BY DEF Heard
<1>13. QED
  BY <1>4, <1>10, <1>11, <1>12, LedgerIsEntries

\* A turn of the bus tells a sink that was not told, of a recorded match.
LEMMA PublishTells ==
    ASSUME MonitorInv, NEW m \in Matches, Publish(m)
    PROVE  Ledger!Tell \/ UNCHANGED (Ledger!ledgerVars)
<1> DEFINE next == news[m].offered + 1
<1>1. /\ next \in 1..Len(Sinks)
      /\ \A x \in Matches : x # m => news'[x] = news[x]
      /\ \/ news'[m].heard = news[m].heard \cup {next}
         \/ news'[m].heard = news[m].heard
  BY PublishFacts
<1>2. rows' = rows /\ evidence' = evidence /\ phase[m] = "publishing"
  BY DEF Publish, recorded
<1>3. Entries' = Entries
  BY <1>2 DEF Entries, Entry, KindsOf
<1>4. news[m].offered \in Nat /\ \A s \in news[m].heard : s <= news[m].offered
  BY DEF MonitorInv, MonitorTypeOK, Announced, Publication
<1> HIDE DEF next
<1>5. \A x, s : <<x, s>> \in Heard <=> x \in Matches /\ s \in news[x].heard
  BY DEF Heard
<1>6. \A x, s : <<x, s>> \in Heard' <=> x \in Matches /\ s \in news'[x].heard
  BY DEF Heard
<1>7. (\A p \in Heard : p = <<p[1], p[2]>>) /\ (\A p \in Heard' : p = <<p[1], p[2]>>)
  BY DEF Heard
<1>8. CASE news'[m].heard = news[m].heard
  <2>1. \A x \in Matches : news'[x].heard = news[x].heard
    BY <1>1, <1>8
  <2>2. Heard' = Heard
    BY <2>1 DEF Heard
  <2>3. QED
    BY <1>3, <2>2, LedgerIsEntries
<1>9. CASE news'[m].heard = news[m].heard \cup {next}
  <2>1. \A x, s : <<x, s>> \in Heard' <=> <<x, s>> \in Heard \/ (x = m /\ s = next)
    BY <1>1, <1>5, <1>6, <1>9
  <2>2. Heard' = Heard \cup {<<m, next>>}
    BY <1>7, <2>1
  <2>3. <<m, next>> \notin Heard
    BY <1>4, <1>5 DEF next
  <2>4. \E r \in Entries : r.match = m
    <3>1. PICK r \in rows : r.match = m
      BY <1>2 DEF MonitorInv, Whole
    <3>2. Entry(r) \in Entries /\ Entry(r).match = m
      BY <3>1 DEF Entries, Entry
    <3>3. QED
      BY <3>2
  <2>5. QED
    BY <1>1, <1>3, <2>2, <2>3, <2>4, LedgerIsEntries
<1>10. QED
  BY <1>1, <1>8, <1>9

LEMMA LedgerStep ==
    ASSUME MonitorInv, [MonitorNext]_monitorVars
    PROVE  [Ledger!Record \/ Ledger!Tell]_(Ledger!ledgerVars)
<1>1. ASSUME rows' = rows, evidence' = evidence, news' = news
      PROVE  UNCHANGED (Ledger!ledgerVars)
  <2>1. Entries' = Entries /\ Heard' = Heard
    BY <1>1 DEF Entries, Entry, KindsOf, Heard
  <2>2. QED
    BY <2>1, LedgerIsEntries
<1>2. CASE Start \/ _on_message \/ Missed \/ Interrupt \/ Exit \/ Tick \/ UNCHANGED monitorVars
  BY <1>1, <1>2 DEF Start, _on_message, Missed, Interrupt, Exit, Tick, monitorVars, recorded
<1>3. ASSUME NEW m \in Matches, RecordSkipped(m) \/ CaptureFailed(m)
      PROVE  Ledger!Record
  <2>1. PICK status \in {"skipped", "failed"} : Commit(m, status, {})
    BY <1>3 DEF RecordSkipped, CaptureFailed
  <2>2. phase[m] \in {"enriching", "capturing"} /\ news' = news
    BY <1>3 DEF RecordSkipped, CaptureFailed
  <2> DEFINE none == {}
  <2>3. /\ Commit(m, status, none) /\ \A e \in none : e.match = m
        /\ {e.evidence_type : e \in none} = {} /\ status # "captured"
        /\ status \in {"skipped", "failed", "captured"}
    BY <2>1
  <2> HIDE DEF none
  <2>4. QED
    BY <2>2, <2>3, CommitRecords
<1>4. ASSUME NEW m \in Matches, Captured(m)
      PROVE  Ledger!Record
  <2> DEFINE shot == store_bytes(m, [match |-> m, at |-> now], ArtifactOf(m))
  <2>1. PICK html \in {{}, {store(m, "html_dump")}} :
           /\ Commit(m, "captured", {shot} \cup html)
           /\ \A e \in {shot} \cup html : e.match = m
           /\ \A e \in html : e.evidence_type = "html_dump"
    BY <1>4, CapturedFacts
  <2>2. shot.evidence_type = "screenshot"
    BY DEF store_bytes
  <2> HIDE DEF shot
  <2>3. /\ "screenshot" \in {e.evidence_type : e \in {shot} \cup html}
        /\ {e.evidence_type : e \in {shot} \cup html} \subseteq {"screenshot", "html_dump"}
    BY <2>1, <2>2
  <2>4. phase[m] \in {"enriching", "capturing"} /\ news' = news
    BY <1>4 DEF Captured
  <2>5. QED
    BY <2>1, <2>3, <2>4, CommitRecords
<1>5. ASSUME NEW m \in Matches, HandleMatch(m)
      PROVE  [Ledger!Record \/ Ledger!Tell]_(Ledger!ledgerVars)
  <2>1. CASE StartCapture(m) \/ HandlerFails(m)
    BY <1>1, <2>1 DEF StartCapture, HandlerFails, recorded
  <2>2. CASE RecordSkipped(m) \/ CaptureFailed(m)
    BY <1>3, <2>2
  <2>3. CASE Captured(m)
    BY <1>4, <2>3
  <2>4. CASE Publish(m)
    BY <2>4, PublishTells
  <2>5. QED
    BY <1>5, <2>1, <2>2, <2>3, <2>4 DEF HandleMatch
<1>6. QED
  BY <1>2, <1>5 DEF MonitorNext

\* The monitor records each match once, whole, with the evidence its status
\* calls for, and tells a sink only of recorded matches, once, through any
\* interrupts, failures and restarts (handle_match).
THEOREM MonitorKeepsLedger == MonitorSpec => RecordsWholeThenTells
<1>1. MonitorInit => Ledger!LedgerInit
  <2> SUFFICES ASSUME MonitorInit
               PROVE  Ledger!LedgerInit
    OBVIOUS
  <2>1. rows = {} /\ \A m \in Matches : news[m] = NotPublished
    BY DEF MonitorInit
  <2>2. UNION {{<<m, s>> : s \in news[m].heard} : m \in Matches} = {}
    BY <2>1 DEF NotPublished
  <2>3. QED
    BY <2>1, <2>2 DEF Ledger!LedgerInit
<1>2. MonitorInv /\ [MonitorNext]_monitorVars
        => [Ledger!Record \/ Ledger!Tell]_(Ledger!ledgerVars)
  BY LedgerStep
<1>3. QED
  BY <1>1, <1>2, MonitorInvariance, PTL
     DEF MonitorSpec, RecordsWholeThenTells, Ledger!LedgerSpec
=============================================================================
