------------------------------ MODULE EventBus ------------------------------
(***************************************************************************)
(* The event bus (core/events.py): the sinks a publication goes through.   *)
(* A publication is how many sinks it was offered to, and the positions of *)
(* those that took it.                                                     *)
(***************************************************************************)
EXTENDS Naturals, Sequences

CONSTANTS
    Sink,         \* every sink there is
    LogSink,      \* the one that writes to the log
    DiscordSink,  \* the one that posts to a webhook
    Given         \* the sinks a bus is built with, or has registered since

ASSUME SinkAssumption == LogSink \in Sink /\ Given \in Seq(Sink)

\* EventBus.__init__: a bus built without sinks has the log.
Sinks == IF Given = <<>> THEN <<LogSink>> ELSE Given

NotPublished == [offered |-> 0, heard |-> {}]

Publication == [offered : 0..Len(Sinks), heard : SUBSET (1..Len(Sinks))]

\* What emit may do with an event: the log takes it, the webhook's sink
\* swallows its own failure, any other sink may raise.
emit(sink) ==
    {"taken"} \cup (IF sink = LogSink THEN {}
                    ELSE IF sink = DiscordSink THEN {"swallowed"} ELSE {"raised"})

\* Mutant of publish: a sink that raises ends the loop.
publish_Unguarded(p, outcome) ==
    [offered |-> IF outcome = "raised" THEN Len(Sinks) ELSE p.offered + 1,
     heard   |-> IF outcome = "taken" THEN p.heard \cup {p.offered + 1} ELSE p.heard]

\* One turn of the loop in publish: whatever the sink does, the next is tried.
publish(p, outcome) ==
    [offered |-> p.offered + 1,
     heard   |-> IF outcome = "taken" THEN p.heard \cup {p.offered + 1} ELSE p.heard]

Published(p) == p.offered = Len(Sinks)
=============================================================================
