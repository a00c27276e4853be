---------------------------- MODULE MatchLedger -----------------------------
(***************************************************************************)
(* What the CertStream monitor promises of each match, with no sessions,   *)
(* browser or files: it is recorded once, whole, with the evidence its     *)
(* capture status calls for, and a sink only hears of a recorded match.    *)
(***************************************************************************)
CONSTANTS
    Matches,
    Hearers     \* the sinks of the event bus

VARIABLES
    ledger,     \* the recorded matches, each with its status and evidence
    told        \* which sinks have been told of which matches

ledgerVars == <<ledger, told>>

\* A match is scored, and has a screenshot exactly when it was captured.
WholeRecord ==
    {r \in [match    : Matches,
            status   : {"skipped", "failed", "captured"},
            evidence : SUBSET {"ct_match_scoring", "screenshot", "html_dump"}] :
        /\ "ct_match_scoring" \in r.evidence
        /\ "screenshot" \in r.evidence <=> r.status = "captured"
        /\ "html_dump" \in r.evidence => r.status = "captured"}

Recorded(m) == \E r \in ledger : r.match = m

LedgerInit == ledger = {} /\ told = {}

Record ==
    /\ \E r \in WholeRecord : ~Recorded(r.match) /\ ledger' = ledger \cup {r}
    /\ UNCHANGED told

Tell ==
    /\ \E m \in Matches, s \in Hearers :
          /\ Recorded(m)
          /\ <<m, s>> \notin told
          /\ told' = told \cup {<<m, s>>}
    /\ UNCHANGED ledger

LedgerSpec == LedgerInit /\ [][Record \/ Tell]_ledgerVars
=============================================================================
