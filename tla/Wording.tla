------------------------------- MODULE Wording ------------------------------
(***************************************************************************)
(* Texts as the digests and the feed see them: which terms occur in which  *)
(* text, in any case.                                                      *)
(***************************************************************************)
EXTENDS Ordering

CONSTANTS
    Texts,       \* titles, descriptions, product names
    NoText,      \* the empty one
    Terms,       \* keywords, domains, vendors and products
    Mentions,    \* the terms that occur in each text
    Spans        \* the terms that occur across some texts in a row, joined by
                 \* spaces, and in none of them alone

ASSUME WordingAssumption ==
    /\ NoText \in Texts          \* a watched or exploited product is both a text and a term
    /\ NoText \notin Terms
    /\ Mentions \in [Texts -> SUBSET Terms]
    /\ Mentions[NoText] = {}
    /\ \A s \in DOMAIN Spans : s \in Seq(Texts) /\ Len(s) > 1 /\ Spans[s] \subseteq Terms

_keyword_in_text(keyword, text) == keyword \in Mentions[text]

\* The terms that occur in " ".join(texts): in one of them, or across several.
MentionedIn(texts) ==
    UNION {Mentions[t] : t \in ToSet(texts)}
        \cup UNION {Spans[s] : s \in DOMAIN Spans \cap SubSeqs(texts)}
=============================================================================
