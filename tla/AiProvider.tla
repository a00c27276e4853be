----------------------------- MODULE AiProvider -----------------------------
(***************************************************************************)
(* The shared language-model access (core/ai_provider.py) and the summary  *)
(* services built on it (phantom/ai_summary.py, threatlens/ai_analysis.py):*)
(* Gemini, then OpenAI, then the deterministic summary.                    *)
(***************************************************************************)

AIProviderName == {"gemini", "openai"}

\* What a provider's HTTP call comes to: it raises; its envelope holds no text;
\* the envelope has another shape; the text is no JSON object, is the object
\* that was asked for, or has a headline that is no string.
Answer == {"raises", "no text", "misshapen", "prose", "summary", "ill-typed"}

NoResult == [provider |-> "none", text |-> "none"]

_try_gemini(answer) ==
    IF answer \in {"raises", "no text"} THEN NoResult ELSE [provider |-> "gemini", text |-> answer]

_try_openai(answer) ==
    IF answer \in {"raises", "no text"} THEN NoResult ELSE [provider |-> "openai", text |-> answer]

\* keys: the providers a key is configured for.
generate_json(offline_mode, keys, answer) ==
    LET gemini == IF "gemini" \in keys THEN _try_gemini(answer["gemini"]) ELSE NoResult
        openai == IF "openai" \in keys THEN _try_openai(answer["openai"]) ELSE NoResult
    IN  IF offline_mode THEN NoResult
        ELSE IF gemini # NoResult THEN gemini ELSE openai

\* Mutant of build_summary: text that is no JSON object is an error.
build_summary_Strict(offline_mode, keys, answer) ==
    LET result == generate_json(offline_mode, keys, answer)
    IN  IF result = NoResult THEN "deterministic-fallback"
        ELSE IF result.text = "summary" THEN result.provider
        ELSE "raises"

\* The model_source of a summary, or "raises": text that does not parse falls
\* back, a misshapen envelope or an ill-typed field is an exception.
build_summary(offline_mode, keys, answer) ==
    LET result == generate_json(offline_mode, keys, answer)
    IN  IF result = NoResult \/ result.text = "prose" THEN "deterministic-fallback"
        ELSE IF result.text = "summary" THEN result.provider
        ELSE "raises"

\* What a summary may come from: the providers that have a key and answered
\* with one, when the run is online; the fallback whenever none had text.
Grounds(offline_mode, keys, answer) ==
    LET heard == {p \in keys : answer[p] \notin {"raises", "no text"}}
    IN  IF offline_mode \/ heard = {} THEN {"deterministic-fallback"}
        ELSE {p \in heard : answer[p] = "summary"}
               \cup IF \E p \in heard : answer[p] = "prose" THEN {"deterministic-fallback"} ELSE {}
=============================================================================
