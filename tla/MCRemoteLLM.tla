---------------------------- MODULE MCRemoteLLM ----------------------------
(* A small instance of RemoteLLM: an answer and a streamed answer that      *)
(* overlap at one worker.                                                    *)
EXTENDS RemoteLLM, TLC
CONSTANTS a, b

Start1 == [production |-> TRUE, api |-> "openai", configured |-> TRUE,
           host |-> "listed", tls |-> TRUE, probing |-> TRUE]
\* Both formats, and the environments a deployment may get wrong.
MCSettings ==
  { Start1,
    [Start1 EXCEPT !.api = "project", !.host = "local", !.tls = FALSE,
                    !.probing = FALSE],
    [Start1 EXCEPT !.tls = FALSE], [Start1 EXCEPT !.host = "unlisted"],
    [Start1 EXCEPT !.configured = FALSE],
    [Start1 EXCEPT !.production = FALSE, !.configured = FALSE, !.probing = FALSE] }
=============================================================================
