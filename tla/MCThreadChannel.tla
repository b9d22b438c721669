------------------------ MODULE MCThreadChannel ------------------------
(* ThreadChannel for TLC: callers that send, and callers that receive.    *)
EXTENDS ThreadChannel

CONSTANTS Senders, Receivers

MCOps ==
    [p \in Callers |->
        (IF p \in Senders THEN {"send"} ELSE {}) \cup (IF p \in Receivers THEN {"recv"} ELSE {"wait"})]
=======================================================================
