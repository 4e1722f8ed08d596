--------------------------- MODULE UpstreamHistory ---------------------------
(***************************************************************************)
(* Upstream with history variables, which record what happened and never   *)
(* influence it, and the properties that need them.                        *)
(***************************************************************************)
EXTENDS UpstreamProps

VARIABLES
    bypassed,   \* picks that passed each target over while it was available
    sent,       \* times the current call of each client was sent upstream
    answered    \* the current call was already answered by an upstream

hvars == <<vars, bypassed, sent, answered>>

HInit ==
    /\ Init
    /\ bypassed = [t \in Target |-> 0]
    /\ sent = [c \in Clients |-> 0]
    /\ answered = [c \in Clients |-> FALSE]

SentNow(c) == client[c].phase # "inflight" /\ client'[c].phase = "inflight"
SentTo(t) == \E c \in Clients : SentNow(c) /\ client'[c].target = t
StartedNow(c) == client[c].phase = "idle" /\ client'[c].phase # "idle"

\* The upstream's response reached forwardWithRetry in this step.
AnsweredNow(c) == AnswerWell(c) \/ AnswerBadly(c)

HNext ==
    /\ Next
    /\ bypassed' = [t \in Target |->
          IF ~Available(t) \/ SentTo(t) THEN 0
          ELSE IF \E c \in Clients : SentNow(c) THEN bypassed[t] + 1
          ELSE bypassed[t]]
    /\ sent' = [c \in Clients |->
          IF StartedNow(c) THEN 0
          ELSE IF SentNow(c) THEN sent[c] + 1 ELSE sent[c]]
    /\ answered' = [c \in Clients |->
          IF StartedNow(c) THEN FALSE
          ELSE answered[c] \/ AnsweredNow(c)]

HSpec == HInit /\ [][HNext]_hvars

-----------------------------------------------------------------------------
(* Properties of the history *)

\* Round-robin leaves no available target behind: between two calls to a
\* target that stays available, every other target is picked at most once, so
\* it is passed over at most N - 1 times -- however the others come and go.
BypassBounded == \A t \in Target : bypassed[t] <= N - 1

\* README.md:531-539: only retryable requests are sent again, at most Attempts
\* times, and never after an upstream has answered -- a POST or a handshake
\* reaches the upstreams at most once.
ResendBounded ==
    \A c \in Clients :
        /\ sent[c] <= IF Kind[c] = "retryable" THEN Attempts + 1 ELSE 1
        /\ answered[c] => client[c].phase = "idle"

=============================================================================
