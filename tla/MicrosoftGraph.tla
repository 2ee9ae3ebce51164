--------------------------- MODULE MicrosoftGraph ---------------------------
(***************************************************************************)
(* The client the booking mailbox's emails go through: one request is      *)
(* rounds of getting a token and asking, until Graph has answered for good *)
(* or the client gives up.  Graph does not know a repeated request for the *)
(* same one, so a round that was carried out and answered with a failure   *)
(* is carried out again.                                                   *)
(*                                                                         *)
(* The processes of one server share the token.                            *)
(***************************************************************************)
EXTENDS Customers

CONSTANT MaxAttempts    \* DEFAULT_MAX_ATTEMPTS, of a request

ASSUME AttemptAssumption == MaxAttempts \in Nat \ {0}

VARIABLE token          \* a token is kept, and more than a minute from its end

\* The state of a request: which round it is in, and whether a token was refused.
FirstRound == [attempt |-> 1, refreshed |-> FALSE]

\* What a round leads to: another round, or the end of the request with an answer
\* ("accepted"), a refusal not worth repeating ("fail") or one that is ("retry").
Again(call) == [step |-> "send", call |-> [call EXCEPT !.attempt = @ + 1]]
Ends(step)  == [step |-> step, call |-> FirstRound]

\* accessToken: no token, and none to be had.
TokenRefused == {Ends("fail"), Ends("retry")}

\* A 401: the token is not presented again, but a second one is a real refusal.
Unauthorised(call) ==
    IF call.refreshed THEN Ends("fail") ELSE Again([call EXCEPT !.refreshed = TRUE])

\* A 429 or a 5xx: a bounded number of rounds.
Unavailable(call) == IF call.attempt < MaxAttempts THEN Again(call) ELSE Ends("retry")

\* What a round comes to when Graph does not do what it is asked, and whether a
\* token is kept after it.
Failures(call) ==
    {[to |-> e, token |-> FALSE] : e \in IF token THEN {} ELSE TokenRefused}
        \cup {[to |-> Unauthorised(call), token |-> FALSE],
              [to |-> Unavailable(call), token |-> TRUE],
              [to |-> Ends("fail"), token |-> TRUE]}     \* any other refusal
        \cup {[to |-> Ends("retry"), token |-> kept] : kept \in {token, TRUE}}
                                                         \* no connection, or none in time

\* What it may come to though Graph did: an error from its front, or no answer.
LostAnswers(call) == {Unavailable(call), Ends("retry")}

\* TOKEN_REFRESH_MARGIN_MS before the end the token is no longer used.
TokenLapses ==
    /\ Here("refusals") /\ token
    /\ token' = FALSE

\* A server that has sent before, where nothing is refused.
GraphInit == token = ~Here("refusals")
=============================================================================
