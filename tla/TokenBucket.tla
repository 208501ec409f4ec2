---------------------------- MODULE TokenBucket ----------------------------
(***************************************************************************)
(* What the rate limiter promises, one balance per address: a balance      *)
(* earns Rate tokens a tick up to Burst, a request that is let through     *)
(* costs one, nobody with a balance is turned away, and nobody gets ahead  *)
(* of the balance by more than Slack.                                      *)
(***************************************************************************)
EXTENDS Integers

CONSTANTS Ip, Rate, Burst, Slack

VARIABLES
    balance,
    verdict     \* the last answer and whom it was given to

Capped(n) == IF n <= Burst THEN n ELSE Burst

Init ==
    /\ balance = [ip \in Ip |-> Burst]
    /\ verdict = <<>>

Earn ==
    /\ balance' = [ip \in Ip |-> Capped(balance[ip] + Rate)]
    /\ UNCHANGED verdict

LetThrough(ip) ==
    /\ balance[ip] > -Slack
    /\ balance' = [balance EXCEPT ![ip] = @ - 1]
    /\ verdict' = <<ip, TRUE>>

TurnAway(ip) ==
    /\ balance[ip] <= 0
    /\ verdict' = <<ip, FALSE>>
    /\ UNCHANGED balance

Next == Earn \/ \E ip \in Ip : LetThrough(ip) \/ TurnAway(ip)

Spec == Init /\ [][Next]_<<balance, verdict>>
=============================================================================
