--------------------------- MODULE BlockingServer ---------------------------
(* What a blocking cache promises the peers on its side of the processor,    *)
(* whatever happens behind it: it works on one request at a time, a peer     *)
(* gets one answer for each request it had accepted, when it wants it, and   *)
(* a peer that was refused is told when to try again.                        *)

CONSTANTS
    Peers,
    Nobody

VARIABLES
    serving,  \* the peer whose request is worked on, or Nobody
    ready,    \* the peers whose answer is there and not yet taken
    owed,     \* the peers that have been accepted and not yet answered
    waiting   \* the peers that have been refused and not yet told to retry

bvars == <<serving, ready, owed, waiting>>

BInit ==
    /\ serving = Nobody
    /\ ready = {} /\ owed = {} /\ waiting = {}

\* A peer that is owed an answer, or a word when to retry, is not accepted.
Accept(p) ==
    /\ serving = Nobody
    /\ p \notin owed \cup waiting
    /\ serving' = p
    /\ owed' = owed \cup {p}
    /\ UNCHANGED <<ready, waiting>>

\* And nobody is refused without a reason.
Refuse(p) ==
    /\ serving # Nobody \/ p \in ready \cup waiting
    /\ waiting' = waiting \cup {p}
    /\ UNCHANGED <<serving, ready, owed>>

Finish ==
    /\ serving # Nobody
    /\ serving' = Nobody
    /\ ready' = ready \cup {serving}
    /\ UNCHANGED <<owed, waiting>>

Deliver(p) ==
    /\ p \in ready
    /\ ready' = ready \ {p}
    /\ owed' = owed \ {p}
    /\ UNCHANGED <<serving, waiting>>

\* Not while the peer has not taken its answer: it could not be accepted.
TellRetry(p) ==
    /\ p \in waiting \ ready
    /\ waiting' = waiting \ {p}
    /\ UNCHANGED <<serving, ready, owed>>

BNext ==
    \/ Finish
    \/ \E p \in Peers : Accept(p) \/ Refuse(p) \/ Deliver(p) \/ TellRetry(p)

BSpec == BInit /\ [][BNext]_bvars
=============================================================================
