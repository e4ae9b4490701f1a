------------------------------ MODULE LegRace -------------------------------
(***************************************************************************)
(* What forked dialling promises its caller, without goroutines, channels  *)
(* or timers: some answered leg is chosen once, or none; no dialog is hung *)
(* up before the choice; and when the losers are reported done, no other   *)
(* leg has a dialog and none will ever have one.                           *)
(***************************************************************************)
CONSTANTS Legs, NoLeg

VARIABLES
    phase,    \* "racing", "decided"
    winner,   \* the chosen leg, or NoLeg
    answered, \* legs that have had a dialog
    live,     \* legs with an established dialog
    byed,     \* legs this side hung up
    clean     \* the losers are reported done

raceVars == <<phase, winner, answered, live, byed, clean>>

RaceInit ==
    /\ phase = "racing"
    /\ winner = NoLeg
    /\ answered = {}
    /\ live = {}
    /\ byed = {}
    /\ clean = FALSE

\* A leg is answered: possible after the choice too (the 200 OK crossed the
\* CANCEL), but never after the losers are done.
Answered(l) ==
    /\ ~clean
    /\ l \notin answered
    /\ answered' = answered \cup {l}
    /\ live' = live \cup {l}
    /\ UNCHANGED <<phase, winner, byed, clean>>

\* One leg is chosen, or none (all failed, or the dialling context is done).
\* A chosen leg answered, though the peer may have hung up since.
Decide(w) ==
    /\ phase = "racing"
    /\ w \in answered \cup {NoLeg}
    /\ phase' = "decided"
    /\ winner' = w
    /\ clean' \in BOOLEAN
    /\ clean' => w = NoLeg /\ live = {}
    /\ UNCHANGED <<answered, live, byed>>

\* This side hangs up.
Bye(l) ==
    /\ phase = "decided"
    /\ live' = live \ {l}
    /\ byed' = byed \cup {l}
    /\ UNCHANGED <<phase, winner, answered, clean>>

\* The peer hangs up.
PeerBye(l) ==
    /\ l \in live
    /\ live' = live \ {l}
    /\ UNCHANGED <<phase, winner, answered, byed, clean>>

LosersDone ==
    /\ phase = "decided"
    /\ ~clean
    /\ live \subseteq {winner}
    /\ clean' = TRUE
    /\ UNCHANGED <<phase, winner, answered, live, byed>>

RaceNext ==
    \/ \E l \in Legs : Answered(l) \/ Bye(l) \/ PeerBye(l)
    \/ \E w \in Legs \cup {NoLeg} : Decide(w)
    \/ LosersDone

RaceSpec == RaceInit /\ [][RaceNext]_raceVars
=============================================================================
