----------------------------- MODULE RoundTrip ------------------------------
(***************************************************************************)
(* What benchmarking a file promises, whatever the framing: the file's     *)
(* bytes are sent to the codec piece by piece; a piece comes back in order *)
(* and in full before the next one is sent; or the codec fails on it and   *)
(* the piece is given up as a whole; or the program dies.                  *)
(***************************************************************************)
EXTENDS Naturals

VARIABLES
  sent,   \* bytes of the file sent so far
  back,   \* bytes of the file that came back, in order
  state,  \* "idle", "busy" with a piece, the piece is "lost", "dead"
  checked \* pieces are to come back (-C1 and above)

Init == sent = 0 /\ back = 0 /\ state = "idle" /\ checked \in BOOLEAN

\* the next piece, only when all bytes sent before are accounted for
Send == /\ state = "idle" /\ back = sent
        /\ sent' > sent
        /\ state' = "busy"
        /\ UNCHANGED <<back, checked>>

\* more of the piece comes back
Return == /\ state = "busy" /\ checked
          /\ back' > back /\ back' <= sent
          /\ UNCHANGED <<sent, state, checked>>

\* all of it has come back
Accept == /\ state = "busy" /\ checked /\ back = sent
          /\ state' = "idle"
          /\ UNCHANGED <<sent, back, checked>>

\* the codec fails before anything came back, and the piece is given up
Lose == /\ state = "busy"
        /\ state' = "lost"
        /\ UNCHANGED <<sent, back, checked>>

GiveUp == /\ state = "lost"
          /\ back' = sent
          /\ state' = "idle"
          /\ UNCHANGED <<sent, checked>>

\* compressed only: nothing is expected back
Skip == /\ state = "busy" /\ ~checked
        /\ back' = sent
        /\ state' = "idle"
        /\ UNCHANGED <<sent, checked>>

Die == /\ state = "busy"
       /\ state' = "dead"
       /\ UNCHANGED <<sent, back, checked>>

Next == Send \/ Return \/ Accept \/ Lose \/ GiveUp \/ Skip \/ Die

Spec == Init /\ [][Next]_<<sent, back, state, checked>>
=============================================================================
