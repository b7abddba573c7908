------------------------------ MODULE EventChannel ------------------------------
(***************************************************************************)
(* What the event queue of HNAvahiBrowser promises its user: every         *)
(* discovery event arrives, once, in the order it was found, unless the    *)
(* browser is started anew.                                                *)
(***************************************************************************)
EXTENDS Naturals, Sequences

VARIABLES
  chan,  \* events on their way, by number
  sent,  \* number of the last event sent
  got    \* number of the last event received

vars == <<chan, sent, got>>

Init == chan = <<>> /\ sent = 0 /\ got = 0

Send == /\ chan' = Append(chan, sent + 1)
        /\ sent' = sent + 1
        /\ UNCHANGED got

Receive == /\ chan # <<>>
           /\ got' = Head(chan)
           /\ chan' = Tail(chan)
           /\ UNCHANGED sent

Restart == chan' = <<>> /\ UNCHANGED <<sent, got>>

Next == Send \/ Receive \/ Restart

Spec == Init /\ [][Next]_vars /\ WF_vars(Receive)
================================================================================
