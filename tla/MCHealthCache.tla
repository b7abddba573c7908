----------------------------- MODULE MCHealthCache -----------------------------
(* Instances of HealthCache for TLC. *)
EXTENDS HealthCache

CONSTANTS d1, d2

Plain == <<"low battery">>
Ranged == <<"%", " of ", "%">>

MCHole(i) == "{" \o ToString(i - 1) \o "}"

MCFormats == {Plain, Ranged}
MCHash == (Plain :> 7 @@ Ranged :> 8)

Msg(f, args) == [fmt |-> f, args |-> args]

\* A chain of three, two children of which one has a child itself, and the root
\* alone, which is also what a device shows when it was disabled and enabled.
MCShapes ==
  (d1 :> {{<<0>>},
          {<<0>>, <<0, 1>>, <<0, 1, 2>>},
          {<<0>>, <<0, 1>>, <<0, 2>>, <<0, 2, 3>>}} @@
   d2 :> {{<<0>>}})

OK == [status |-> "OK", msg |-> NoMsg]
Failed(f, args) == [status |-> "FAILED", msg |-> Msg(f, args)]

MCShown ==
  (d1 :> <<{OK}, {OK, Failed(Ranged, <<<<"3">>, <<"4">>>>)}, {Failed(Plain, <<>>)}>> @@
   d2 :> <<{OK, Failed(Ranged, <<<<"4">>, <<"3">>>>)}>>)
================================================================================
