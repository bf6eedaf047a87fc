------------------------------ MODULE MCConaf ------------------------------
(* Two days of two ticks.  Three numbers are known and a run takes at most  *)
(* two of them; requests look at the first.  CONAF answers the first number *)
(* with either estado or none, has no readable page of the second and gives *)
(* the row of another solicitud for the third.                             *)
EXTENDS Conaf, TLC

MCCollected == {Numbers}

MCPages ==
    [n \in Numbers |->
        {p \in Page : /\ p.accepted /\ p.solicitud = 1
                      /\ p.shaped <=> n # 2
                      /\ ~p.unknown
                      /\ n # 1 => p.estado = None}]

=============================================================================
