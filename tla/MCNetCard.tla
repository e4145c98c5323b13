------------------------------ MODULE MCNetCard -----------------------------
(***************************************************************************)
(* TLC instance of NetCard: every machine with at most six functions on    *)
(* two buses, of which one at least is the host's and any may be a bridge  *)
(* to either bus; and the card on bus 0, behind a bridge, on a line that   *)
(* stays closed, and on a bus that is found twice.                         *)
(***************************************************************************)
EXTENDS NetCard, TLC

Places == {<<0, 0, 0>>, <<0, 0, 1>>, <<0, 1, 0>>, <<1, 0, 0>>, <<1, 0, 1>>, <<1, 1, 0>>}

Cardless ==
    UNION {[S -> {Other, Bridge(0), Bridge(1)}] :
             S \in {T \in SUBSET Places : /\ <<0, 0, 0>> \in T
                                          /\ <<1, 0, 1>> \in T => <<1, 0, 0>> \in T}}

Host == <<0, 0, 0>> :> Other

WithCard ==
    {Host @@ <<0, 1, 0>> :> Card(10),
     Host @@ <<0, 1, 0>> :> Bridge(1) @@ <<1, 0, 0>> :> Other @@ <<1, 0, 1>> :> Card(11),
     Host @@ <<0, 0, 1>> :> Other @@ <<0, 1, 0>> :> Bridge(1) @@ <<1, 1, 0>> :> Card(5)}

MCMachines == Cardless \cup WithCard
=============================================================================
