------------------------------ MODULE MCAttention ------------------------------
(* A medication alarm, forced, and a reminder under its title; notices of  *)
(* every endpoint, on small budgets.                                       *)
EXTENDS Attention

Request(id, via, source, key, kind, asks) ==
    [id |-> id, via |-> via, source |-> source, key |-> key, asks |-> asks,
     explicit |-> kind = "keyed", safety |-> kind = "safety", force |-> kind = "forced"]

MCSources == {"meds", "mail"}
MCRequests ==
    {Request(1, "push", "meds", "dose", "forced", "push"),
     Request(2, "push", "meds", "dose", "safety", "push"),
     Request(3, "inbox", "mail", "a", "keyed", "push"),
     Request(4, "link", "mail", "b", "keyed", "push"),
     Request(5, "event", "mail", "c", "plain", "push")}
MCCeiling == [s \in MCSources |-> "push"]
MCTierCap == [s \in MCSources |-> "push"]
=============================================================================
