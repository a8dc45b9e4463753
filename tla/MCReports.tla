------------------------------- MODULE MCReports -------------------------------
(* Stores with padded, capital and blank names, in channels with such names,  *)
(* in provinces that are known by name, by city or not at all, each with a    *)
(* few amounts.                                                               *)
EXTENDS Reports

Spelled(n, dash, wrap) == [name |-> n, dashed |-> dash, wrapped |-> wrap]
Plain(n) == Spelled(n, FALSE, FALSE)

Stored(n, inCaps, pad) == [name |-> n, caps |-> inCaps, padded |-> pad]

Group(n, inCaps, pad, k, p, c) ==
  [label |-> Stored(n, inCaps, pad), kanal |-> k, prov |-> p, kota |-> c]

FiveGroups == {
  Group("A", FALSE, FALSE, Stored("online", TRUE, FALSE), Plain("papua"), Plain("")),
  Group("A", FALSE, TRUE, Stored("online", TRUE, TRUE), Spelled("papua", TRUE, TRUE), Plain("sorong")),
  Group("Lainnya", FALSE, FALSE, Stored("online", TRUE, FALSE), Plain(""), Spelled("sorong", TRUE, TRUE)),
  Group("Lainnya", TRUE, FALSE, Stored("online", TRUE, FALSE), Plain("nowhere"), Spelled("fakfak", TRUE, FALSE)),
  Group("", FALSE, TRUE, Stored("", FALSE, TRUE), Plain("nowhere"), Plain("nowhere"))}

Amount(o, l, q) == [omset |-> o, lalu |-> l, qty |-> q]
FewAmounts == {Amount(2, 1, 1), Amount(1, 0, 1), Amount(-1, 0, 1), Amount(1, 1, 0), Amount(1, 2, 0)}
AllAlike == {[g \in FiveGroups |-> a] : a \in {Amount(2, 1, 1), Amount(-1, 0, 1), None}}

Names  == [n \in {Plain("papua")} |-> "Papua"]
Cities == [n \in {Plain("sorong")} |-> "Papua Barat Daya"]

=============================================================================
