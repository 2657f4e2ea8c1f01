------------------------------ MODULE MCIngest ------------------------------
(***************************************************************************)
(* Small logs for the ingest model: values that come back in another       *)
(* order in another source, every way a line can fail, a copy of a source  *)
(* under another name, and a line the write guard refuses.                 *)
(***************************************************************************)
EXTENDS Ingest, TLC

CONSTANTS s1, s2, s3, s4, s5, t1, t2, n1, n2, e1, none, email, name

Row(t, a, b) == [kind |-> "row", topic |-> t, ask |-> a, reply |-> b, residue |-> FALSE]

Other(k) == [Row(t1, none, none) EXCEPT !.kind = k]

MCClassOf == [v \in {n1, n2, e1} |-> IF v = e1 THEN email ELSE name]

First == << Row(t1, n1, none), Row(t2, n2, n1), Other("blank"), Row(t1, n1, n2) >>

Second == << Row(t2, e1, n2), [Row(t1, n2, none) EXCEPT !.kind = "clash"],
             Other("unparsed"), Row(t2, n2, none) >>

Third == << Other("unbuildable"), Row(t1, n1, none) >>

\* A source the guard refuses after its first record, one whose reading stops.
Leaky == << Row(t1, n1, none), [Row(t2, e1, none) EXCEPT !.residue = TRUE], Other("unparsed") >>

Fatal == << Row(t2, n2, none), Other("fatal") >>

MCLog == s1 :> First @@ s2 :> Second @@ s3 :> Third @@ s4 :> Leaky @@ s5 :> Fatal
=============================================================================
