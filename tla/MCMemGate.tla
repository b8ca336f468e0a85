------------------------------ MODULE MCMemGate ------------------------------
(* Three texts, the one in the middle similar to both others.  The newer two    *)
(* have update language; "mid" comes from the model, flagged as an update, with *)
(* a fact that names a previous value.                                          *)
EXTENDS MemGate

CONSTANTS old, mid, new, alice, city

MCSimilar == {<<old, mid>>, <<mid, old>>, <<mid, new>>, <<new, mid>>}
MCUpdating == {mid, new}

Fact(v, previous) == [key |-> city, value |-> v, previous |-> previous]
Text(t, fs, ns) ==
  [text |-> t, structured |-> FALSE, update |-> FALSE, facts |-> fs, names |-> ns, links |-> {}]
Given(t, up_, fs, ns) ==
  [text |-> t, structured |-> TRUE, update |-> up_, facts |-> fs, names |-> ns, links |-> {city}]

MCPayloads ==
  {Text(old, <<>>, {alice}),
   Text(new, <<Fact(1, FALSE)>>, {}),
   Given(mid, TRUE, <<Fact(2, TRUE)>>, {alice})}
MCScores == {5, 28, 29, 34, 50, 95}

(* Four memories of any kind, three once there was a kill or an ingestion that  *)
(* raised; more only of the first text, enough for two cold starts.             *)
Few ==
  Len(mems) > (IF crashes + failures = 0 THEN 4 ELSE 3) => \A r \in Rows : mems[r].text = old
=============================================================================
