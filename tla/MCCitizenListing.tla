-------------------------- MODULE MCCitizenListing --------------------------
(***************************************************************************)
(* Three calls on a registry of three: c1 and c2 from the seed script, with *)
(* one created_at and random IVs (but see Parting), c3 entered through the  *)
(* API; c4 and c5 are the ids that creations draw.  m1 and m2 look alike    *)
(* once masked.                                                             *)
(***************************************************************************)
EXTENDS CitizenListing, TLC

CONSTANTS c1, c2, c3, c4, c5, m1, m2, m3, m4, p1, p2, k1, k2, k3

MCMask == (m1 :> "1**2") @@ (m2 :> "1**2") @@ (m3 :> "3**4") @@ (m4 :> "5**6")

Asked(does, c, nid, place) == [does |-> does, citizen |-> c, nid |-> nid, place |-> place]

Create4 == Asked("create", c4, m4, p1)
Create5(nid) == Asked("create", c5, nid, p1)
Renumber == Asked("update", c3, m4, Keep)
Move == Asked("update", c3, Keep, p2)
MoveBack == Asked("update", c3, Keep, p1)
Delete(c) == Asked("delete", c, Keep, Keep)

Calls3(s) == (k1 :> s[1]) @@ (k2 :> s[2]) @@ (k3 :> s[3])

(* Creations and renumberings that compete for m3 and m4, PATCHes and       *)
(* DELETEs of one citizen.                                                  *)
Contests ==
  {Calls3(s) : s \in {<<Create4, Create5(m4), Delete(c3)>>,
                      <<Create4, Renumber, Move>>,
                      <<Create5(m3), Renumber, Move>>,
                      <<Create5(m3), Create4, Renumber>>,
                      <<Create5(m3), Renumber, Delete(c3)>>,
                      <<Create5(m3), Delete(c3), Move>>,
                      <<Move, Delete(c3), Delete(c3)>>,
                      <<Renumber, Move, Move>>}}

(* Rows that come and go while a list is read. *)
Traffic == Calls3(<<Create4, Move, Delete(c2)>>)

(* A seeded number comes back with an old copy, while another asks for it.  *)
Reseeding == Calls3(<<Asked("update", c1, m4, Keep), Asked("update", c1, Keep, p2), Create5(m1)>>)

(* Two that already share m3 part, and an old copy brings them together.    *)
Parting == Calls3(<<Renumber, Move, Delete(c2)>>)

(* Audit rows that come while the log is read, without and with the seed    *)
(* script's.                                                                *)
Updates == Calls3(<<Move, Asked("update", c1, Keep, p2), Asked("update", c2, m4, Keep)>>)
SeededLog == Calls3(<<Move, MoveBack, Create4>>)

(* Rows with one created_at, read one by one. *)
OneByOne == Calls3(<<Move, Delete(c2), Delete(c2)>>)

MCScenarios == Contests \cup {Traffic, Reseeding, Parting, Updates, SeededLog, OneByOne}

SeedRow(nid, created) == [nid |-> nid, place |-> p1, created |-> created]
MCSeedRows ==
  [s \in Scenarios |->
    (c1 :> SeedRow(Encrypt(m1, c1), 0))
      @@ (c2 :> SeedRow(IF s = Parting THEN EncryptDeterministic(m3, c2) ELSE Encrypt(m2, c2), 0))
      @@ (c3 :> SeedRow(EncryptDeterministic(m3, c3), 1)) @@ (c4 :> NoRow) @@ (c5 :> NoRow)]

(* Nobody looks at the lists during the contests. *)
Query(list, filter, size) == [list |-> list, filter |-> filter, size |-> size]
MCQueries ==
  [s \in Scenarios |->
     IF s \in Contests \cup {Reseeding, Parting} THEN {Query("nothing", Keep, 1)}
     ELSE IF s = OneByOne THEN {Query("citizens", Keep, 1)}
     ELSE IF s \in {Updates, SeededLog} THEN {Query("audit", Keep, 2)}
     ELSE {Query("citizens", p1, 4)}]
MCSeedLog == [s \in Scenarios |-> IF s = SeededLog THEN {0} ELSE {}]
=============================================================================
