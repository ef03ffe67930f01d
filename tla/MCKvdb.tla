------------------------------- MODULE MCKvdb -------------------------------
(***************************************************************************)
(* Kvdb with a value of one block, a value of two and the empty value.  A  *)
(* crash may leave of the long one a beginning of one block, or all but    *)
(* its end of line.                                                        *)
(***************************************************************************)
EXTENDS Kvdb

MCValues == {"short", "long", "empty"}
MCTexts  == {Garbled, "head", "most", "two lines"}
MCNeed   == [short |-> 1, long |-> 2, empty |-> 0, head |-> 1, most |-> 2]
              @@ ("two lines" :> 2) @@ (NoVal :> 0) @@ (Garbled :> 1)
MCTorn   == [short |-> {}, long |-> {"head", "most"}, empty |-> {}]
MCBlur   == [x \in MCValues \cup MCTexts |->
               IF MCNeed[x] = 2 THEN "two lines" ELSE Garbled]
=============================================================================
