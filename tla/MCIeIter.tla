------------------------------ MODULE MCIeIter ------------------------------
(***************************************************************************)
(* Instances of IeIter for TLC.  Octets are 0 .. 3; 0 is not printable and *)
(* 3 occurs only as garbage.                                               *)
(***************************************************************************)
EXTENDS IeIter

MCVal == {<<>>, <<1>>, <<2>>, <<0>>, <<1, 2>>}

MCElements == [id : {0, 1}, val : MCVal]

MCLists == {<<d, e>> : d, e \in MCElements} \cup {<<e>> : e \in MCElements} \cup {<<>>}

MCOldNames == {<<>>, <<1>>, <<1, 2>>, <<1, 1>>}
=============================================================================
