---- MODULE MCOsvClient ----
(***************************************************************************)
(* OsvClient for TLC: package lists that fill a batch of two, spill into a *)
(* second one, repeat a purl within and across batches, hold the empty     *)
(* purl or have nothing to ask; advisory lists that are empty, unsorted,   *)
(* shared between purls, cut to a first page, or name an ID twice.  IDs 1  *)
(* and 2 share a CVE.                                                      *)
(***************************************************************************)
EXTENDS OsvClient

MCInputs ==
  {<<>>, <<0>>, <<1>>, <<0, 2>>, <<1, 2>>, <<2, 1>>, <<1, 1, 2>>, <<2, 0, 1>>, <<1, 2, 3>>,
   <<1, 3, 1>>, <<3, 2, 1, 2>>, <<2, 2, 3, 3>>, <<1, 2, 0, 1, 3>>}

Whole(ids) == [ids |-> ids, page |-> Len(ids)]

FirstOnly(ids) == [ids |-> ids, page |-> 1]

MCDatabases ==
  {<<Whole(<<>>), Whole(<<>>), Whole(<<>>)>>,
   <<Whole(<<2, 1>>), Whole(<<3, 3>>), Whole(<<2>>)>>,
   <<Whole(<<3, 2>>), Whole(<<>>), Whole(<<1, 2>>)>>,
   <<FirstOnly(<<2, 3>>), Whole(<<1, 2>>), FirstOnly(<<3, 1>>)>>,
   <<Whole(<<1>>), Whole(<<3, 2, 1>>), [ids |-> <<2>>, page |-> 0]>>}

MCCVE(id) == IF id = 2 THEN 1 ELSE id
====
