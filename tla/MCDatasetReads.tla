--------------------------- MODULE MCDatasetReads ---------------------------
(***************************************************************************)
(* DatasetReads for two hosts that report every 200 seconds: datasets of   *)
(* five records, three of them of the first host.  Four units make the     *)
(* sixth decimal: the bounds of a range lose digits, up, down or from the  *)
(* middle, and may become equal.                                           *)
(***************************************************************************)
EXTENDS DatasetReads

\* A dataset from its values and types, in the order the generator produces it.
MCDataset(values, types) ==
    [i \in 1..Len(values) |->
        [host_id |-> IF i % 2 = 1 THEN "host-1" ELSE "host-2",
         metric_timestamp |-> 200 * ((i + 1) \div 2),
         value |-> values[i], anomaly_type |-> types[i]]]

MCDatasets ==
    {MCDataset(<<5, 1, 13, 8, 13>>, <<"null", "null", "a", "b", "a">>),
     MCDataset(<<7, 7, 7, 3, 6>>, <<"a", "null", "b", "null", "c">>),
     MCDataset(<<3, 5, 2, 10, 3>>, <<"null", "a", "null", "null", "null">>)}

\* The first one stands for range=minmax.
MCRanges == {<<0, 0>>, <<5, 11>>, <<4, 12>>}

MCKs == -2..2
MCBins == {-1, 0, 2, 4}
MCWindows == {<<400, 600>>, <<300, 500>>, <<400, 400>>, <<-1, -1>>}
=============================================================================
